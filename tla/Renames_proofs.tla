--------------------------- MODULE Renames_proofs ---------------------------
(***************************************************************************)
(* Proofs about Renames: that what a session calls an agent is told in time  *)
(* of every rename its world has not heard, and so that Renames implements   *)
(* Naming.                                                                  *)
(***************************************************************************)
EXTENDS Renames, SequenceTheorems, WellFoundedInduction, TLAPS

USE RenamesConstants

-----------------------------------------------------------------------------
(* Names, composed.                                                        *)

\* What a translation makes of a name.
Told(map, x) == IF map[x] = Unnamed THEN x ELSE map[x]
Maps == [Names -> Named]
Moves == Seq(Names \X Names)

LEMMA ComposeTyped ==
  ASSUME NEW map \in Maps, NEW old, NEW new \in Names
  PROVE  Compose(map, old, new) \in Maps
BY DEF Compose, Maps, Named

\* A further rename is heard by who is called what it renames, and by nobody else.
LEMMA ComposeTold ==
  ASSUME NEW map \in Maps, NEW x \in Names, NEW old \in Names, NEW new \in Names
  PROVE  Told(Compose(map, old, new), x) = IF Told(map, x) = old THEN new ELSE Told(map, x)
<1>1. Unnamed \notin Names /\ new # Unnamed /\ old # Unnamed
  OBVIOUS
<1>2. Compose(map, old, new)[x] =
        IF map[x] = old \/ (x = old /\ map[x] = Unnamed) THEN new ELSE map[x]
  BY DEF Compose
<1> QED BY <1>1, <1>2 DEF Told

\* Induction over the naturals, from the least of those a claim fails for.
LEMMA Least ==
  ASSUME NEW T, T \subseteq Nat, T # {}
  PROVE  \E x \in T : \A y \in T : x <= y
<1>1. \E R : IsWellFoundedOn(R, Nat) /\ \A x, y \in Nat : (x < y) => <<x, y>> \in R
  <2>1. \A x, y \in Nat : (x < y) => <<x, y>> \in OpToRel(<,Nat)
    BY SMT DEF OpToRel
  <2> QED BY <2>1, NatLessThanWellFounded, Zenon
<1>2. PICK R : IsWellFoundedOn(R, Nat) /\ \A x, y \in Nat : (x < y) => <<x, y>> \in R
  BY <1>1
<1>3. \E x \in T : \A y \in T : ~ (<<y, x>> \in R)
  <2>1. IsWellFoundedOn(R, Nat)
    BY <1>2, Zenon
  <2> QED BY ONLY <2>1, T \subseteq Nat, T # {}, WFMin, ZenonT(60)
<1>4. \A y, x \in T : y \in Nat /\ x \in Nat
  BY Zenon
<1>5. PICK x \in T : \A y \in T : ~ (<<y, x>> \in R)
  BY <1>3, Zenon
<1>6. \A y \in T : x <= y
  <2> TAKE y \in T
  <2>1. x \in Nat /\ y \in Nat /\ ~(<<y, x>> \in R)
    BY <1>4, <1>5, Zenon
  <2>2. ~(y < x)
    BY <1>2, <2>1, Zenon
  <2> QED BY <2>1, <2>2, SMT
<1> QED BY <1>5, <1>6, Zenon

LEMMA Inductive ==
  ASSUME NEW T, 0 \in T, \A n \in Nat : n \in T => n + 1 \in T
  PROVE  \A n \in Nat : n \in T
<1> SUFFICES ASSUME Nat \ T # {}
             PROVE  FALSE
  OBVIOUS
<1>1. PICK n \in Nat \ T : \A m \in Nat \ T : n <= m
  BY Least
<1>2. n # 0 /\ n - 1 \in Nat /\ n - 1 \in T
  BY <1>1
<1> QED BY <1>1, <1>2

\* The function `RenamesFor` is the last value of, as far as `k`.
Step(moves, known, k, map) ==
  IF k <= known THEN Nothing ELSE Compose(map, moves[k][1], moves[k][2])
Composed(moves, known, to) ==
  to = [k \in 0 .. Len(moves) |->
          IF k <= known THEN Nothing ELSE Compose(to[k - 1], moves[k][1], moves[k][2])]
Upto(moves, known, to, n) ==
  /\ to \in [0 .. n -> Maps] /\ to[0] = Nothing
  /\ \A k \in 1 .. n : to[k] = Step(moves, known, k, to[k - 1])

LEMMA StepTyped ==
  ASSUME NEW moves \in Moves, NEW known, NEW k \in 1 .. Len(moves), NEW map \in Maps
  PROVE  Step(moves, known, k, map) \in Maps /\ Nothing \in Maps
<1>1. moves[k] \in Names \X Names
  BY DEF Moves
<1>2. Nothing \in Maps
  BY DEF Nothing, Maps, Named
<1> QED BY <1>1, <1>2, ComposeTyped DEF Step

LEMMA UptoExists ==
  ASSUME NEW moves \in Moves, NEW known \in Nat
  PROVE  \E to : Upto(moves, known, to, Len(moves))
<1> DEFINE T == {k \in Nat : k <= Len(moves) => \E to : Upto(moves, known, to, k)}
<1>0. Len(moves) \in Nat
  BY DEF Moves
<1>1. 0 \in T
  <2> DEFINE f == [n \in 0 .. 0 |-> Nothing]
  <2>1. f \in [0 .. 0 -> Maps] /\ f[0] = Nothing
    BY DEF Nothing, Maps, Named
  <2>2. Upto(moves, known, f, 0)
    BY <2>1 DEF Upto
  <2> QED BY <2>2
<1>2. ASSUME NEW k \in Nat, k \in T
      PROVE  k + 1 \in T
  <2> SUFFICES ASSUME k + 1 <= Len(moves)
               PROVE  \E to : Upto(moves, known, to, k + 1)
    OBVIOUS
  <2>0. k <= Len(moves) /\ k + 1 \in 1 .. Len(moves) /\ k \in 0 .. k
    BY <1>0
  <2>1. PICK g : Upto(moves, known, g, k)
    BY <1>2, <2>0
  <2> DEFINE last == Step(moves, known, k + 1, g[k])
             f == [n \in 0 .. k + 1 |-> IF n = k + 1 THEN last ELSE g[n]]
  <2>2. g[k] \in Maps
    BY <2>0, <2>1 DEF Upto
  <2>3. last \in Maps
    BY <2>0, <2>2, StepTyped
  <2>4. f \in [0 .. k + 1 -> Maps]
    <3> SUFFICES ASSUME NEW n \in 0 .. k + 1
                 PROVE  f[n] \in Maps
      OBVIOUS
    <3> HIDE DEF last
    <3>1. CASE n = k + 1
      BY <2>3, <3>1
    <3>2. CASE n # k + 1
      BY <2>1, <3>2 DEF Upto
    <3> QED BY <3>1, <3>2
  <2>5. f[0] = Nothing
    BY <2>1 DEF Upto
  <2>6. ASSUME NEW n \in 1 .. k + 1
        PROVE  f[n] = Step(moves, known, n, f[n - 1])
    <3>1. CASE n = k + 1
      <4>1. n - 1 = k /\ f[n - 1] = g[k] /\ f[n] = last
        BY <3>1
      <4> QED BY <3>1, <4>1
    <3>2. CASE n # k + 1
      <4>1. f[n] = g[n] /\ f[n - 1] = g[n - 1] /\ n \in 1 .. k
        BY <3>2
      <4> QED BY <2>1, <4>1 DEF Upto
    <3> QED BY <3>1, <3>2
  <2> HIDE DEF f
  <2>7. Upto(moves, known, f, k + 1)
    BY <2>4, <2>5, <2>6 DEF Upto
  <2> QED BY <2>7
<1>3. \A k \in Nat : k \in T
  <2> HIDE DEF T
  <2> QED BY <1>1, <1>2, Inductive
<1> QED BY <1>0, <1>3

LEMMA RenamesForExists ==
  ASSUME NEW moves \in Moves, NEW known \in Nat
  PROVE  \E to : /\ Upto(moves, known, to, Len(moves))
                 /\ RenamesFor(moves, known) = to[Len(moves)]
<1> DEFINE to == CHOOSE to : Composed(moves, known, to)
<1>0. Len(moves) \in Nat
  BY DEF Moves
<1>1. PICK f : Upto(moves, known, f, Len(moves))
  BY UptoExists
<1>2. \A k \in 0 .. Len(moves) :
        f[k] = IF k <= known THEN Nothing ELSE Compose(f[k - 1], moves[k][1], moves[k][2])
  <2> SUFFICES ASSUME NEW k \in 0 .. Len(moves)
               PROVE  f[k] = IF k <= known THEN Nothing
                             ELSE Compose(f[k - 1], moves[k][1], moves[k][2])
    OBVIOUS
  <2>1. CASE k = 0
    BY <1>1, <2>1 DEF Upto
  <2>2. CASE k # 0
    <3>1. k \in 1 .. Len(moves)
      BY <1>0, <2>2
    <3> QED BY <1>1, <3>1 DEF Upto, Step
  <2> QED BY <2>1, <2>2
<1>3. f = [k \in 0 .. Len(moves) |-> f[k]]
  BY <1>1 DEF Upto
<1>4. Composed(moves, known, f)
  BY <1>2, <1>3 DEF Composed
<1>5. Composed(moves, known, to)
  BY <1>4
<1>6. RenamesFor(moves, known) = to[Len(moves)]
  BY DEF RenamesFor, Composed
<1> HIDE DEF to
<1> DEFINE Body(r) == [k \in 0 .. Len(moves) |->
                         IF k <= known THEN Nothing
                         ELSE Compose(r[k - 1], moves[k][1], moves[k][2])]
<1>7. to = Body(to)
  BY <1>5 DEF Composed
<1>8. ASSUME NEW k \in 1 .. Len(moves)
      PROVE  Body(to)[k] = Step(moves, known, k, to[k - 1])
  BY <1>0 DEF Step
<1>9. Body(to)[0] = Nothing /\ DOMAIN Body(to) = 0 .. Len(moves)
      /\ Body(to) = [k \in 0 .. Len(moves) |-> Body(to)[k]]
  BY <1>0
<1> HIDE DEF Body
<1>10. /\ to[0] = Nothing /\ to = [k \in 0 .. Len(moves) |-> to[k]]
       /\ \A k \in 1 .. Len(moves) : to[k] = Step(moves, known, k, to[k - 1])
  BY <1>7, <1>8, <1>9
<1> DEFINE T == {k \in Nat : k <= Len(moves) => to[k] \in Maps}
<1>11. 0 \in T
  BY <1>10 DEF Nothing, Maps, Named
<1>12. ASSUME NEW k \in Nat, k \in T
       PROVE  k + 1 \in T
  <2> SUFFICES ASSUME k + 1 <= Len(moves)
               PROVE  to[k + 1] \in Maps
    OBVIOUS
  <2>1. k <= Len(moves) /\ k + 1 \in 1 .. Len(moves) /\ (k + 1) - 1 = k
    BY <1>0
  <2>2. to[k] \in Maps
    BY <1>12, <2>1
  <2>3. to[k + 1] = Step(moves, known, k + 1, to[k])
    BY <1>10, <2>1
  <2> QED BY <2>1, <2>2, <2>3, StepTyped
<1>13. \A k \in Nat : k \in T
  <2> HIDE DEF T
  <2> QED BY <1>11, <1>12, Inductive
<1>14. to \in [0 .. Len(moves) -> Maps]
  BY <1>0, <1>10, <1>13
<1> QED BY <1>6, <1>10, <1>14 DEF Upto

\* What has been heard of is a function of the renames.
LEMMA UptoSame ==
  ASSUME NEW moves \in Moves, NEW more \in Moves, NEW known, NEW n \in Nat, NEW m \in Nat,
         NEW f, NEW g, Upto(moves, known, f, n), Upto(more, known, g, m), n <= m,
         \A k \in 1 .. n : moves[k] = more[k]
  PROVE  f[n] = g[n]
<1> DEFINE T == {k \in Nat : k <= n => f[k] = g[k]}
<1>1. 0 \in T
  BY DEF Upto
<1>2. ASSUME NEW k \in Nat, k \in T
      PROVE  k + 1 \in T
  <2> SUFFICES ASSUME k + 1 <= n
               PROVE  f[k + 1] = g[k + 1]
    OBVIOUS
  <2>1. k + 1 \in 1 .. n /\ k + 1 \in 1 .. m /\ (k + 1) - 1 = k /\ k <= n
    OBVIOUS
  <2>2. f[k + 1] = Step(moves, known, k + 1, f[k]) /\ g[k + 1] = Step(more, known, k + 1, g[k])
    BY <2>1 DEF Upto
  <2>3. f[k] = g[k] /\ moves[k + 1] = more[k + 1]
    BY <1>2, <2>1
  <2> QED BY <2>2, <2>3 DEF Step
<1>3. \A k \in Nat : k \in T
  <2> HIDE DEF T
  <2> QED BY <1>1, <1>2, Inductive
<1> QED BY <1>3

\* The three things to know of it: its type, that one who has heard of every rename is
\* told nothing, and that a further one is composed onto what it was.
LEMMA RenamesForTyped ==
  ASSUME NEW moves \in Moves, NEW known \in Nat
  PROVE  RenamesFor(moves, known) \in Maps
<1>1. PICK to : Upto(moves, known, to, Len(moves)) /\ RenamesFor(moves, known) = to[Len(moves)]
  BY RenamesForExists
<1>2. Len(moves) \in 0 .. Len(moves)
  BY DEF Moves
<1> QED BY <1>1, <1>2 DEF Upto

LEMMA RenamesForNone ==
  ASSUME NEW moves \in Moves
  PROVE  RenamesFor(moves, Len(moves)) = Nothing
<1> DEFINE n == Len(moves)
<1>1. n \in Nat
  BY DEF Moves
<1>2. PICK to : Upto(moves, n, to, n) /\ RenamesFor(moves, n) = to[n]
  BY <1>1, RenamesForExists
<1>3. CASE n = 0
  BY <1>2, <1>3 DEF Upto
<1>4. CASE n # 0
  <2>1. n \in 1 .. n /\ n <= n
    BY <1>1, <1>4
  <2> HIDE DEF n
  <2> QED BY <1>2, <2>1 DEF Upto, Step
<1> QED BY <1>2, <1>3, <1>4

LEMMA RenamesForMore ==
  ASSUME NEW moves \in Moves, NEW known \in 0 .. Len(moves), NEW old \in Names,
         NEW new \in Names
  PROVE  /\ Append(moves, <<old, new>>) \in Moves
         /\ Len(Append(moves, <<old, new>>)) = Len(moves) + 1
         /\ RenamesFor(Append(moves, <<old, new>>), known) =
              Compose(RenamesFor(moves, known), old, new)
<1> DEFINE n == Len(moves)
           more == Append(moves, <<old, new>>)
<1>1. n \in Nat /\ known \in Nat /\ known <= n
  BY DEF Moves
<1>2. more \in Moves /\ Len(more) = n + 1 /\ more[n + 1] = <<old, new>>
      /\ \A k \in 1 .. n : more[k] = moves[k]
  <2>1. <<old, new>> \in Names \X Names /\ moves \in Seq(Names \X Names)
    BY DEF Moves
  <2> QED BY <2>1, AppendProperties DEF Moves
<1> HIDE DEF n, more
<1>3. PICK f : Upto(moves, known, f, n) /\ RenamesFor(moves, known) = f[n]
  BY <1>1, RenamesForExists DEF n
<1>4. PICK g : Upto(more, known, g, n + 1) /\ RenamesFor(more, known) = g[n + 1]
  BY <1>1, <1>2, RenamesForExists
<1>5. f[n] = g[n]
  BY <1>1, <1>2, <1>3, <1>4, UptoSame
<1>6. g[n + 1] = Step(more, known, n + 1, g[n])
  <2>1. n + 1 \in 1 .. n + 1 /\ (n + 1) - 1 = n
    BY <1>1
  <2> QED BY <1>4, <2>1 DEF Upto
<1>7. g[n + 1] = Compose(g[n], old, new)
  BY <1>1, <1>2, <1>6 DEF Step
<1> QED BY <1>2, <1>3, <1>4, <1>5, <1>7 DEF n, more

-----------------------------------------------------------------------------
(* The invariant.                                                          *)

Item == [kind : {"turn", "close"}, of : Sessions, agent : Agents \cup {Unnamed}]
Phases == {"worlds", "writer"}
Types ==
  /\ name \in [Agents -> Named] /\ owner \in [Conversations -> Named]
  /\ renaming \in {<<>>} \cup Names \X Names \X Phases
  /\ ledger \in Moves /\ Len(ledger) <= MaxRenames
  /\ ~InOrder /\ renaming[3] = "worlds" => Len(ledger) < MaxRenames
  /\ current \in World /\ candidate \in {<<>>} \cup {<<w>> : w \in World}
  /\ session \in [Sessions -> {"away", "bound", "recording", "closed"}]
  /\ world \in [Sessions -> World] /\ moved \in [Sessions -> Maps]
  /\ queue \in Seq(Item) /\ Len(queue) <= MaxTurns

\* A name is one agent's, what is recorded of an agent is under the name it has, and
\* nothing of it was refused.
NamesInv ==
  /\ \A a, b \in Agents : name[a] = name[b] /\ name[a] # Unnamed => a = b
  /\ \A c \in Conversations : owner[c] # Unnamed => owner[c] = name[c[2]]
  /\ refused = {}

\* What an agent is called as far as the ledger tells.
Heard(a) ==
  IF ~InOrder /\ renaming[3] = "worlds" /\ name[a] = renaming[2] THEN renaming[1] ELSE name[a]

\* A world that was read speaks of agents by names that lead to those they have, and
\* not of one that took a name as it was freed.
Follows(w) ==
  /\ w \in World /\ w.known <= Len(ledger)
  /\ \A a \in Agents : w.serves[a] # Unnamed =>
       /\ name[a] # Unnamed
       /\ ~InOrder => name[a] # renaming[1]
       /\ Told(RenamesFor(ledger, w.known), w.serves[a]) = Heard(a)
WorldsInv ==
  /\ Follows(current) /\ \A s \in Sessions : Follows(world[s])
  /\ candidate # <<>> => Follows(candidate[1])

\* The translations of a session, while the writer has something of it to write, lead
\* there too, or to the name just left when the writer has not been told.
Leads(s, a) ==
  \/ NameNow(s, world[s].serves[a]) = name[a]
  \/ ~InOrder /\ name[a] = renaming[2] /\ NameNow(s, world[s].serves[a]) = renaming[1]
MovedInv ==
  \A s \in Sessions : Recording(s) =>
    \A a \in Agents : world[s].serves[a] # Unnamed => Leads(s, a)

\* What waits is of a session that has been recorded, by a name its world has; a close
\* is the last of it.
QueueInv ==
  /\ \A i \in DOMAIN queue :
       /\ session[queue[i].of] \in {"recording", "closed"}
       /\ queue[i].kind = "close" => session[queue[i].of] = "closed"
       /\ queue[i].kind = "turn" =>
            queue[i].agent \in Agents /\ world[queue[i].of].serves[queue[i].agent] # Unnamed
  /\ \A i, j \in DOMAIN queue : i < j /\ queue[i].kind = "close" => queue[j].of # queue[i].of

IInv == Types /\ NamesInv /\ WorldsInv /\ MovedInv /\ QueueInv

-----------------------------------------------------------------------------
(* The steps.                                                              *)

LEMMA Triples ==
  ASSUME NEW x, NEW y, NEW z
  PROVE  <<x, y, z>> # <<>> /\ <<x, y, z>>[1] = x /\ <<x, y, z>>[2] = y /\ <<x, y, z>>[3] = z
OBVIOUS

\* Between a commit and the last announcement there is one rename.
LEMMA OneRename ==
  ASSUME Types
  PROVE  ~InOrder => /\ renaming[1] \in Names /\ renaming[2] \in Names /\ renaming[3] \in Phases
                     /\ renaming = <<renaming[1], renaming[2], renaming[3]>>
<1>1. renaming = <<>> \/ renaming \in Names \X Names \X Phases
  BY DEF Types
<1> QED BY <1>1 DEF InOrder

LEMMA QueueMoves ==
  ASSUME NEW q \in Seq(Item), NEW e \in Item
  PROVE  /\ Append(q, e) \in Seq(Item) /\ Len(Append(q, e)) = Len(q) + 1
         /\ DOMAIN Append(q, e) = DOMAIN q \cup {Len(q) + 1}
         /\ DOMAIN q = 1 .. Len(q) /\ Len(q) \in Nat
         /\ Append(q, e)[Len(q) + 1] = e /\ \A i \in DOMAIN q : Append(q, e)[i] = q[i]
<1>1. Append(q, e) \in Seq(Item) /\ Len(Append(q, e)) = Len(q) + 1
      /\ Append(q, e)[Len(q) + 1] = e /\ \A i \in 1 .. Len(q) : Append(q, e)[i] = q[i]
  BY AppendProperties
<1>2. DOMAIN q = 1 .. Len(q) /\ DOMAIN Append(q, e) = 1 .. Len(q) + 1 /\ Len(q) \in Nat
  BY <1>1, LenProperties
<1>3. 1 .. Len(q) + 1 = (1 .. Len(q)) \cup {Len(q) + 1}
  BY <1>2
<1> QED BY <1>1, <1>2, <1>3

LEMMA QueueRest ==
  ASSUME NEW q \in Seq(Item), q # <<>>
  PROVE  /\ Tail(q) \in Seq(Item) /\ Len(Tail(q)) <= Len(q) /\ Head(q) = q[1]
         /\ 1 \in DOMAIN q /\ Head(q) \in Item
         /\ \A i \in DOMAIN Tail(q) : i + 1 \in DOMAIN q /\ 1 < i + 1 /\ Tail(q)[i] = q[i + 1]
<1>1. Len(q) \in Nat \ {0} /\ DOMAIN q = 1 .. Len(q) /\ \A i \in 1 .. Len(q) : q[i] \in Item
  BY EmptySeq
<1>2. /\ Head(q) \in Item /\ Tail(q) \in Seq(Item) /\ Len(Tail(q)) = Len(q) - 1
      /\ \A i \in 1 .. Len(Tail(q)) : Tail(q)[i] = q[i + 1]
  BY HeadTailProperties
<1>3. DOMAIN Tail(q) = 1 .. Len(q) - 1
  BY <1>2, LenProperties
<1>4. Head(q) = q[1]
  BY <1>1
<1>5. ASSUME NEW i \in DOMAIN Tail(q)
      PROVE  i + 1 \in DOMAIN q /\ 1 < i + 1 /\ Tail(q)[i] = q[i + 1]
  <2>1. i \in 1 .. Len(q) - 1 /\ Len(Tail(q)) = Len(q) - 1
    BY <1>2, <1>3
  <2> QED BY <1>1, <1>2, <2>1
<1>6. 1 \in DOMAIN q /\ Len(Tail(q)) <= Len(q)
  BY <1>1, <1>2
<1> QED BY <1>2, <1>4, <1>5, <1>6

LEMMA QueueItems ==
  ASSUME Types
  PROVE  \A i \in DOMAIN queue : queue[i] \in Item /\ queue[i].of \in Sessions
<1>1. queue \in Seq(Item)
  BY DEF Types
<1>2. \A i \in DOMAIN queue : queue[i] \in Item
  BY <1>1
<1> QED BY <1>2 DEF Item

LEMMA Records ==
  ASSUME Types, NEW s \in Sessions, NEW k \in {"turn", "close"}, NEW a \in Agents \cup {Unnamed}
  PROVE  [kind |-> k, of |-> s, agent |-> a] \in Item
BY DEF Item

\* What the writer takes next is a turn of a session and an agent its world speaks of.
LEMMA NextTurn ==
  ASSUME Types, QueueInv, queue # <<>>, Head(queue).kind = "turn"
  PROVE  \E s \in Sessions, a \in Agents :
           /\ Head(queue).of = s /\ Head(queue).agent = a /\ world[s] \in World
           /\ world[s].serves[a] \in Names /\ Recording(s)
<1>1. 1 \in DOMAIN queue /\ Head(queue) = queue[1] /\ Head(queue) \in Item
  BY QueueRest DEF Types
<1> DEFINE s == Head(queue).of
           a == Head(queue).agent
<1>2. s \in Sessions /\ a \in Agents /\ world[s].serves[a] # Unnamed
  BY <1>1 DEF Item, QueueInv
<1>3. world[s] \in World /\ world[s].serves[a] \in Named
  BY <1>2 DEF Types, World
<1>4. Recording(s)
  BY <1>1 DEF Recording
<1> QED BY <1>2, <1>3, <1>4 DEF Named

LEMMA TypesStep ==
  ASSUME Types, QueueInv, [Next]_vars
  PROVE  Types'
<1>1. ASSUME NEW a \in Agents, NEW n \in Names, Create(a, n)
      PROVE  Types'
  BY <1>1 DEF Create, Types, Named, InOrder
<1>2. ASSUME NEW a \in Agents, NEW n \in Names, RenameCommits(a, n)
      PROVE  Types'
  <2>1. /\ name' \in [Agents -> Named] /\ owner' \in [Conversations -> Named]
        /\ renaming' = <<name[a], n, "worlds">> /\ Len(ledger) < MaxRenames
        /\ name[a] \in Names
        /\ UNCHANGED <<ledger, current, candidate, session, world, moved, queue>>
    BY <1>2 DEF RenameCommits, Types, Named
  <2>2. renaming' \in Names \X Names \X Phases
    BY <2>1 DEF Phases
  <2> QED BY <2>1, <2>2 DEF Types
<1>3. ASSUME TellWorlds
      PROVE  Types'
  <2>1. ~InOrder /\ renaming[1] \in Names /\ renaming[2] \in Names /\ renaming[3] = "worlds"
        /\ renaming = <<renaming[1], renaming[2], "worlds">>
    BY <1>3, OneRename DEF TellWorlds
  <2>2. renaming' = <<renaming[1], renaming[2], "writer">>
    BY <1>3, <2>1 DEF TellWorlds
  <2>3. ledger' = Append(ledger, <<renaming[1], renaming[2]>>) /\ Len(ledger) < MaxRenames
    BY <1>3, <2>1 DEF TellWorlds, Types
  <2>4. ledger' \in Moves /\ Len(ledger') <= MaxRenames
    <3>1. <<renaming[1], renaming[2]>> \in Names \X Names /\ ledger \in Seq(Names \X Names)
      BY <2>1 DEF Types, Moves
    <3> QED BY <2>3, <3>1, AppendProperties DEF Moves
  <2>5. renaming' \in Names \X Names \X Phases /\ renaming'[3] = "writer"
    BY <2>1, <2>2 DEF Phases
  <2>6. UNCHANGED <<name, owner, current, candidate, session, world, moved, queue>>
    BY <1>3 DEF TellWorlds
  <2> QED BY <2>4, <2>5, <2>6 DEF Types
<1>4. ASSUME TellWriter
      PROVE  Types'
  <2>1. ~InOrder /\ renaming[1] \in Names /\ renaming[2] \in Names
    BY <1>4, OneRename DEF TellWriter
  <2>2. \A s \in Sessions : moved[s] \in Maps /\ Compose(moved[s], renaming[1], renaming[2]) \in Maps
    BY <2>1, ComposeTyped DEF Types
  <2>3. moved' \in [Sessions -> Maps]
    BY <1>4, <2>2 DEF TellWriter
  <2>4. renaming' = <<>> /\ UNCHANGED <<name, owner, ledger, current, candidate, session, world, queue>>
    BY <1>4 DEF TellWriter
  <2> QED BY <2>3, <2>4 DEF Types, InOrder
<1>5. ASSUME ReadStored
      PROVE  Types'
  <2>1. [serves |-> name, known |-> Len(ledger)] \in World
    BY DEF World, Types, Moves
  <2> QED BY <1>5, <2>1 DEF ReadStored, Types, InOrder
<1>6. ASSUME Install \/ Discarded
      PROVE  Types'
  <2>1. candidate # <<>> => candidate[1] \in World
    BY DEF Types
  <2> QED BY <1>6, <2>1 DEF Install, Discarded, Types, InOrder
<1>7. ASSUME NEW s \in Sessions, Bind(s)
      PROVE  Types'
  BY <1>7 DEF Bind, Types, InOrder
<1>8. ASSUME NEW s \in Sessions, Register(s)
      PROVE  Types'
  <2>1. RenamesFor(ledger, world[s].known) \in Maps
    BY RenamesForTyped DEF Types, World
  <2> QED BY <1>8, <2>1 DEF Register, Types, InOrder
<1>9. ASSUME NEW s \in Sessions, NEW a \in Agents, Speak(s, a)
      PROVE  Types'
  <2>1. [kind |-> "turn", of |-> s, agent |-> a] \in Item
    BY Records
  <2>2. queue' \in Seq(Item) /\ Len(queue') <= MaxTurns
    BY <1>9, <2>1, QueueMoves DEF Speak, Types
  <2> QED BY <1>9, <2>2 DEF Speak, Types, InOrder
<1>10. ASSUME NEW s \in Sessions, Close(s)
       PROVE  Types'
  <2>1. [kind |-> "close", of |-> s, agent |-> Unnamed] \in Item
    BY Records
  <2>2. queue' \in Seq(Item) /\ Len(queue') <= MaxTurns
    BY <1>10, <2>1, QueueMoves DEF Close, Types
  <2> QED BY <1>10, <2>2 DEF Close, Types, InOrder
<1>11. ASSUME Writes
       PROVE  Types'
  <2>1. /\ queue' \in Seq(Item) /\ Len(queue') <= MaxTurns
    BY <1>11, QueueRest DEF Writes, Types
  <2>2. PICK s \in Sessions, a \in Agents :
          /\ Head(queue).of = s /\ Head(queue).agent = a /\ world[s].serves[a] \in Names
    BY <1>11, NextTurn DEF Writes
  <2> DEFINE agent == NameNow(s, world[s].serves[a])
  <2>3. owner' = owner \/ owner' = [owner EXCEPT ![<<s, a>>] = agent]
    BY <1>11, <2>2 DEF Writes
  <2>4. agent \in Named
    BY <2>2 DEF NameNow, Types, Maps, Named
  <2> HIDE DEF agent
  <2>5. owner' \in [Conversations -> Named]
    BY <2>3, <2>4 DEF Types
  <2> QED BY <1>11, <2>1, <2>5 DEF Writes, Types, InOrder
<1>12. ASSUME WritesClose
       PROVE  Types'
  <2>1. queue' \in Seq(Item) /\ Len(queue') <= MaxTurns
    BY <1>12, QueueRest DEF WritesClose, Types
  <2>2. moved' \in [Sessions -> Maps]
    BY <1>12 DEF WritesClose, Types, Nothing, Maps, Named
  <2> QED BY <1>12, <2>1, <2>2 DEF WritesClose, Types, InOrder
<1>13. CASE UNCHANGED vars
  BY <1>13 DEF vars, Types, InOrder
<1> QED BY <1>1, <1>2, <1>3, <1>4, <1>5, <1>6, <1>7, <1>8, <1>9, <1>10, <1>11, <1>12, <1>13
   DEF Next, Renaming, Applying, Conversing

\* The name the writer files a turn under is the agent's.
LEMMA FiledRight ==
  ASSUME Types, NamesInv, MovedInv, QueueInv, Writes
  PROVE  \E s \in Sessions, a \in Agents :
           /\ name[a] # Unnamed => owner' = [owner EXCEPT ![<<s, a>>] = name[a]]
           /\ UNCHANGED <<name, refused>>
           /\ name[a] = NameNow(s, world[s].serves[a])
           /\ world[s].serves[a] \in Names /\ Head(queue).of = s
<1>1. PICK s \in Sessions, a \in Agents :
        /\ Head(queue).of = s /\ Head(queue).agent = a /\ Recording(s)
        /\ world[s].serves[a] \in Names
  BY NextTurn DEF Writes
<1>2. NameNow(s, world[s].serves[a]) = name[a]
  BY <1>1 DEF MovedInv, Leads, Writes
<1> DEFINE c == <<s, a>>
<1>3. IF owner[c] \in {Unnamed, name[a]}
        THEN owner' = [owner EXCEPT ![c] = name[a]] /\ UNCHANGED refused
        ELSE refused' = refused \cup {c} /\ UNCHANGED owner
  BY <1>1, <1>2 DEF Writes
<1>4. owner[c] \in {Unnamed, name[a]}
  <2>1. c \in Conversations /\ c[2] = a
    BY DEF Conversations
  <2> QED BY <2>1 DEF NamesInv
<1> QED BY <1>1, <1>2, <1>3, <1>4 DEF Writes

LEMMA NamesStep ==
  ASSUME Types, NamesInv, WorldsInv, MovedInv, QueueInv, [Next]_vars
  PROVE  NamesInv'
<1>1. ASSUME NEW a \in Agents, NEW n \in Names, Create(a, n)
      PROVE  NamesInv'
  <2>1. name' = [name EXCEPT ![a] = n] /\ name[a] = Unnamed /\ Free(n) /\ UNCHANGED <<owner, refused>>
    BY <1>1 DEF Create
  <2>2. \A x \in Agents : name'[x] = IF x = a THEN n ELSE name[x]
    BY <2>1 DEF Types
  <2>3. \A x, y \in Agents : name'[x] = name'[y] /\ name'[x] # Unnamed => x = y
    BY <2>1, <2>2 DEF NamesInv, Free
  <2>4. ASSUME NEW c \in Conversations, owner[c] # Unnamed
        PROVE  owner[c] = name'[c[2]]
    <3>1. owner[c] = name[c[2]] /\ c[2] \in Agents
      BY <2>4 DEF NamesInv, Conversations
    <3> QED BY <2>1, <2>2, <2>4, <3>1
  <2> QED BY <2>1, <2>3, <2>4 DEF NamesInv
<1>2. ASSUME NEW a \in Agents, NEW n \in Names, RenameCommits(a, n)
      PROVE  NamesInv'
  <2>1. /\ name' = [name EXCEPT ![a] = n] /\ name[a] # Unnamed /\ Free(n) /\ UNCHANGED refused
        /\ owner' = [c \in Conversations |-> IF owner[c] = name[a] THEN n ELSE owner[c]]
    BY <1>2 DEF RenameCommits
  <2>2. \A x \in Agents : name'[x] = IF x = a THEN n ELSE name[x]
    BY <2>1 DEF Types
  <2>3. \A x, y \in Agents : name'[x] = name'[y] /\ name'[x] # Unnamed => x = y
    BY <2>1, <2>2 DEF NamesInv, Free
  <2>4. ASSUME NEW c \in Conversations, owner'[c] # Unnamed
        PROVE  owner'[c] = name'[c[2]]
    <3>1. c[2] \in Agents /\ (owner[c] # Unnamed => owner[c] = name[c[2]])
      BY DEF NamesInv, Conversations
    <3>2. CASE owner[c] = name[a]
      <4>1. c[2] = a
        BY <2>1, <3>1, <3>2 DEF NamesInv
      <4> QED BY <2>1, <2>2, <3>2, <4>1
    <3>3. CASE owner[c] # name[a]
      <4>1. owner'[c] = owner[c]
        BY <2>1, <3>3
      <4> QED BY <2>2, <2>4, <3>1, <3>3, <4>1
    <3> QED BY <3>2, <3>3
  <2> QED BY <2>1, <2>3, <2>4 DEF NamesInv
<1>3. CASE Writes
  <2>1. PICK s \in Sessions, a \in Agents :
          /\ name[a] # Unnamed => owner' = [owner EXCEPT ![<<s, a>>] = name[a]]
          /\ UNCHANGED <<name, refused>>
          /\ name[a] = NameNow(s, world[s].serves[a]) /\ world[s].serves[a] \in Names
    BY <1>3, FiledRight
  <2>2. name[a] # Unnamed
    BY <2>1 DEF NameNow
  <2>3. ASSUME NEW c \in Conversations, owner'[c] # Unnamed
        PROVE  owner'[c] = name[c[2]]
    <3>1. owner'[c] = IF c = <<s, a>> THEN name[a] ELSE owner[c]
      BY <2>1, <2>2 DEF Types
    <3> QED BY <2>3, <3>1 DEF NamesInv
  <2> QED BY <2>1, <2>3 DEF NamesInv
<1>4. CASE UNCHANGED <<name, owner, refused>>
  BY <1>4 DEF NamesInv
<1>5. ASSUME \/ TellWorlds \/ TellWriter \/ ReadStored \/ Install \/ Discarded \/ WritesClose
             \/ UNCHANGED vars
             \/ \E s \in Sessions : Bind(s) \/ Register(s) \/ Close(s)
             \/ \E s \in Sessions, a \in Agents : Speak(s, a)
      PROVE  NamesInv'
  <2>1. UNCHANGED <<name, owner, refused>>
    BY <1>5 DEF TellWorlds, TellWriter, ReadStored, Install, Discarded, WritesClose, vars, Bind,
       Register, Close, Speak
  <2> QED BY <1>4, <2>1
<1> QED BY <1>1, <1>2, <1>3, <1>5 DEF Next, Renaming, Applying, Conversing

LEMMA SameFollows ==
  ASSUME NEW w, Follows(w), UNCHANGED <<name, renaming, ledger>>
  PROVE  Follows(w)'
BY DEF Follows, Heard, InOrder

\* A rename, from its commit to its last announcement, and the creation of an agent.
LEMMA FollowsRenamed ==
  ASSUME Types, NamesInv, NEW w, Follows(w), Renaming
  PROVE  Follows(w)'
<1>0. w \in World /\ w.known \in Nat /\ w.known <= Len(ledger) /\ ledger \in Moves /\ Len(ledger) \in Nat
  BY DEF Follows, World, Types, Moves
<1>1. ASSUME NEW b \in Agents, NEW n \in Names, Create(b, n)
      PROVE  Follows(w)'
  <2>1. UNCHANGED <<ledger, renaming>> /\ name[b] = Unnamed
        /\ \A a \in Agents : a # b => name'[a] = name[a]
    BY <1>1 DEF Create, Types
  <2> SUFFICES ASSUME NEW a \in Agents, w.serves[a] # Unnamed
               PROVE  /\ name'[a] # Unnamed
                      /\ (~InOrder => name[a] # renaming[1])'
                      /\ Told(RenamesFor(ledger', w.known), w.serves[a]) = Heard(a)'
    BY <1>0, <2>1 DEF Follows
  <2>2. a # b
    BY <2>1 DEF Follows
  <2>3. name'[a] = name[a]
    BY <2>1, <2>2
  <2> QED BY <2>1, <2>3 DEF Follows, Heard, InOrder
<1>2. ASSUME NEW b \in Agents, NEW n \in Names, RenameCommits(b, n)
      PROVE  Follows(w)'
  <2>1. /\ InOrder /\ UNCHANGED ledger /\ renaming' = <<name[b], n, "worlds">>
        /\ name[b] # Unnamed /\ Free(n)
        /\ \A a \in Agents : name'[a] = IF a = b THEN n ELSE name[a]
    BY <1>2 DEF RenameCommits, Types
  <2>2. renaming'[1] = name[b] /\ renaming'[2] = n /\ renaming'[3] = "worlds" /\ ~InOrder'
    BY <2>1, Triples DEF InOrder
  <2> SUFFICES ASSUME NEW a \in Agents, w.serves[a] # Unnamed
               PROVE  /\ name'[a] # Unnamed
                      /\ name'[a] # renaming'[1]
                      /\ Told(RenamesFor(ledger', w.known), w.serves[a]) = Heard(a)'
    BY <1>0, <2>1 DEF Follows
  <2>3. name[a] # Unnamed /\ Told(RenamesFor(ledger, w.known), w.serves[a]) = name[a]
    BY <2>1 DEF Follows, Heard
  <2>4. name'[a] # Unnamed /\ name'[a] # name[b]
    BY <2>1, <2>3 DEF NamesInv, Free
  <2>5. Heard(a)' = name[a]
    BY <2>1, <2>2 DEF Heard, Free
  <2> QED BY <2>1, <2>2, <2>3, <2>4, <2>5
<1>3. ASSUME TellWorlds
      PROVE  Follows(w)'
  <2>1. ~InOrder /\ renaming[1] \in Names /\ renaming[2] \in Names /\ renaming[3] = "worlds"
        /\ renaming = <<renaming[1], renaming[2], "worlds">>
    BY <1>3, OneRename DEF TellWorlds
  <2> DEFINE old == renaming[1]
             new == renaming[2]
             map == RenamesFor(ledger, w.known)
  <2>2. renaming' = <<old, new, "writer">> /\ ledger' = Append(ledger, <<old, new>>)
        /\ UNCHANGED name
    BY <1>3, <2>1 DEF TellWorlds
  <2>3. ~InOrder' /\ renaming'[1] = old /\ renaming'[3] = "writer"
    BY <2>2, Triples DEF InOrder
  <2>4. Len(ledger') = Len(ledger) + 1 /\ RenamesFor(ledger', w.known) = Compose(map, old, new)
    BY <1>0, <2>1, <2>2, RenamesForMore
  <2> SUFFICES ASSUME NEW a \in Agents, w.serves[a] # Unnamed
               PROVE  /\ name'[a] # Unnamed /\ name'[a] # renaming'[1]
                      /\ Told(RenamesFor(ledger', w.known), w.serves[a]) = Heard(a)'
    BY <1>0, <2>4 DEF Follows
  <2>5. name[a] # Unnamed /\ name[a] # old
        /\ Told(map, w.serves[a]) = IF name[a] = new THEN old ELSE name[a]
    BY <2>1 DEF Follows, Heard
  <2>6. w.serves[a] \in Names /\ map \in Maps
    BY <1>0, RenamesForTyped DEF World, Named
  <2>7. Heard(a)' = name[a]
    BY <2>2, <2>3 DEF Heard
  <2> HIDE DEF map, old, new
  <2>8. old \in Names /\ new \in Names
    BY <2>1 DEF old, new
  <2>9. Told(Compose(map, old, new), w.serves[a]) =
          IF Told(map, w.serves[a]) = old THEN new ELSE Told(map, w.serves[a])
    BY <2>6, <2>8, ComposeTold
  <2> QED BY <2>2, <2>3, <2>4, <2>5, <2>7, <2>9
<1>4. ASSUME TellWriter
      PROVE  Follows(w)'
  <2>1. ~InOrder /\ renaming[3] = "writer" /\ renaming' = <<>> /\ UNCHANGED <<name, ledger>>
    BY <1>4 DEF TellWriter
  <2>2. InOrder'
    BY <2>1 DEF InOrder
  <2>3. \A a \in Agents : Heard(a) = name[a] /\ Heard(a)' = name[a]
    BY <2>1, <2>2 DEF Heard
  <2> QED BY <1>0, <2>1, <2>2, <2>3 DEF Follows
<1> QED BY <1>1, <1>2, <1>3, <1>4 DEF Renaming

LEMMA WorldsStep ==
  ASSUME Types, NamesInv, WorldsInv, [Next]_vars
  PROVE  WorldsInv'
<1>1. ASSUME Renaming
      PROVE  WorldsInv'
  <2>1. UNCHANGED <<current, candidate, world>>
    BY <1>1 DEF Renaming, Create, RenameCommits, TellWorlds, TellWriter
  <2>2. ASSUME NEW w, Follows(w)
        PROVE  Follows(w)'
    BY <1>1, <2>2, FollowsRenamed
  <2> QED BY <2>1, <2>2 DEF WorldsInv
<1>2. ASSUME UNCHANGED <<name, renaming, ledger>>,
             current' = current \/ (candidate # <<>> /\ current' = candidate[1]),
             candidate' \in {candidate, <<>>},
             \A s \in Sessions : world'[s] \in {world[s], current}
      PROVE  WorldsInv'
  <2>1. ASSUME NEW w, Follows(w)
        PROVE  Follows(w)'
    BY <1>2, <2>1, SameFollows
  <2>2. Follows(current)'
    <3>1. PICK w : w = current' /\ Follows(w)
      BY <1>2 DEF WorldsInv
    <3>2. Follows(w)'
      BY <2>1, <3>1
    <3> QED BY <3>1, <3>2 DEF Follows
  <2>3. ASSUME candidate' # <<>>
        PROVE  Follows(candidate[1])'
    <3>1. candidate' = candidate /\ Follows(candidate[1])
      BY <1>2, <2>3 DEF WorldsInv
    <3>2. PICK w : w = candidate[1] /\ Follows(w)
      BY <3>1
    <3>3. Follows(w)'
      BY <2>1, <3>2
    <3> QED BY <3>1, <3>2, <3>3 DEF Follows
  <2>4. ASSUME NEW s \in Sessions
        PROVE  Follows(world[s])'
    <3>1. PICK w : w = world'[s] /\ Follows(w)
      BY <1>2 DEF WorldsInv
    <3>2. Follows(w)'
      BY <2>1, <3>1
    <3> QED BY <3>1, <3>2 DEF Follows
  <2> QED BY <2>2, <2>3, <2>4 DEF WorldsInv
<1>3. ASSUME ReadStored
      PROVE  WorldsInv'
  <2> DEFINE w == [serves |-> name, known |-> Len(ledger)]
  <2>1. w \in World /\ w.serves = name /\ w.known = Len(ledger) /\ Len(ledger) \in Nat
    BY DEF World, Types, Moves
  <2>2. RenamesFor(ledger, Len(ledger)) = Nothing
    BY RenamesForNone DEF Types
  <2>3. InOrder /\ UNCHANGED <<name, renaming, ledger, current, world>> /\ candidate' = <<w>>
    BY <1>3 DEF ReadStored
  <2> HIDE DEF w
  <2>4. ASSUME NEW a \in Agents, name[a] # Unnamed
        PROVE  Told(Nothing, name[a]) = Heard(a)
    <3>1. name[a] \in Names
      BY <2>4 DEF Types, Named
    <3> QED BY <2>3, <3>1 DEF Told, Nothing, Heard
  <2>5. Follows(w)
    BY <2>1, <2>2, <2>3, <2>4 DEF Follows
  <2>6. ASSUME NEW v, Follows(v)
        PROVE  Follows(v)'
    BY <2>3, <2>6, SameFollows
  <2>7. candidate'[1] = w
    BY <2>3
  <2> QED BY <2>3, <2>5, <2>6, <2>7 DEF WorldsInv
<1>4. ASSUME \/ Install \/ Discarded \/ Writes \/ WritesClose \/ UNCHANGED vars
             \/ \E s \in Sessions : Bind(s) \/ Register(s) \/ Close(s)
             \/ \E s \in Sessions, a \in Agents : Speak(s, a)
      PROVE  WorldsInv'
  <2>1. UNCHANGED <<name, renaming, ledger>> /\ candidate' \in {candidate, <<>>}
        /\ (current' = current \/ (candidate # <<>> /\ current' = candidate[1]))
    BY <1>4 DEF Install, Discarded, Writes, WritesClose, vars, Bind, Register, Close, Speak
  <2>2. UNCHANGED world \/ \E s \in Sessions : world' = [world EXCEPT ![s] = current]
    BY <1>4 DEF Install, Discarded, Writes, WritesClose, vars, Bind, Register, Close, Speak
  <2>3. \A s \in Sessions : world'[s] \in {world[s], current}
    BY <2>2 DEF Types
  <2> QED BY <1>2, <2>1, <2>3
<1> QED BY <1>1, <1>3, <1>4 DEF Next, Applying, Conversing

LEMMA MovedStep ==
  ASSUME Types, NamesInv, WorldsInv, MovedInv, QueueInv, [Next]_vars
  PROVE  MovedInv'
<1> SUFFICES ASSUME NEW s \in Sessions, Recording(s)', NEW a \in Agents,
                    world'[s].serves[a] # Unnamed
             PROVE  Leads(s, a)'
  BY DEF MovedInv
<1>0. ASSUME Recording(s), world'[s] = world[s]
      PROVE  /\ Leads(s, a) /\ name[a] # Unnamed /\ (~InOrder => name[a] # renaming[1])
             /\ world[s].serves[a] \in Names /\ moved[s] \in Maps
  BY <1>0 DEF MovedInv, WorldsInv, Follows, Types, World, Named
<1>1. ASSUME NEW b \in Agents, NEW n \in Names, Create(b, n)
      PROVE  Leads(s, a)'
  <2>1. Recording(s) /\ UNCHANGED <<world, moved, renaming>> /\ name[b] = Unnamed
        /\ \A x \in Agents : x # b => name'[x] = name[x]
    BY <1>1 DEF Create, Types, Recording
  <2>2. name'[a] = name[a]
    BY <1>0, <2>1
  <2> QED BY <1>0, <2>1, <2>2 DEF Leads, NameNow, InOrder
<1>2. ASSUME NEW b \in Agents, NEW n \in Names, RenameCommits(b, n)
      PROVE  Leads(s, a)'
  <2>1. /\ InOrder /\ Recording(s) /\ UNCHANGED <<world, moved>>
        /\ renaming' = <<name[b], n, "worlds">>
        /\ \A x \in Agents : name'[x] = IF x = b THEN n ELSE name[x]
    BY <1>2 DEF RenameCommits, Types, Recording
  <2>2. renaming'[1] = name[b] /\ renaming'[2] = n /\ ~InOrder'
    BY <2>1, Triples DEF InOrder
  <2>3. NameNow(s, world[s].serves[a]) = name[a]
    BY <1>0, <2>1 DEF Leads
  <2> QED BY <2>1, <2>2, <2>3 DEF Leads, NameNow
<1>3. ASSUME TellWorlds
      PROVE  Leads(s, a)'
  <2>1. ~InOrder /\ renaming[1] \in Names /\ renaming[2] \in Names
        /\ renaming = <<renaming[1], renaming[2], "worlds">>
    BY <1>3, OneRename DEF TellWorlds
  <2>2. renaming' = <<renaming[1], renaming[2], "writer">>
    BY <1>3, <2>1 DEF TellWorlds
  <2>3. renaming'[1] = renaming[1] /\ renaming'[2] = renaming[2] /\ ~InOrder'
    BY <2>2, Triples DEF InOrder
  <2>4. Recording(s) /\ UNCHANGED <<world, moved, name>>
    BY <1>3 DEF TellWorlds, Recording
  <2> QED BY <1>0, <2>1, <2>3, <2>4 DEF Leads, NameNow
<1>4. ASSUME TellWriter
      PROVE  Leads(s, a)'
  <2> DEFINE old == renaming[1]
             new == renaming[2]
             x == world[s].serves[a]
             map == moved[s]
  <2>1. ~InOrder /\ old \in Names /\ new \in Names
    BY <1>4, OneRename DEF TellWriter
  <2>2. Recording(s) /\ UNCHANGED <<world, name>> /\ renaming' = <<>>
    BY <1>4 DEF TellWriter, Recording
  <2>3. moved'[s] = Compose(map, old, new)
    BY <1>4, <2>2 DEF TellWriter
  <2>4. /\ name[a] # old /\ x \in Names /\ map \in Maps
        /\ Told(map, x) = name[a] \/ (name[a] = new /\ Told(map, x) = old)
    BY <1>0, <2>1, <2>2 DEF Leads, NameNow, Told
  <2>5. NameNow(s, x)' = Told(moved'[s], x)
    BY <2>2 DEF NameNow, Told
  <2> HIDE DEF old, new, x, map
  <2>6. Told(Compose(map, old, new), x) = IF Told(map, x) = old THEN new ELSE Told(map, x)
    BY <2>1, <2>4, ComposeTold
  <2>7. NameNow(s, x)' = name[a]
    BY <2>3, <2>4, <2>5, <2>6
  <2> QED BY <2>2, <2>7 DEF Leads, x, NameNow
<1>5. ASSUME NEW t \in Sessions, Bind(t)
      PROVE  Leads(s, a)'
  <2>1. s # t
    BY <1>5 DEF Bind, Recording, QueueInv, Types
  <2>2. Recording(s) /\ world'[s] = world[s] /\ UNCHANGED <<moved, name, renaming>>
    BY <1>5, <2>1 DEF Bind, Recording, Types
  <2> QED BY <1>0, <2>2 DEF Leads, NameNow, InOrder
<1>6. ASSUME NEW t \in Sessions, Register(t)
      PROVE  Leads(s, a)'
  <2>1. UNCHANGED <<world, name, renaming, ledger, queue>>
        /\ moved' = [moved EXCEPT ![t] = RenamesFor(ledger, world[t].known)]
        /\ session' = [session EXCEPT ![t] = "recording"]
    BY <1>6 DEF Register
  <2>2. CASE s # t
    <3>1. Recording(s) /\ moved'[s] = moved[s]
      BY <2>1, <2>2 DEF Recording, Types
    <3> QED BY <1>0, <2>1, <3>1 DEF Leads, NameNow, InOrder
  <2>3. CASE s = t
    <3>1. Told(moved'[s], world[s].serves[a]) = Heard(a)
      BY <2>1, <2>3 DEF WorldsInv, Follows, Types
    <3>2. NameNow(s, world[s].serves[a])' = Heard(a)
      BY <2>1, <3>1 DEF NameNow, Told
    <3> QED BY <2>1, <3>2 DEF Leads, Heard, InOrder
  <2> QED BY <2>2, <2>3
<1>7. ASSUME NEW t \in Sessions, Close(t) \/ \E b \in Agents : Speak(t, b)
      PROVE  Leads(s, a)'
  <2>1. PICK e \in Item : queue' = Append(queue, e) /\ e.of = t
    <3>1. \A k \in {"turn", "close"}, b \in Agents \cup {Unnamed} :
            [kind |-> k, of |-> t, agent |-> b] \in Item
      BY DEF Item
    <3>2. \E k \in {"turn", "close"}, b \in Agents \cup {Unnamed} :
            queue' = Append(queue, [kind |-> k, of |-> t, agent |-> b])
      BY <1>7 DEF Close, Speak
    <3>3. PICK k \in {"turn", "close"}, b \in Agents \cup {Unnamed} :
            queue' = Append(queue, [kind |-> k, of |-> t, agent |-> b])
      BY <3>2
    <3> DEFINE e == [kind |-> k, of |-> t, agent |-> b]
    <3>4. e \in Item /\ e.of = t
      BY <3>1
    <3> QED BY <3>3, <3>4
  <2>2. session[t] = "recording" /\ UNCHANGED <<world, moved, name, renaming>>
        /\ (UNCHANGED session \/ session' = [session EXCEPT ![t] = "closed"])
    BY <1>7 DEF Close, Speak
  <2>3. Recording(s)
    <3>1. /\ DOMAIN queue' = DOMAIN queue \cup {Len(queue) + 1}
          /\ queue'[Len(queue) + 1] = e /\ \A i \in DOMAIN queue : queue'[i] = queue[i]
      BY <2>1, QueueMoves DEF Types
    <3>2. session'[s] = "recording" => session[s] = "recording"
      BY <2>2 DEF Types
    <3> QED BY <2>1, <2>2, <3>1, <3>2 DEF Recording
  <2> QED BY <1>0, <2>2, <2>3 DEF Leads, NameNow, InOrder
<1>8. ASSUME Writes
      PROVE  Leads(s, a)'
  <2>1. UNCHANGED <<world, moved, name, renaming, session>> /\ queue' = Tail(queue) /\ queue # <<>>
    BY <1>8 DEF Writes
  <2>2. Recording(s)
    BY <2>1, QueueRest DEF Recording, Types
  <2> QED BY <1>0, <2>1, <2>2 DEF Leads, NameNow, InOrder
<1>9. ASSUME WritesClose
      PROVE  Leads(s, a)'
  <2> DEFINE t == Head(queue).of
  <2>1. UNCHANGED <<world, name, renaming, session>> /\ queue' = Tail(queue) /\ queue # <<>>
        /\ Head(queue).kind = "close" /\ moved' = [moved EXCEPT ![t] = Nothing]
    BY <1>9 DEF WritesClose
  <2>2. /\ Head(queue) = queue[1] /\ 1 \in DOMAIN queue
        /\ \A i \in DOMAIN Tail(queue) :
             i + 1 \in DOMAIN queue /\ 1 < i + 1 /\ Tail(queue)[i] = queue[i + 1]
    BY <2>1, QueueRest DEF Types
  <2>3. session[t] = "closed" /\ \A i \in DOMAIN Tail(queue) : Tail(queue)[i].of # t
    BY <2>1, <2>2 DEF QueueInv
  <2>4. Recording(s)
    BY <2>1, <2>2 DEF Recording
  <2>5. s # t
    BY <2>1, <2>3 DEF Recording
  <2>6. moved'[s] = moved[s]
    BY <2>1, <2>5 DEF Types
  <2> QED BY <1>0, <2>1, <2>4, <2>6 DEF Leads, NameNow, InOrder
<1>10. CASE ReadStored \/ Install \/ Discarded \/ UNCHANGED vars
  <2>1. UNCHANGED <<world, moved, name, renaming, session, queue>>
    BY <1>10 DEF ReadStored, Install, Discarded, vars
  <2>2. Recording(s)
    BY <2>1 DEF Recording
  <2> QED BY <1>0, <2>1, <2>2 DEF Leads, NameNow, InOrder
<1> QED BY <1>1, <1>2, <1>3, <1>4, <1>5, <1>6, <1>7, <1>8, <1>9, <1>10
   DEF Next, Renaming, Applying, Conversing

LEMMA QueueStep ==
  ASSUME Types, NamesInv, WorldsInv, QueueInv, [Next]_vars
  PROVE  QueueInv'
<1>1. ASSUME queue' = queue,
             \A s \in Sessions : session[s] \in {"recording", "closed"} =>
               session'[s] = session[s] /\ world'[s] = world[s]
      PROVE  QueueInv'
  <2>1. \A i \in DOMAIN queue : queue[i].of \in Sessions
    BY QueueItems
  <2> QED BY <1>1, <2>1 DEF QueueInv
<1>2. ASSUME NEW s \in Sessions, Bind(s) \/ Register(s)
      PROVE  QueueInv'
  BY <1>1, <1>2 DEF Bind, Register, Types
<1>3. ASSUME \/ Renaming \/ Applying \/ UNCHANGED vars
      PROVE  QueueInv'
  <2>1. UNCHANGED <<queue, session, world>>
    BY <1>3 DEF Renaming, Create, RenameCommits, TellWorlds, TellWriter, Applying, ReadStored,
       Install, Discarded, vars
  <2> QED BY <1>1, <2>1
<1>4. ASSUME NEW s \in Sessions, NEW e \in Item, queue' = Append(queue, e), e.of = s,
             session[s] = "recording", UNCHANGED world,
             \/ /\ e.kind = "turn" /\ e.agent \in Agents /\ world[s].serves[e.agent] # Unnamed
                /\ UNCHANGED session
             \/ e.kind = "close" /\ session' = [session EXCEPT ![s] = "closed"]
      PROVE  QueueInv'
  <2> DEFINE n == Len(queue)
  <2>1. /\ DOMAIN queue' = DOMAIN queue \cup {n + 1} /\ DOMAIN queue = 1 .. n /\ n \in Nat
        /\ queue'[n + 1] = e /\ \A i \in DOMAIN queue : queue'[i] = queue[i]
    BY <1>4, QueueMoves DEF Types
  <2> HIDE DEF n
  <2>2. \A t \in Sessions :
          /\ session'[t] = session[t] \/ (t = s /\ session'[t] = "closed")
          /\ session[t] = "closed" => session'[t] = "closed"
    BY <1>4 DEF Types
  <2>3. \A i \in DOMAIN queue : queue[i].of \in Sessions
    BY QueueItems
  <2>4. ASSUME NEW i \in DOMAIN queue'
        PROVE  /\ session'[queue'[i].of] \in {"recording", "closed"}
               /\ queue'[i].kind = "close" => session'[queue'[i].of] = "closed"
               /\ queue'[i].kind = "turn" =>
                    /\ queue'[i].agent \in Agents
                    /\ world'[queue'[i].of].serves[queue'[i].agent] # Unnamed
    <3>1. CASE i \in DOMAIN queue
      <4>1. queue'[i] = queue[i] /\ queue[i].of \in Sessions
        BY <2>1, <2>3, <3>1
      <4> QED BY <1>4, <2>2, <3>1, <4>1 DEF QueueInv
    <3>2. CASE i = n + 1
      <4>1. queue'[i] = e
        BY <2>1, <3>2
      <4>2. session'[s] \in {"recording", "closed"} /\ (e.kind = "close" => session'[s] = "closed")
        BY <1>4, <2>2 DEF Types
      <4> QED BY <1>4, <4>1, <4>2
    <3> QED BY <2>1, <3>1, <3>2
  <2>5. ASSUME NEW i \in DOMAIN queue', NEW j \in DOMAIN queue', i < j, queue'[i].kind = "close"
        PROVE  queue'[j].of # queue'[i].of
    <3>1. i \in DOMAIN queue /\ queue'[i] = queue[i]
      BY <2>1, <2>5
    <3>2. CASE j \in DOMAIN queue
      <4>1. queue'[j] = queue[j]
        BY <2>1, <3>2
      <4> QED BY <2>5, <3>1, <3>2, <4>1 DEF QueueInv
    <3>3. CASE j = n + 1
      <4>1. session[queue[i].of] = "closed"
        BY <2>5, <3>1 DEF QueueInv
      <4>2. queue'[j] = e
        BY <2>1, <3>3
      <4> QED BY <1>4, <3>1, <4>1, <4>2
    <3> QED BY <2>1, <3>2, <3>3
  <2> QED BY <2>4, <2>5 DEF QueueInv
<1>5. ASSUME NEW s \in Sessions, NEW a \in Agents, Speak(s, a)
      PROVE  QueueInv'
  <2> DEFINE e == [kind |-> "turn", of |-> s, agent |-> a]
  <2>1. e \in Item /\ e.of = s /\ e.kind = "turn" /\ e.agent = a
    BY DEF Item
  <2>2. queue' = Append(queue, e) /\ session[s] = "recording" /\ world[s].serves[a] # Unnamed
        /\ UNCHANGED <<session, world>>
    BY <1>5 DEF Speak
  <2> HIDE DEF e
  <2> QED BY <1>4, <2>1, <2>2
<1>6. ASSUME NEW s \in Sessions, Close(s)
      PROVE  QueueInv'
  <2> DEFINE e == [kind |-> "close", of |-> s, agent |-> Unnamed]
  <2>1. e \in Item /\ e.of = s /\ e.kind = "close"
    BY DEF Item
  <2>2. queue' = Append(queue, e) /\ session[s] = "recording" /\ UNCHANGED world
        /\ session' = [session EXCEPT ![s] = "closed"]
    BY <1>6 DEF Close
  <2> HIDE DEF e
  <2> QED BY <1>4, <2>1, <2>2
<1>7. ASSUME Writes \/ WritesClose
      PROVE  QueueInv'
  <2>1. queue' = Tail(queue) /\ queue # <<>> /\ UNCHANGED <<session, world>>
    BY <1>7 DEF Writes, WritesClose
  <2>2. \A i \in DOMAIN queue' : i + 1 \in DOMAIN queue /\ queue'[i] = queue[i + 1]
    BY <2>1, QueueRest DEF Types
  <2>3. queue' \in Seq(Item)
    BY <2>1, QueueRest DEF Types
  <2>4. \A i, j \in DOMAIN queue' : i < j => i + 1 < j + 1
    BY <2>3
  <2> QED BY <2>1, <2>2, <2>4 DEF QueueInv
<1> QED BY <1>2, <1>3, <1>5, <1>6, <1>7 DEF Next, Conversing

-----------------------------------------------------------------------------
(* The theorems.                                                           *)

LEMMA Started == Init => IInv
<1> SUFFICES ASSUME Init
             PROVE  IInv
  OBVIOUS
<1>1. PICK b \in Agents, n \in Names : name = [a \in Agents |-> IF a = b THEN n ELSE Unnamed]
  BY DEF Init
<1>2. name \in [Agents -> Named]
  BY <1>1 DEF Named
<1>3. ledger \in Moves /\ Len(ledger) = 0 /\ queue \in Seq(Item) /\ Len(queue) = 0
      /\ DOMAIN queue = {}
  BY EmptySeq DEF Init, Moves
<1>4. current \in World /\ current.serves = name /\ current.known = 0
  BY <1>2 DEF Init, World
<1>5. Types
  <2>1. current = [serves |-> name, known |-> 0] /\ Nothing \in Maps
    BY DEF Init, Nothing, Maps, Named
  <2>2. /\ owner = [c \in Conversations |-> Unnamed] /\ renaming = <<>> /\ candidate = <<>>
        /\ session = [s \in Sessions |-> "away"] /\ world = [s \in Sessions |-> current]
        /\ moved = [s \in Sessions |-> Nothing]
    BY DEF Init
  <2>3. owner \in [Conversations -> Named]
    BY <2>2 DEF Named
  <2>4. /\ session \in [Sessions -> {"away", "bound", "recording", "closed"}]
        /\ world \in [Sessions -> World] /\ moved \in [Sessions -> Maps]
    BY <1>4, <2>1, <2>2
  <2> QED BY <1>2, <1>3, <1>4, <2>2, <2>3, <2>4 DEF Types, InOrder
<1>6. NamesInv
  BY <1>1 DEF NamesInv, Init
<1>7. RenamesFor(ledger, 0) = Nothing
  BY <1>3, RenamesForNone
<1>8. Follows(current)
  <2>1. ASSUME NEW a \in Agents, name[a] # Unnamed
        PROVE  Told(Nothing, name[a]) = Heard(a)
    <3>1. name[a] \in Names
      BY <1>2, <2>1 DEF Named
    <3> QED BY <3>1 DEF Told, Nothing, Heard, InOrder, Init
  <2> QED BY <1>3, <1>4, <1>7, <2>1 DEF Follows, Init, InOrder
<1>9. WorldsInv
  BY <1>8 DEF WorldsInv, Init
<1>10. MovedInv /\ QueueInv
  BY <1>3 DEF MovedInv, QueueInv, Recording, Init
<1> QED BY <1>5, <1>6, <1>9, <1>10 DEF IInv

\* Whatever order a session, the worlds and the writer hear of a rename in, the names a
\* world speaks lead to those its agents have, and so do a session's translations while
\* anything of it is to be written (`renames_for`, `translate`, `_naming`).
THEOREM RenamesFollowed == Spec => []IInv
<1>1. IInv /\ [Next]_vars => IInv'
  BY TypesStep, NamesStep, WorldsStep, MovedStep, QueueStep DEF IInv
<1> QED BY Started, <1>1, PTL DEF Spec

\* The variables hold values of their types: the ledger and the queue are within their
\* bounds, and no rename is announced twice.
THEOREM TypeCorrect == Spec => []TypeOK
<1>1. IInv => TypeOK
  <2> SUFFICES ASSUME IInv
               PROVE  TypeOK
    OBVIOUS
  <2>1. \A i \in DOMAIN queue : queue[i] \in Item
    BY QueueItems DEF IInv
  <2> QED BY <2>1 DEF IInv, Types, NamesInv, TypeOK, Moves, Phases, Maps, Item
<1> QED BY <1>1, RenamesFollowed, PTL

-----------------------------------------------------------------------------
(* The refinement.                                                         *)

\* A step is one of `Naming`, or none of its names, of what is recorded under them, and
\* of what is refused.
LEMMA NamingKept ==
  ASSUME IInv, [Next]_vars
  PROVE  [N!Next]_<<name, owner, refused>>
<1>1. ASSUME NEW a \in Agents, NEW n \in Names, Create(a, n)
      PROVE  N!Create(a, n)
  BY <1>1 DEF Create, Free, N!Create, N!Free
<1>2. ASSUME NEW a \in Agents, NEW n \in Names, RenameCommits(a, n)
      PROVE  N!Rename(a, n)
  <2>1. /\ name' = [name EXCEPT ![a] = n] /\ name[a] # Unnamed /\ Free(n) /\ UNCHANGED refused
        /\ owner' = [c \in Conversations |-> IF owner[c] = name[a] THEN n ELSE owner[c]]
        /\ \A c \in Conversations : owner[c] # n
    BY <1>2 DEF RenameCommits
  <2>2. ASSUME NEW c \in Conversations
        PROVE  owner[c] = name[a] <=> (c[2] = a /\ owner[c] # Unnamed)
    <3>1. c[2] \in Agents /\ (owner[c] # Unnamed => owner[c] = name[c[2]])
      BY DEF IInv, NamesInv, Conversations
    <3>2. name[c[2]] = name[a] => c[2] = a
      BY <2>1, <3>1 DEF IInv, NamesInv
    <3> QED BY <2>1, <3>1, <3>2
  <2>3. owner' = [c \in Sessions \X Agents |->
                    IF c[2] = a /\ owner[c] # Unnamed THEN n ELSE owner[c]]
    BY <2>1, <2>2 DEF Conversations
  <2> QED BY <2>1, <2>3 DEF Free, Conversations, N!Rename, N!Free
<1>3. ASSUME Writes
      PROVE  \E s \in Sessions, a \in Agents : N!File(s, a)
  <2>1. PICK s \in Sessions, a \in Agents :
          /\ name[a] # Unnamed => owner' = [owner EXCEPT ![<<s, a>>] = name[a]]
          /\ UNCHANGED <<name, refused>>
          /\ name[a] = NameNow(s, world[s].serves[a]) /\ world[s].serves[a] \in Names
    BY <1>3, FiledRight DEF IInv
  <2>2. name[a] # Unnamed
    BY <2>1 DEF NameNow
  <2> QED BY <2>1, <2>2 DEF N!File
<1>4. ASSUME \/ TellWorlds \/ TellWriter \/ Applying \/ WritesClose \/ UNCHANGED vars
             \/ \E s \in Sessions : Bind(s) \/ Register(s) \/ Close(s)
             \/ \E s \in Sessions, a \in Agents : Speak(s, a)
      PROVE  UNCHANGED <<name, owner, refused>>
  BY <1>4 DEF TellWorlds, TellWriter, Applying, ReadStored, Install, Discarded, WritesClose, vars,
     Bind, Register, Close, Speak
<1> QED BY <1>1, <1>2, <1>3, <1>4 DEF Next, Renaming, Conversing, N!Next

\* A rename is one step for the record, however late a session hears of it: every
\* conversation is under the name its agent has (`renamed`, `_compose`), and no
\* turn is refused as another agent's (`landed`).
THEOREM NamingRefined == Spec => ImplementsNaming
<1>1. Init => N!Init
  <2> SUFFICES ASSUME Init
               PROVE  N!Init
    OBVIOUS
  <2>1. Types
    BY Started DEF IInv
  <2> QED BY <2>1 DEF Init, N!Init, Types, Named, Conversations
<1>2. IInv /\ [Next]_vars => [N!Next]_<<name, owner, refused>>
  BY NamingKept
<1> QED BY RenamesFollowed, <1>1, <1>2, PTL DEF Spec, ImplementsNaming, N!Spec
=============================================================================
