--------------------------- MODULE ResponsesProofs ---------------------------
(***************************************************************************)
(* Proofs about the event streams of the Responses layer (ResponsesStream) *)
(* for any chunks, any number of them and any place where a stream breaks. *)
(***************************************************************************)
EXTENDS ResponsesStream, FiniteSetTheorems, FunctionTheorems, SequenceTheorems, WellFoundedInduction,
        TLAPS

-----------------------------------------------------------------------------
(* Numbers and sequences.                                                    *)

LEMMA LeastNumber ==
  ASSUME NEW T \in SUBSET Nat, T # {}
  PROVE  \E n \in T : \A m \in T : n <= m
<1>1. PICK n \in T : \A m \in T : ~(<<m, n>> \in OpToRel(<, Nat))
  BY NatLessThanWellFounded, WFMin
<1>2. \A m \in T : ~(m < n)
  BY <1>1 DEF OpToRel
<1> QED
  BY <1>2

(* Induction over a set of numbers.                                          *)
LEMMA Climb ==
  ASSUME NEW n \in Nat, NEW T, 0 \in T,
         \A k \in 0 .. n - 1 : k \in T => k + 1 \in T
  PROVE  0 .. n \subseteq T
<1> DEFINE Bad == {k \in 0 .. n : k \notin T}
<1> SUFFICES ASSUME Bad # {} PROVE FALSE
  OBVIOUS
<1>1. PICK k \in Bad : \A j \in Bad : k <= j
  <2>1. Bad \in SUBSET Nat
    OBVIOUS
  <2> QED
    BY <2>1, LeastNumber
<1>2. k \in 0 .. n /\ k # 0 /\ k \notin T
  BY <1>1
<1>3. k - 1 \in 0 .. n - 1 /\ k - 1 \in 0 .. n /\ ~(k <= k - 1)
  BY <1>2
<1>4. k - 1 \in T
  BY <1>1, <1>3
<1> QED
  BY <1>2, <1>3, <1>4

(* What FoldLeft folds, one call after the other.                            *)
FoldOf(cs, r, g) == g[0] = r /\ \A k \in 1 .. Len(cs) : g[k] = AddToolCall(g[k - 1], cs[k])

LEMMA FoldOfCalls ==
  ASSUME NEW S, NEW cs \in Seq(S), NEW r
  PROVE  \E g : FoldOf(cs, r, g) /\ FoldLeft(AddToolCall, r, cs) = g[Len(cs)]
<1> DEFINE D == DOMAIN cs
           Unfold(g) == [t \in SUBSET D |-> IF t = {} THEN r
                           ELSE AddToolCall(g[t \ {Max(t)}], cs[Max(t)])]
           Few(m) == {t \in SUBSET D : Cardinality(t) <= m}
           Upto(m, g) == /\ g = [t \in Few(m) |-> g[t]]
                         /\ \A t \in Few(m) : g[t] = IF t = {} THEN r
                              ELSE AddToolCall(g[t \ {Max(t)}], cs[Max(t)])
           T == {m \in Nat : \E g : Upto(m, g)}
<1>0. Len(cs) \in Nat /\ D = 1 .. Len(cs) /\ IsFiniteSet(D)
  BY LenProperties, FS_Interval
<1>1. ASSUME NEW t \in SUBSET D
      PROVE  IsFiniteSet(t) /\ Cardinality(t) \in Nat /\ Cardinality(t) <= Cardinality(D)
  BY <1>0, FS_Subset, FS_CardinalityType
<1>2. ASSUME NEW t \in SUBSET D, t # {}
      PROVE  /\ Max(t) \in t /\ \A k \in t : Max(t) >= k
             /\ t \ {Max(t)} \in SUBSET D
             /\ Cardinality(t \ {Max(t)}) = Cardinality(t) - 1
  <2> DEFINE E == {Len(cs) - k : k \in t}
  <2>1. E \in SUBSET Nat /\ E # {}
    <3>1. \A k \in t : Len(cs) - k \in Nat
      BY <1>0
    <3> QED
      BY <1>2, <3>1
  <2>2. PICK d \in E : \A e \in E : d <= e
    BY <2>1, LeastNumber
  <2>3. PICK x \in t : d = Len(cs) - x
    BY <2>2
  <2>4. \A k \in t : k \in Int
    BY <1>0
  <2>5. \A k \in t : x >= k
    <3> TAKE k \in t
    <3>1. Len(cs) - x <= Len(cs) - k
      BY <2>2, <2>3
    <3> QED
      BY <1>0, <2>4, <3>1
  <2>6. Max(t) \in t /\ \A k \in t : Max(t) >= k
    BY <2>5 DEF Max
  <2> QED
    BY <1>1, <2>6, FS_RemoveElement
<1> HIDE DEF D
<1>3. Cardinality(D) \in Nat /\ Few(Cardinality(D)) = SUBSET D
  BY <1>0, <1>1, FS_CardinalityType
<1>4. 0 \in T
  <2>1. Few(0) = {{}}
    BY <1>1, FS_EmptySet
  <2>2. Upto(0, [t \in Few(0) |-> r])
    <3> HIDE DEF Few
    <3> QED
      BY <2>1
  <2> HIDE DEF Upto
  <2> QED
    BY <2>2
<1>5. ASSUME NEW m \in 0 .. Cardinality(D) - 1, m \in T PROVE m + 1 \in T
  <2>0. m \in Nat /\ m + 1 \in Nat
    BY <1>3
  <2>1. PICK g : Upto(m, g)
    BY <1>5
  <2> DEFINE h == [t \in Few(m + 1) |-> IF t = {} THEN r
                     ELSE AddToolCall(g[t \ {Max(t)}], cs[Max(t)])]
  <2>2. ASSUME NEW t \in Few(m + 1), t # {}
        PROVE  t \ {Max(t)} \in Few(m)
    <3>1. t \in SUBSET D /\ Cardinality(t) \in Nat /\ Cardinality(t) <= m + 1
      BY <1>1
    <3>2. t \ {Max(t)} \in SUBSET D /\ Cardinality(t \ {Max(t)}) = Cardinality(t) - 1
      BY <1>2, <2>2, <3>1
    <3>3. Cardinality(t \ {Max(t)}) <= m
      BY <2>0, <3>1, <3>2
    <3> QED
      BY <3>2, <3>3
  <2>3. \A t \in Few(m) : t \in Few(m + 1)
    BY <1>1, <2>0
  <2> HIDE DEF Few
  <2>4. \A t \in Few(m) : h[t] = g[t]
    BY <2>1, <2>3
  <2>5. \A t \in Few(m + 1) : h[t] = IF t = {} THEN r
                 ELSE AddToolCall(h[t \ {Max(t)}], cs[Max(t)])
    BY <2>2, <2>4
  <2>6. h = [t \in Few(m + 1) |-> h[t]]
    OBVIOUS
  <2> HIDE DEF h
  <2>7. Upto(m + 1, h)
    BY <2>5, <2>6
  <2> HIDE DEF Upto
  <2> QED
    BY <2>0, <2>7
<1>6. Cardinality(D) \in T
  <2> HIDE DEF T
  <2>1. 0 .. Cardinality(D) \subseteq T
    BY <1>3, <1>4, <1>5, Climb
  <2> QED
    BY <1>3, <2>1
<1>7. PICK u : Upto(Cardinality(D), u)
  BY <1>6
<1>8. u = Unfold(u)
  <2>1. u = [t \in SUBSET D |-> u[t]]
    BY <1>3, <1>7
  <2>2. \A t \in SUBSET D : u[t] = Unfold(u)[t]
    BY <1>3, <1>7
  <2>3. Unfold(u) = [t \in SUBSET D |-> Unfold(u)[t]]
    OBVIOUS
  <2> HIDE DEF Unfold
  <2> QED
    BY <2>1, <2>2, <2>3
<1> DEFINE iter == CHOOSE g : g = Unfold(g)
<1>9. iter = Unfold(iter)
  BY <1>8
<1>10. FoldLeft(AddToolCall, r, cs) = iter[D]
  BY DEF FoldLeft, MapThenFoldSet, D
<1> HIDE DEF iter
<1> DEFINE g == [k \in 0 .. Len(cs) |-> iter[1 .. k]]
<1>11. g[0] = r
  <2>1. 1 .. 0 = {}
    OBVIOUS
  <2> QED
    BY <1>0, <1>9, <2>1
<1>12. ASSUME NEW k \in 1 .. Len(cs) PROVE g[k] = AddToolCall(g[k - 1], cs[k])
  <2>1. 1 .. k \in SUBSET D /\ 1 .. k # {} /\ k \in 0 .. Len(cs) /\ k - 1 \in 0 .. Len(cs)
    <3>1. k \in Nat /\ k >= 1 /\ k <= Len(cs)
      BY <1>0
    <3>2. \A j \in 1 .. k : j \in D
      BY <1>0, <3>1
    <3>3. k \in 1 .. k
      BY <3>1
    <3>4. 1 .. k \in SUBSET D
      BY <3>2
    <3>5. k \in 0 .. Len(cs) /\ k - 1 \in 0 .. Len(cs)
      BY <1>0, <3>1
    <3> QED
      BY <3>3, <3>4, <3>5
  <2>2. Max(1 .. k) = k
    <3>1. Max(1 .. k) \in 1 .. k /\ \A j \in 1 .. k : Max(1 .. k) >= j
      BY <1>2, <2>1
    <3> QED
      BY <1>0, <3>1
  <2>3. (1 .. k) \ {k} = 1 .. k - 1
    BY <1>0
  <2>4. iter[1 .. k] = AddToolCall(iter[(1 .. k) \ {k}], cs[k])
    BY <1>9, <2>1, <2>2
  <2> QED
    BY <2>1, <2>3, <2>4
<1>13. g[Len(cs)] = iter[D]
  BY <1>0
<1> HIDE DEF g
<1> QED
  BY <1>10, <1>11, <1>12, <1>13 DEF FoldOf

-----------------------------------------------------------------------------
(* What a client may see: each event moves it as ResponseEvents allows.      *)

Statuses == {"none", "created", "in_progress", "completed", "incomplete"}
Clients == [status : Statuses, items : UNION {[0 .. n - 1 -> Items] : n \in Nat}, output : Seq(Items)]

NextOf(item) ==
  CASE item.stage = "added" -> IF item.kind = "message" THEN {"part"} ELSE {"settled"}
    [] item.stage = "part" -> {"settled"}
    [] item.stage = "settled" -> IF item.kind = "message" THEN {"part_done"} ELSE {"closed"}
    [] item.stage = "part_done" -> {"closed"}
    [] OTHER -> {}

Announces(c, d) ==
  /\ \/ c.status = "none" /\ d.status = "created"
     \/ c.status = "created" /\ d.status = "in_progress"
  /\ d.items = c.items /\ d.output = c.output

Opens(c, d) ==
  /\ c.status = "in_progress" /\ d.status = c.status /\ d.output = c.output
  /\ \E n \in Nat :
       /\ DOMAIN c.items = 0 .. n - 1 /\ DOMAIN d.items = 0 .. n
       /\ \A i \in 0 .. n - 1 : d.items[i] = c.items[i]
       /\ d.items[n].stage = "added" /\ d.items[n].content = <<>>

Grown(c, d, i) ==
  /\ c.items[i].stage = IF c.items[i].kind = "message" THEN "part" ELSE "added"
  /\ IsStrictPrefix(c.items[i].content, d.items[i].content)
  /\ d.items[i] = [c.items[i] EXCEPT !.content = d.items[i].content]

Advanced(c, d, i) ==
  /\ d.items[i].id = c.items[i].id /\ d.items[i].kind = c.items[i].kind
  /\ d.items[i].stage \in NextOf(c.items[i])
  /\ d.items[i].content = c.items[i].content
  /\ d.items[i].stage # "closed" => d.items[i] = [c.items[i] EXCEPT !.stage = d.items[i].stage]

Alters(c, d) ==
  /\ c.status = "in_progress" /\ d.status = c.status /\ d.output = c.output
  /\ DOMAIN d.items = DOMAIN c.items
  /\ \E i \in DOMAIN c.items :
       /\ \A j \in DOMAIN c.items \ {i} : d.items[j] = c.items[j]
       /\ Grown(c, d, i) \/ Advanced(c, d, i)

Ends(c, d) ==
  /\ c.status = "in_progress" /\ d.status \in Finals /\ d.items = c.items
  /\ \A i \in DOMAIN c.items : c.items[i].stage = "closed"
  /\ DOMAIN d.output = {i + 1 : i \in DOMAIN c.items}
  /\ \A i \in DOMAIN c.items : d.output[i + 1] = c.items[i]

Legal(c, e, d) ==
  /\ c \in Clients /\ d \in Clients /\ d = Replay(c, e)
  /\ Announces(c, d) \/ Opens(c, d) \/ Alters(c, d) \/ Ends(c, d)

(* The events es take a client from a to b, one legal move each.             *)
Path(a, es, b, c) ==
  c[0] = a /\ c[Len(es)] = b /\ \A i \in 1 .. Len(es) : Legal(c[i - 1], es[i], c[i])
Script(a, es, b) == (\E T : es \in Seq(T)) /\ b \in Clients /\ \E c : Path(a, es, b, c)

LEMMA NoEvents == ASSUME NEW a \in Clients PROVE Script(a, <<>>, a)
<1>1. <<>> \in Seq({}) /\ Len(<<>>) = 0
  BY EmptySeq
<1> DEFINE c == [i \in {0} |-> a]
<1>2. Path(a, <<>>, a, c)
  <2>1. 1 .. Len(<<>>) = {} /\ c[0] = a
    BY <1>1
  <2> HIDE DEF c
  <2> QED
    BY <1>1, <2>1 DEF Path
<1> HIDE DEF c
<1> QED
  BY <1>1, <1>2 DEF Script

LEMMA NothingToReplay == ASSUME NEW a, NEW b, Script(a, <<>>, b) PROVE a = b
BY EmptySeq DEF Script, Path

LEMMA OneMoreEvent ==
  ASSUME NEW a, NEW es, NEW b, Script(a, es, b), NEW e, NEW d, Legal(b, e, d)
  PROVE  Script(a, Append(es, e), d)
<1>1. PICK T, c : es \in Seq(T) /\ Path(a, es, b, c)
  BY DEF Script
<1> DEFINE n == Len(es)
           fs == Append(es, e)
           f == [i \in 0 .. n + 1 |-> IF i = n + 1 THEN d ELSE c[i]]
<1>2. es \in Seq(T \cup {e}) /\ e \in T \cup {e}
  BY <1>1, SeqMonotonic
<1>3. /\ fs \in Seq(T \cup {e}) /\ n \in Nat /\ Len(fs) = n + 1
      /\ \A i \in 1 .. n : fs[i] = es[i]
      /\ fs[n + 1] = e
  BY <1>2, AppendProperties, LenProperties
<1> HIDE DEF n, fs
<1>4. f[0] = a /\ f[n] = b /\ f[n + 1] = d /\ \A i \in 0 .. n : f[i] = c[i]
  BY <1>1, <1>3 DEF Path, n
<1>5. \A i \in 1 .. n : Legal(c[i - 1], es[i], c[i])
  BY <1>1 DEF Path, n
<1> HIDE DEF f
<1>6. ASSUME NEW i \in 1 .. n + 1 PROVE Legal(f[i - 1], fs[i], f[i])
  <2>1. CASE i = n + 1
    <3>1. i - 1 = n
      BY <1>3, <2>1
    <3> QED
      BY <1>3, <1>4, <2>1, <3>1
  <2>2. CASE i # n + 1
    <3>1. i \in 1 .. n /\ i \in 0 .. n /\ i - 1 \in 0 .. n
      BY <1>3, <2>2
    <3> QED
      BY <1>3, <1>4, <1>5, <3>1
  <2> QED
    BY <2>1, <2>2
<1>7. Path(a, fs, d, f)
  BY <1>3, <1>4, <1>6 DEF Path
<1>8. d \in Clients
  BY DEF Legal
<1> QED
  BY <1>3, <1>7, <1>8 DEF Script, fs

LEMMA MoreEvents ==
  ASSUME NEW a, NEW es, NEW b, Script(a, es, b), NEW fs, NEW d, Script(b, fs, d)
  PROVE  Script(a, es \o fs, d)
<1>1. PICK T, c : es \in Seq(T) /\ Path(a, es, b, c)
  BY DEF Script
<1>2. PICK U, g : fs \in Seq(U) /\ Path(b, fs, d, g)
  BY DEF Script
<1> DEFINE n == Len(es)
           m == Len(fs)
           gs == es \o fs
           f == [i \in 0 .. n + m |-> IF i <= n THEN c[i] ELSE g[i - n]]
<1>3. es \in Seq(T \cup U) /\ fs \in Seq(T \cup U)
  BY <1>1, <1>2, SeqMonotonic
<1>4. /\ gs \in Seq(T \cup U) /\ n \in Nat /\ m \in Nat /\ Len(gs) = n + m
      /\ \A i \in 1 .. n + m : gs[i] = IF i <= n THEN es[i] ELSE fs[i - n]
  BY <1>3, ConcatProperties, LenProperties
<1>5. \A i \in 1 .. n : Legal(c[i - 1], es[i], c[i])
  BY <1>1 DEF Path
<1>6. \A i \in 1 .. m : Legal(g[i - 1], fs[i], g[i])
  BY <1>2 DEF Path
<1>7. c[0] = a /\ c[n] = b /\ g[0] = b /\ g[m] = d
  BY <1>1, <1>2 DEF Path
<1> HIDE DEF n, m, gs
<1>8. /\ \A i \in 0 .. n : f[i] = c[i]
      /\ \A i \in 0 .. m : f[n + i] = g[i]
  <2>1. ASSUME NEW i \in 0 .. n PROVE f[i] = c[i]
    BY <1>4
  <2>2. ASSUME NEW i \in 0 .. m PROVE f[n + i] = g[i]
    <3>1. n + i \in 0 .. n + m /\ (n + i <= n => i = 0) /\ (n + i) - n = i
      BY <1>4
    <3>2. f[n + i] = IF n + i <= n THEN c[n + i] ELSE g[(n + i) - n]
      BY <3>1
    <3>3. CASE i = 0
      <4>1. n + i = n
        BY <1>4, <3>3
      <4> QED
        BY <1>4, <1>7, <3>2, <3>3, <4>1
    <3>4. CASE i # 0
      BY <3>1, <3>2, <3>4
    <3> QED
      BY <3>3, <3>4
  <2> QED
    BY <2>1, <2>2
<1> HIDE DEF f
<1>9. ASSUME NEW i \in 1 .. n + m PROVE Legal(f[i - 1], gs[i], f[i])
  <2>1. CASE i <= n
    <3>1. i \in 1 .. n /\ i \in 0 .. n /\ i - 1 \in 0 .. n
      BY <1>4, <2>1
    <3> QED
      BY <1>4, <1>5, <1>8, <2>1, <3>1
  <2>2. CASE ~(i <= n)
    <3>1. /\ i - n \in 1 .. m /\ i - n \in 0 .. m /\ (i - n) - 1 \in 0 .. m
          /\ n + (i - n) = i /\ n + ((i - n) - 1) = i - 1
      BY <1>4, <2>2
    <3>2. f[i] = g[i - n] /\ f[i - 1] = g[(i - n) - 1]
      BY <1>8, <3>1
    <3> QED
      BY <1>4, <1>6, <2>2, <3>1, <3>2
  <2> QED
    BY <2>1, <2>2
<1>10. f[0] = a /\ f[n + m] = d
  BY <1>4, <1>7, <1>8
<1>11. Path(a, gs, d, f)
  BY <1>4, <1>9, <1>10 DEF Path
<1>12. d \in Clients
  BY DEF Script
<1> QED
  BY <1>4, <1>11, <1>12 DEF Script, gs

(* One event is written.                                                     *)
LEMMA FirstEvent ==
  ASSUME NEW a, NEW es, NEW b, Script(a, es, b), es # <<>>
  PROVE  /\ Legal(a, Head(es), Replay(a, Head(es)))
         /\ Script(Replay(a, Head(es)), Tail(es), b)
<1>1. PICK T, c : es \in Seq(T) /\ Path(a, es, b, c)
  BY DEF Script
<1> DEFINE n == Len(es)
           fs == Tail(es)
           f == [i \in 0 .. n - 1 |-> c[i + 1]]
<1>2. /\ fs \in Seq(T) /\ Len(fs) = n - 1 /\ n \in Nat \ {0} /\ Head(es) = es[1]
      /\ \A i \in 1 .. n - 1 : fs[i] = es[i + 1]
  BY <1>1, HeadTailProperties, EmptySeq
<1>3. \A i \in 1 .. n : Legal(c[i - 1], es[i], c[i])
  BY <1>1 DEF Path
<1>4. c[0] = a /\ c[n] = b
  BY <1>1 DEF Path
<1> HIDE DEF n, fs
<1>5. Legal(a, Head(es), c[1])
  <2>1. 1 \in 1 .. n /\ 1 - 1 = 0
    BY <1>2
  <2> QED
    BY <1>2, <1>3, <1>4, <2>1
<1>6. c[1] = Replay(a, Head(es))
  BY <1>5 DEF Legal
<1>7. f[0] = c[1] /\ f[n - 1] = b
  <2>1. n - 1 \in 0 .. n - 1 /\ 0 \in 0 .. n - 1 /\ (n - 1) + 1 = n /\ 0 + 1 = 1
    BY <1>2
  <2> QED
    BY <1>4, <2>1
<1>8. ASSUME NEW i \in 1 .. n - 1 PROVE Legal(f[i - 1], fs[i], f[i])
  <2>1. /\ i + 1 \in 1 .. n /\ i \in 0 .. n - 1 /\ i - 1 \in 0 .. n - 1
        /\ (i - 1) + 1 = i /\ (i + 1) - 1 = i
    BY <1>2
  <2>2. f[i - 1] = c[i] /\ f[i] = c[i + 1] /\ fs[i] = es[i + 1]
    BY <1>2, <2>1
  <2> QED
    BY <1>3, <2>1, <2>2
<1> HIDE DEF f
<1>9. Path(c[1], fs, b, f)
  BY <1>2, <1>7, <1>8 DEF Path
<1>10. b \in Clients
  BY DEF Script
<1> QED
  BY <1>2, <1>5, <1>6, <1>9, <1>10 DEF Script, fs

(* The moves of the converter's events.                                      *)
LEMMA ClientShape ==
  ASSUME NEW c \in Clients
  PROVE  /\ c = [status |-> c.status, items |-> c.items, output |-> c.output]
         /\ c.status \in Statuses /\ c.output \in Seq(Items)
         /\ \E n \in Nat : c.items \in [0 .. n - 1 -> Items]
BY DEF Clients

LEMMA ClientMade ==
  ASSUME NEW st \in Statuses, NEW n \in Nat, NEW list \in [0 .. n - 1 -> Items], NEW out \in Seq(Items)
  PROVE  [status |-> st, items |-> list, output |-> out] \in Clients
BY DEF Clients

LEMMA Announcing ==
  ASSUME NEW c \in Clients, NEW e,
         \/ c.status = "none" /\ e.type = "created"
         \/ c.status = "created" /\ e.type = "in_progress"
  PROVE  /\ Legal(c, e, Replay(c, e))
         /\ Replay(c, e) = [c EXCEPT !.status = e.type]
<1>1. Replay(c, e) = [c EXCEPT !.status = e.type]
  BY DEF Replay
<1>2. [c EXCEPT !.status = e.type] = [status |-> e.type, items |-> c.items, output |-> c.output]
  BY ClientShape
<1>3. [status |-> e.type, items |-> c.items, output |-> c.output] \in Clients
  <2>1. e.type \in Statuses
    BY DEF Statuses
  <2> QED
    BY <2>1, ClientShape, ClientMade
<1> QED
  BY <1>1, <1>2, <1>3 DEF Legal, Announces

LEMMA Opening ==
  ASSUME NEW c \in Clients, c.status = "in_progress",
         NEW n \in Nat, DOMAIN c.items = 0 .. n - 1,
         NEW item \in Items, item.stage = "added", item.content = <<>>,
         NEW e, e.type = "item_added", e.index = n, e.item = item,
         NEW d, d = Replay(c, e)
  PROVE  /\ Legal(c, e, d)
         /\ d.status = "in_progress" /\ d.output = c.output
         /\ DOMAIN d.items = 0 .. n /\ d.items[n] = item
         /\ \A i \in 0 .. n - 1 : d.items[i] = c.items[i]
<1>1. d = [c EXCEPT !.items = With(@, n, item)]
  BY DEF Replay
<1> DEFINE list == With(c.items, n, item)
<1>2. d = [status |-> c.status, items |-> list, output |-> c.output]
  BY <1>1, ClientShape
<1>3. \A i \in DOMAIN c.items : c.items[i] \in Items
  BY ClientShape
<1>4. /\ DOMAIN list = 0 .. n /\ list[n] = item /\ \A i \in 0 .. n - 1 : list[i] = c.items[i]
      /\ list \in [0 .. (n + 1) - 1 -> Items]
  BY <1>3 DEF With
<1> HIDE DEF list
<1>5. d \in Clients
  BY <1>2, <1>4, ClientShape, ClientMade
<1>6. d.status = "in_progress" /\ d.output = c.output /\ d.items = list
  BY <1>2
<1>7. Opens(c, d)
  BY <1>4, <1>6 DEF Opens
<1> QED
  BY <1>4, <1>5, <1>6, <1>7 DEF Legal

(* One item is altered.                                                      *)
Put(c, i, item) == [c EXCEPT !.items[i] = item]

Altered(c, d, i) ==
  /\ d.status = "in_progress" /\ d.output = c.output
  /\ DOMAIN d.items = DOMAIN c.items
  /\ \A j \in DOMAIN c.items \ {i} : d.items[j] = c.items[j]

LEMMA Altering ==
  ASSUME NEW c \in Clients, c.status = "in_progress", NEW i \in DOMAIN c.items,
         NEW item \in Items, NEW d, d = Put(c, i, item),
         Grown(c, d, i) \/ Advanced(c, d, i)
  PROVE  d \in Clients /\ Alters(c, d) /\ Altered(c, d, i)
<1> DEFINE list == [c.items EXCEPT ![i] = item]
<1>1. d = [status |-> c.status, items |-> list, output |-> c.output]
  <2>1. c = [status |-> c.status, items |-> c.items, output |-> c.output]
    BY ClientShape
  <2> QED
    BY <2>1 DEF Put
<1>2. PICK n \in Nat : c.items \in [0 .. n - 1 -> Items]
  BY ClientShape
<1>3. /\ list \in [0 .. n - 1 -> Items] /\ DOMAIN list = DOMAIN c.items /\ list[i] = item
      /\ \A j \in DOMAIN c.items \ {i} : list[j] = c.items[j]
  BY <1>2
<1> HIDE DEF list
<1>4. d \in Clients
  <2>1. c.status \in Statuses /\ c.output \in Seq(Items)
    BY ClientShape
  <2> QED
    BY <1>1, <1>3, <2>1, ClientMade
<1>5. Altered(c, d, i) /\ d.items[i] = item
  BY <1>1, <1>3 DEF Altered
<1>6. Alters(c, d)
  BY <1>5 DEF Altered, Alters
<1> QED
  BY <1>4, <1>5, <1>6

LEMMA ItemShape ==
  ASSUME NEW x \in Items
  PROVE  /\ x = [id |-> x.id, kind |-> x.kind, call |-> x.call, name |-> x.name,
                 content |-> x.content, stage |-> x.stage]
         /\ x.id \in Nat /\ x.kind \in {"message", "function_call"} /\ x.call \in Nat
         /\ x.name \in Seq(Tokens) /\ x.content \in Seq(Tokens) /\ x.stage \in Stages
BY DEF Items

Growing(x) == x.stage = IF x.kind = "message" THEN "part" ELSE "added"

Longer(x, delta) == [x EXCEPT !.content = @ \o delta]

LEMMA Extending ==
  ASSUME NEW c \in Clients, c.status = "in_progress",
         NEW e, e.type = "delta", e.index \in DOMAIN c.items,
         Growing(c.items[e.index]), e.id = c.items[e.index].id,
         e.content \in Seq(Tokens), e.content # <<>>
  PROVE  /\ Legal(c, e, Replay(c, e)) /\ Altered(c, Replay(c, e), e.index)
         /\ Replay(c, e).items[e.index] = Longer(c.items[e.index], e.content)
<1> DEFINE i == e.index
           delta == e.content
           d == Replay(c, e)
           x == c.items[i]
           y == [x EXCEPT !.content = @ \o delta]
<1>1. x \in Items
  BY ClientShape
<1>2. /\ x.content \in Seq(Tokens) /\ x.content \o delta \in Seq(Tokens)
  BY <1>1, ItemShape, ConcatProperties
<1>3. y \in Items /\ y.content = x.content \o delta /\ y = [x EXCEPT !.content = y.content]
  BY <1>1, <1>2 DEF Items
<1>4. d = Put(c, i, y)
  <2> DEFINE z == [x EXCEPT !.id = e.id, !.content = x.content \o e.content, !.stage = x.stage]
  <2>1. d = Put(c, i, z)
    BY DEF Replay, Put
  <2>2. z = y
    BY <1>1 DEF Items
  <2> HIDE DEF y, z
  <2> QED
    BY <2>1, <2>2
<1>5. IsStrictPrefix(x.content, x.content \o delta)
  <2> DEFINE a == x.content
  <2>0. a \in Seq(Tokens) /\ delta \in Seq(Tokens) /\ delta # <<>>
    BY <1>2
  <2> HIDE DEF a, delta
  <2>1. /\ Len(a \o delta) = Len(a) + Len(delta) /\ Len(a) \in Nat /\ Len(delta) \in Nat
        /\ Len(delta) # 0 /\ a \o delta \in Seq(Tokens) /\ a \in Seq(Tokens)
        /\ \A k \in 1 .. Len(a) : (a \o delta)[k] = a[k]
    BY <2>0, ConcatProperties, LenProperties, EmptySeq
  <2>2. SubSeq(a, 1, Len(a)) = a
    BY <2>1, SubSeqFull
  <2>3. SubSeq(a \o delta, 1, Len(a)) = a
    <3> DEFINE z == a \o delta
               w == SubSeq(z, 1, Len(a))
    <3>1. \A k \in 1 .. Len(a) : z[k] \in Tokens
      <4>1. \A k \in 1 .. Len(a) : a[k] \in Tokens
        BY <2>1, ElementOfSeq
      <4> QED
        BY <2>1, <4>1
    <3> HIDE DEF z
    <3>2. /\ w \in Seq(Tokens) /\ Len(w) = (IF 1 <= Len(a) THEN Len(a) - 1 + 1 ELSE 0)
          /\ \A k \in 1 .. Len(a) - 1 + 1 : w[k] = z[1 + k - 1]
      BY <2>1, <3>1, SubSeqProperties
    <3>3. Len(w) = Len(a) /\ \A k \in 1 .. Len(a) : w[k] = z[k]
      BY <2>1, <3>2
    <3> HIDE DEF w
    <3>4. w = a
      BY <2>1, <3>2, <3>3, SeqEqual DEF z
    <3> QED
      BY <3>4 DEF w, z
  <2>4. Len(a) <= Len(a \o delta) /\ a # a \o delta
    BY <2>1
  <2>5. IsStrictPrefix(a, a \o delta)
    BY <2>2, <2>3, <2>4, Zenon DEF IsStrictPrefix, IsPrefix
  <2> QED
    BY <2>5 DEF a
<1> HIDE DEF y
<1>6. d.items[i] = y
  BY <1>4, ClientShape, SMTT(30) DEF Put
<1>7. Grown(c, d, i)
  BY <1>3, <1>5, <1>6 DEF Grown, Growing
<1>8. Legal(c, e, d) /\ Altered(c, d, i)
  BY <1>3, <1>4, <1>7, Altering DEF Legal
<1> QED
  BY <1>6, <1>8 DEF y, Longer

LEMMA Advancing ==
  ASSUME NEW c \in Clients, c.status = "in_progress",
         NEW e, e.type \in {"part", "settled", "part_done"}, e.index \in DOMAIN c.items,
         e.id = c.items[e.index].id, e.type \in NextOf(c.items[e.index]),
         e.type # "part" => e.content = c.items[e.index].content
  PROVE  /\ Legal(c, e, Replay(c, e)) /\ Altered(c, Replay(c, e), e.index)
         /\ Replay(c, e).items[e.index] = [c.items[e.index] EXCEPT !.stage = e.type]
<1> DEFINE i == e.index
           d == Replay(c, e)
           x == c.items[i]
           y == [x EXCEPT !.stage = e.type]
<1>1. x \in Items
  BY ClientShape
<1>2. /\ y \in Items /\ y.stage = e.type /\ y.id = x.id /\ y.kind = x.kind /\ y.content = x.content
      /\ y = [x EXCEPT !.stage = y.stage]
  BY <1>1 DEF Items, Stages
<1>3. d = Put(c, i, y)
  <2> DEFINE z == [x EXCEPT !.id = e.id, !.content = IF e.type = "part" THEN x.content ELSE e.content,
                            !.stage = e.type]
  <2>1. d = Put(c, i, z)
    BY DEF Replay, Put
  <2>2. z = y
    BY <1>1 DEF Items
  <2> HIDE DEF y, z
  <2> QED
    BY <2>1, <2>2
<1> HIDE DEF y
<1>4. d.items[i] = y
  BY <1>3, ClientShape DEF Put
<1>5. Advanced(c, d, i)
  BY <1>2, <1>4 DEF Advanced
<1>6. Legal(c, e, d) /\ Altered(c, d, i)
  BY <1>2, <1>3, <1>5, Altering DEF Legal
<1> QED
  BY <1>4, <1>6 DEF y

LEMMA Closing ==
  ASSUME NEW c \in Clients, c.status = "in_progress", NEW i \in DOMAIN c.items,
         "closed" \in NextOf(c.items[i]),
         NEW item \in Items, item.stage = "closed", item.id = c.items[i].id,
         item.kind = c.items[i].kind, item.content = c.items[i].content,
         NEW e, e.type = "item_done", e.index = i, e.item = item,
         NEW d, d = Replay(c, e)
  PROVE  Legal(c, e, d) /\ Altered(c, d, i) /\ d.items[i] = item
<1>1. d = Put(c, i, item)
  BY DEF Replay, Put
<1>2. d.items[i] = item
  BY <1>1, ClientShape DEF Put
<1>3. Advanced(c, d, i)
  BY <1>2 DEF Advanced
<1> QED
  BY <1>1, <1>2, <1>3, Altering DEF Legal

LEMMA Ending ==
  ASSUME NEW c \in Clients, c.status = "in_progress",
         NEW n \in Nat, DOMAIN c.items = 0 .. n - 1,
         \A i \in 0 .. n - 1 : c.items[i].stage = "closed",
         NEW e, e.type \in Finals, e.output \in Seq(Items), DOMAIN e.output = 1 .. n,
         \A i \in 0 .. n - 1 : e.output[i + 1] = c.items[i]
  PROVE  /\ Legal(c, e, Replay(c, e))
         /\ Replay(c, e).status = e.type /\ Replay(c, e).output = e.output
<1> DEFINE out == e.output
           d == Replay(c, e)
<1>1. d = [c EXCEPT !.status = e.type, !.output = out]
  BY DEF Replay, Finals
<1>2. d = [status |-> e.type, items |-> c.items, output |-> out]
  BY <1>1, ClientShape
<1>3. d \in Clients
  <2>1. e.type \in Statuses
    BY DEF Statuses, Finals
  <2> QED
    BY <1>2, <2>1, ClientShape, ClientMade
<1>4. {i + 1 : i \in 0 .. n - 1} = 1 .. n
  <2>1. ASSUME NEW k \in 1 .. n PROVE k \in {i + 1 : i \in 0 .. n - 1}
    <3>1. k - 1 \in 0 .. n - 1 /\ k = (k - 1) + 1
      OBVIOUS
    <3> QED
      BY <3>1
  <2>2. \A i \in 0 .. n - 1 : i + 1 \in 1 .. n
    OBVIOUS
  <2> QED
    BY <2>1, <2>2
<1>5. d.status = e.type /\ d.items = c.items /\ d.output = out
  BY <1>2
<1>6. Ends(c, d)
  BY <1>4, <1>5 DEF Ends
<1> QED
  BY <1>3, <1>5, <1>6 DEF Legal

-----------------------------------------------------------------------------
(* The converter: what was written so far is what its state says.            *)

Messages == [id : Nat \ {0}, index : Nat, text : Seq(Tokens)]
ToolType == [id : Nat, call : Nat, name : Seq(Tokens), arguments : Seq(Tokens), index : Nat]

(* The state of the converter, field by field.                               *)
StateOf(a, b, c, d, e, f) ==
  [started |-> a, message |-> b, tools |-> c, count |-> d, finish |-> e, drawn |-> f]
Shaped(st) == st = StateOf(st.started, st.message, st.tools, st.count, st.finish, st.drawn)
SetMessage(st, v) == [st EXCEPT !.message = v]
SetStarted(st, v) == [st EXCEPT !.started = v]
SetFinish(st, v) == [st EXCEPT !.finish = v]
SetTools(st, v) == [st EXCEPT !.tools = v]
SetCount(st, v) == [st EXCEPT !.count = v]
SetDrawn(st, v) == [st EXCEPT !.drawn = v]

LEMMA StateFields ==
  ASSUME NEW st, NEW v, Shaped(st)
  PROVE  /\ SetMessage(st, v) = StateOf(st.started, v, st.tools, st.count, st.finish, st.drawn)
         /\ SetTools(st, v) = StateOf(st.started, st.message, v, st.count, st.finish, st.drawn)
         /\ SetCount(st, v) = StateOf(st.started, st.message, st.tools, v, st.finish, st.drawn)
         /\ SetDrawn(st, v) = StateOf(st.started, st.message, st.tools, st.count, st.finish, v)
         /\ SetStarted(st, v) = StateOf(v, st.message, st.tools, st.count, st.finish, st.drawn)
         /\ SetFinish(st, v) = StateOf(st.started, st.message, st.tools, st.count, v, st.drawn)
<1>1. ASSUME NEW a, NEW b, NEW c, NEW d, NEW e, NEW f, st = StateOf(a, b, c, d, e, f)
      PROVE  /\ SetMessage(st, v) = StateOf(a, v, c, d, e, f)
             /\ SetTools(st, v) = StateOf(a, b, v, d, e, f)
             /\ SetCount(st, v) = StateOf(a, b, c, v, e, f)
             /\ SetDrawn(st, v) = StateOf(a, b, c, d, e, v)
             /\ SetStarted(st, v) = StateOf(v, b, c, d, e, f)
             /\ SetFinish(st, v) = StateOf(a, b, c, d, v, f)
  <2>1. [st EXCEPT !.message = v] = StateOf(a, v, c, d, e, f)
    BY <1>1 DEF StateOf
  <2>2. [st EXCEPT !.tools = v] = StateOf(a, b, v, d, e, f)
    BY <1>1 DEF StateOf
  <2>3. [st EXCEPT !.count = v] = StateOf(a, b, c, v, e, f)
    BY <1>1 DEF StateOf
  <2>4. [st EXCEPT !.drawn = v] = StateOf(a, b, c, d, e, v)
    BY <1>1 DEF StateOf
  <2>5. [st EXCEPT !.started = v] = StateOf(v, b, c, d, e, f)
    BY <1>1 DEF StateOf
  <2>6. [st EXCEPT !.finish = v] = StateOf(a, b, c, d, v, f)
    BY <1>1 DEF StateOf
  <2> QED
    BY <2>1, <2>2, <2>3, <2>4, <2>5, <2>6
    DEF SetMessage, SetTools, SetCount, SetDrawn, SetStarted, SetFinish
<1> QED
  BY <1>1 DEF Shaped

LEMMA StateOfShaped ==
  ASSUME NEW a, NEW b, NEW c, NEW d, NEW e, NEW f
  PROVE  /\ Shaped(StateOf(a, b, c, d, e, f))
         /\ StateOf(a, b, c, d, e, f).started = a
         /\ StateOf(a, b, c, d, e, f).message = b
         /\ StateOf(a, b, c, d, e, f).tools = c
         /\ StateOf(a, b, c, d, e, f).count = d
         /\ StateOf(a, b, c, d, e, f).finish = e
         /\ StateOf(a, b, c, d, e, f).drawn = f
BY DEF StateOf, Shaped

StateType(st) ==
  /\ Shaped(st)
  /\ st.started \in BOOLEAN /\ st.message \in Messages \cup {None}
  /\ IsFiniteSet(DOMAIN st.tools) /\ DOMAIN st.tools \in SUBSET Int
  /\ st.tools \in [DOMAIN st.tools -> ToolType]
  /\ st.count \in Nat /\ st.drawn \in Nat \ {0}

(* Every output index below count is taken once.                             *)
IndexesTaken(st) ==
  /\ st.message # None => st.message.index \in 0 .. st.count - 1
  /\ \A k \in DOMAIN st.tools :
       /\ st.tools[k].index \in 0 .. st.count - 1
       /\ st.message # None => st.tools[k].index # st.message.index
       /\ \A j \in DOMAIN st.tools : st.tools[j].index = st.tools[k].index => j = k
  /\ \A n \in 0 .. st.count - 1 :
       \/ st.message # None /\ st.message.index = n
       \/ \E k \in DOMAIN st.tools : st.tools[k].index = n

(* The item of a tool while it is open; its name and its call may be those of the first delta. *)
OpenCall(item, tool) ==
  /\ item.id = tool.id /\ item.kind = "function_call"
  /\ item.content = tool.arguments /\ item.stage = "added"

Agrees(c, st) ==
  /\ StateType(st) /\ IndexesTaken(st)
  /\ c \in Clients
  /\ c.status = (IF st.started THEN "in_progress" ELSE "none") /\ c.output = <<>>
  /\ DOMAIN c.items = 0 .. st.count - 1
  /\ ~st.started => st.count = 0
  /\ st.message # None => c.items[st.message.index] = MessageItem(st.message, st.message.text, "part")
  /\ \A k \in DOMAIN st.tools : OpenCall(c.items[st.tools[k].index], st.tools[k])

(* The tools and the finish reason are those of before.                      *)
Untouched(st, u) == u.tools = st.tools /\ u.finish = st.finish /\ u.drawn >= st.drawn

(* A result of the converter's operators: a is the client before its events. *)
Good(a, r) ==
  /\ r = [s |-> r.s, out |-> r.out]
  /\ \E c : Script(a, r.out, c) /\ Agrees(c, r.s)

LEMMA NoMessage == \A m \in Messages : m # None /\ m.id # 0
BY DEF Messages, None

LEMMA MessageItemType ==
  ASSUME NEW m \in Messages, NEW content \in Seq(Tokens), NEW stage \in Stages
  PROVE  /\ MessageItem(m, content, stage) \in Items
         /\ MessageItem(m, content, stage).id = m.id
         /\ MessageItem(m, content, stage).kind = "message"
         /\ MessageItem(m, content, stage).content = content
         /\ MessageItem(m, content, stage).stage = stage
<1>1. <<>> \in Seq(Tokens)
  BY EmptySeq
<1> QED
  BY <1>1 DEF MessageItem, Items, Messages

LEMMA CallItemType ==
  ASSUME NEW t \in ToolType, NEW content \in Seq(Tokens), NEW stage \in Stages
  PROVE  /\ CallItem(t, content, stage) \in Items
         /\ CallItem(t, content, stage).id = t.id
         /\ CallItem(t, content, stage).kind = "function_call"
         /\ CallItem(t, content, stage).content = content
         /\ CallItem(t, content, stage).stage = stage
BY DEF CallItem, Items, ToolType

LEMMA NothingEmitted ==
  ASSUME NEW c, NEW st, Agrees(c, st)
  PROVE  Good(c, [s |-> st, out |-> <<>>])
<1> DEFINE r == [s |-> st, out |-> <<>>]
<1>1. r = [s |-> r.s, out |-> r.out] /\ r.s = st /\ r.out = <<>>
  OBVIOUS
<1> HIDE DEF r
<1>2. Script(c, <<>>, c)
  BY NoEvents DEF Agrees
<1> QED
  BY <1>1, <1>2 DEF Good, r

LEMMA TwoEvents ==
  ASSUME NEW a, NEW es, NEW b, Script(a, es, b), NEW e, NEW f, NEW c, NEW d,
         Legal(b, e, c), Legal(c, f, d)
  PROVE  Script(a, es \o <<e, f>>, d)
<1>1. b \in Clients
  BY DEF Script
<1>2. Script(b, Append(Append(<<>>, e), f), d)
  BY <1>1, NoEvents, OneMoreEvent
<1>3. Append(Append(<<>>, e), f) = <<e, f>>
  <2>1. /\ <<>> \in Seq({e, f}) /\ Len(<<>>) = 0 /\ e \in {e, f} /\ f \in {e, f}
    BY EmptySeq
  <2>2. /\ Append(<<>>, e) \in Seq({e, f}) /\ Len(Append(<<>>, e)) = 1 /\ Append(<<>>, e)[1] = e
    BY <2>1, AppendProperties
  <2> DEFINE g == Append(<<>>, e)
  <2>3. g \in Seq({e, f}) /\ Len(g) = 1 /\ g[1] = e
    BY <2>2
  <2> HIDE DEF g
  <2>4. /\ Append(g, f) \in Seq({e, f}) /\ Len(Append(g, f)) = 2
        /\ Append(g, f)[1] = e /\ Append(g, f)[2] = f
    <3>1. /\ Append(g, f) \in Seq({e, f}) /\ Len(Append(g, f)) = Len(g) + 1
          /\ \A i \in 1 .. Len(g) : Append(g, f)[i] = g[i]
          /\ Append(g, f)[Len(g) + 1] = f
      <4> DEFINE S == {e, f}
      <4>1. g \in Seq(S) /\ f \in S
        BY <2>1, <2>3
      <4> HIDE DEF S
      <4>2. /\ Append(g, f) \in Seq(S) /\ Len(Append(g, f)) = Len(g) + 1
            /\ \A i \in 1 .. Len(g) : Append(g, f)[i] = g[i]
            /\ Append(g, f)[Len(g) + 1] = f
        BY <4>1, AppendProperties
      <4> QED
        BY <4>2 DEF S
    <3>2. 1 \in 1 .. Len(g) /\ Len(g) + 1 = 2
      BY <2>3
    <3> QED
      BY <2>3, <3>1, <3>2
  <2> DEFINE h == Append(g, f)
  <2>5. h \in Seq({e, f}) /\ Len(h) = 2 /\ h[1] = e /\ h[2] = f
    BY <2>4
  <2>6. <<e, f>> \in Seq({e, f}) /\ Len(<<e, f>>) = 2 /\ <<e, f>>[1] = e /\ <<e, f>>[2] = f
    OBVIOUS
  <2> DEFINE w == <<e, f>>
  <2>7. w \in Seq({e, f}) /\ Len(w) = 2 /\ w[1] = e /\ w[2] = f
    BY <2>6
  <2> HIDE DEF h, w
  <2>8. h = w
    <3>1. \A i \in 1 .. Len(h) : h[i] = w[i]
      <4>1. \A i \in 1 .. 2 : i = 1 \/ i = 2
        OBVIOUS
      <4> QED
        BY <2>5, <2>7, <4>1
    <3>2. Len(h) = Len(w)
      BY <2>5, <2>7
    <3> QED
      BY <2>5, <2>7, <3>1, <3>2, SeqEqual
  <2> QED
    BY <2>8 DEF h, g, w
<1> QED
  BY <1>2, <1>3, MoreEvents

LEMMA OneEvent ==
  ASSUME NEW a, NEW es, NEW b, Script(a, es, b), NEW e, NEW d, Legal(b, e, d)
  PROVE  Script(a, es \o <<e>>, d)
<1>1. b \in Clients
  BY DEF Script
<1>2. Script(b, Append(<<>>, e), d)
  BY <1>1, NoEvents, OneMoreEvent
<1>3. Append(<<>>, e) = <<e>>
  OBVIOUS
<1> QED
  BY <1>2, <1>3, MoreEvents

LEMMA StartGood ==
  ASSUME NEW a, NEW r, Good(a, r)
  PROVE  /\ Good(a, Start(r)) /\ Start(r).s.started
         /\ Start(r).s.message = r.s.message /\ Untouched(r.s, Start(r).s)
<1>1. CASE r.s.started
  <2>1. Start(r) = r
    BY <1>1 DEF Start
  <2>2. Untouched(r.s, r.s)
    BY DEF Untouched, Good, Agrees, StateType
  <2> QED
    BY <1>1, <2>1, <2>2
<1>2. CASE ~r.s.started
  <2>1. PICK c : Script(a, r.out, c) /\ Agrees(c, r.s)
    BY DEF Good
  <2> DEFINE e == [type |-> "created"]
             f == [type |-> "in_progress"]
             d == Replay(c, e)
             g == Replay(d, f)
             q == Start(r)
             st == r.s
  <2>2. c \in Clients /\ c.status = "none"
    BY <1>2, <2>1 DEF Agrees
  <2>3. Legal(c, e, d) /\ d = [c EXCEPT !.status = "created"]
    BY <2>2, Announcing
  <2>4. d \in Clients /\ d.status = "created"
    BY <2>2, <2>3, ClientShape DEF Legal
  <2>5. Legal(d, f, g) /\ g = [d EXCEPT !.status = "in_progress"]
    <3> HIDE DEF d
    <3> QED
      BY <2>4, Announcing
  <2>6. g \in Clients
    BY <2>5 DEF Legal
  <2>7. g.status = "in_progress" /\ g.items = c.items /\ g.output = c.output
    <3>1. c = [status |-> c.status, items |-> c.items, output |-> c.output]
      BY <2>2, ClientShape
    <3> HIDE DEF d, g
    <3>2. d = [status |-> "created", items |-> c.items, output |-> c.output]
      BY <2>3, <3>1
    <3> QED
      BY <2>5, <3>2
  <2> HIDE DEF d, g
  <2>8. q = [s |-> [st EXCEPT !.started = TRUE], out |-> r.out \o <<e, f>>]
    BY <1>2 DEF Start
  <2>9. Script(a, r.out \o <<e, f>>, g)
    <3> HIDE DEF e, f
    <3> QED
      BY <2>1, <2>3, <2>5, TwoEvents
  <2> DEFINE u == [st EXCEPT !.started = TRUE]
  <2>10. StateType(st)
    BY <2>1 DEF Agrees
  <2> DEFINE yes == TRUE
  <2>11. u = StateOf(yes, st.message, st.tools, st.count, st.finish, st.drawn)
    <3>1. Shaped(st)
      BY <2>10 DEF StateType
    <3> HIDE DEF st
    <3>2. SetStarted(st, TRUE) = StateOf(TRUE, st.message, st.tools, st.count, st.finish, st.drawn)
      BY <3>1, StateFields
    <3> QED
      BY <3>2 DEF SetStarted
  <2>12. /\ u.started = TRUE /\ u.message = st.message /\ u.tools = st.tools /\ u.count = st.count
         /\ u.finish = st.finish /\ u.drawn = st.drawn /\ Shaped(u)
    <3> HIDE DEF u, yes
    <3>1. /\ u.started = yes /\ u.message = st.message /\ u.tools = st.tools /\ u.count = st.count
          /\ u.finish = st.finish /\ u.drawn = st.drawn /\ Shaped(u)
      BY <2>11, StateOfShaped
    <3> QED
      BY <3>1, Zenon DEF yes
  <2> HIDE DEF u, q, e, f
  <2>13. StateType(u)
    BY <2>10, <2>11, <2>12 DEF StateType
  <2> HIDE DEF st
  <2>14. Agrees(g, u)
    <3>1. Agrees(c, st)
      BY <2>1 DEF st
    <3> QED
      BY <2>6, <2>7, <2>12, <2>13, <3>1 DEF Agrees, IndexesTaken
  <2>15. q.s = u /\ q.out = r.out \o <<e, f>> /\ q = [s |-> q.s, out |-> q.out]
    BY <2>8 DEF u
  <2>16. Good(a, q) /\ q.s.started
    BY <2>9, <2>12, <2>14, <2>15 DEF Good
  <2>17. Untouched(st, u) /\ q.s = u
    BY <2>10, <2>12, <2>15 DEF Untouched, StateType
  <2> QED
    BY <2>12, <2>16, <2>17 DEF q, st
<1> QED
  BY <1>1, <1>2 DEF Good, Agrees, StateType

LEMMA Telling ==
  ASSUME NEW a, NEW r, Good(a, r), r.s.started, NEW f \in STRING
  PROVE  LET q == [r EXCEPT !.s.finish = f]
         IN  /\ Good(a, q) /\ q.s.started /\ q.s.message = r.s.message /\ q.s.tools = r.s.tools
             /\ q.s.finish = f /\ q.s.drawn = r.s.drawn
<1>1. PICK c : Script(a, r.out, c) /\ Agrees(c, r.s)
  BY DEF Good
<1> DEFINE st == r.s
           u == [st EXCEPT !.finish = f]
           q == [r EXCEPT !.s.finish = f]
<1>2. r = [s |-> st, out |-> r.out]
  BY DEF Good
<1>3. q = [s |-> u, out |-> r.out]
  BY <1>2
<1>4. StateType(st)
  BY <1>1 DEF Agrees
<1>5. st.started
  OBVIOUS
<1> HIDE DEF st
<1>6. u = StateOf(st.started, st.message, st.tools, st.count, f, st.drawn)
  BY <1>4, StateFields DEF StateType, SetFinish
<1>7. /\ u.started = st.started /\ u.message = st.message /\ u.tools = st.tools /\ u.count = st.count
      /\ u.finish = f /\ u.drawn = st.drawn /\ Shaped(u)
  <2> HIDE DEF u
  <2> QED
    BY <1>6, StateOfShaped
<1> HIDE DEF u, q
<1>8. StateType(u)
  BY <1>4, <1>6, <1>7 DEF StateType
<1>9. Agrees(c, u)
  <2>1. Agrees(c, st)
    BY <1>1 DEF st
  <2> QED
    BY <2>1, <1>7, <1>8 DEF Agrees, IndexesTaken
<1>10. q.s = u /\ q.out = r.out /\ q = [s |-> q.s, out |-> q.out]
  BY <1>3
<1> QED
  BY <1>1, <1>5, <1>7, <1>9, <1>10 DEF Good, q, st

LEMMA Opened ==
  ASSUME NEW st, NEW m, Shaped(st)
  PROVE  [st EXCEPT !.message = m, !.count = @ + 1, !.drawn = @ + 1]
         = StateOf(st.started, m, st.tools, st.count + 1, st.finish, st.drawn + 1)
<1> DEFINE s1 == SetMessage(st, m)
           s2 == SetCount(s1, st.count + 1)
           s3 == SetDrawn(s2, st.drawn + 1)
<1>1. s1 = StateOf(st.started, m, st.tools, st.count, st.finish, st.drawn)
  BY StateFields
<1>2. s2 = StateOf(st.started, m, st.tools, st.count + 1, st.finish, st.drawn)
  <2> HIDE DEF s1
  <2> QED
    BY <1>1, StateOfShaped, StateFields
<1>3. s3 = StateOf(st.started, m, st.tools, st.count + 1, st.finish, st.drawn + 1)
  <2> HIDE DEF s1, s2
  <2> QED
    BY <1>2, StateOfShaped, StateFields
<1>4. [st EXCEPT !.message = m, !.count = @ + 1, !.drawn = @ + 1] = s3
  BY DEF SetMessage, SetCount, SetDrawn
<1> HIDE DEF s3
<1> QED
  BY <1>3, <1>4

LEMMA Lengthened ==
  ASSUME NEW m \in Messages, NEW delta
  PROVE  [m EXCEPT !.text = @ \o delta] = [id |-> m.id, index |-> m.index, text |-> m.text \o delta]
<1>1. \A a, b, c, v : m = [id |-> a, index |-> b, text |-> c]
                  => [m EXCEPT !.text = v] = [id |-> a, index |-> b, text |-> v]
  OBVIOUS
<1>2. m = [id |-> m.id, index |-> m.index, text |-> m.text]
  BY DEF Messages
<1> QED
  BY <1>1, <1>2

LEMMA ItemLengthened ==
  ASSUME NEW x \in Items, NEW delta
  PROVE  Longer(x, delta) = [id |-> x.id, kind |-> x.kind, call |-> x.call, name |-> x.name,
                             content |-> x.content \o delta, stage |-> x.stage]
<1>1. ASSUME NEW a, NEW b, NEW c, NEW d, NEW e, NEW f, NEW v,
             x = [id |-> a, kind |-> b, call |-> c, name |-> d, content |-> e, stage |-> f]
      PROVE  [x EXCEPT !.content = v]
             = [id |-> a, kind |-> b, call |-> c, name |-> d, content |-> v, stage |-> f]
  BY <1>1
<1> DEFINE v == x.content \o delta
<1>2. [x EXCEPT !.content = v]
      = [id |-> x.id, kind |-> x.kind, call |-> x.call, name |-> x.name, content |-> v, stage |-> x.stage]
  <2> HIDE DEF v
  <2> QED
    BY <1>1, ItemShape
<1> QED
  BY <1>2 DEF Longer

LEMMA OpenMessageGood ==
  ASSUME NEW a, NEW r, Good(a, r), r.s.started
  PROVE  /\ Good(a, OpenMessage(r))
         /\ OpenMessage(r).s.started /\ OpenMessage(r).s.message \in Messages
         /\ Untouched(r.s, OpenMessage(r).s)
         /\ IF r.s.message = None THEN OpenMessage(r).s.message.text = <<>>
            ELSE OpenMessage(r).s.message = r.s.message
<1>1. PICK c : Script(a, r.out, c) /\ Agrees(c, r.s)
  BY DEF Good
<1> DEFINE st == r.s
<1>2. StateType(st)
  BY <1>1 DEF Agrees
<1>3. CASE st.message # None
  BY <1>2, <1>3 DEF OpenMessage, StateType, Untouched
<1>4. CASE st.message = None
  <2> DEFINE n == st.count
             m == [id |-> st.drawn, index |-> n, text |-> <<>>]
             u == [st EXCEPT !.message = m, !.count = @ + 1, !.drawn = @ + 1]
             item == MessageItem(m, <<>>, "added")
             e == [type |-> "item_added", index |-> n, item |-> item]
             f == [type |-> "part", index |-> n, id |-> m.id]
             d == Replay(c, e)
             g == Replay(d, f)
             q == OpenMessage(r)
  <2>1. q = [s |-> u, out |-> r.out \o <<e, f>>]
    BY <1>4 DEF OpenMessage
  <2>2. Agrees(c, st) /\ st.started
    BY <1>1
  <2>3. m \in Messages /\ m.index = n /\ m.text = <<>>
    BY <1>2, EmptySeq DEF StateType, Messages
  <2> HIDE DEF st
  <2>4. /\ n \in Nat /\ c \in Clients /\ c.status = "in_progress" /\ DOMAIN c.items = 0 .. n - 1
        /\ c.output = <<>>
    BY <1>2, <2>2 DEF Agrees, StateType
  <2>5. u = StateOf(st.started, m, st.tools, n + 1, st.finish, st.drawn + 1)
    <3> HIDE DEF m
    <3> QED
      BY <1>2, Opened DEF StateType
  <2> HIDE DEF m
  <2>6. /\ u.started = st.started /\ u.message = m /\ u.tools = st.tools /\ u.count = n + 1
        /\ u.finish = st.finish /\ u.drawn = st.drawn + 1 /\ Shaped(u)
    <3> HIDE DEF u
    <3> QED
      BY <2>5, StateOfShaped
  <2>7. /\ item \in Items /\ item.stage = "added" /\ item.content = <<>> /\ item.kind = "message"
        /\ item.id = m.id
    <3>1. <<>> \in Seq(Tokens) /\ "added" \in Stages
      BY EmptySeq DEF Stages
    <3>2. item \in Items
      BY <2>3, <3>1, MessageItemType
    <3> QED
      BY <3>2 DEF MessageItem
  <2>8. [item EXCEPT !.stage = "part"] = MessageItem(m, <<>>, "part")
    BY DEF MessageItem
  <2> HIDE DEF item
  <2>9. e.type = "item_added" /\ e.index = n /\ e.item = item
    OBVIOUS
  <2>10. f.type = "part" /\ f.index = n /\ f.id = m.id
    OBVIOUS
  <2>21. d = Replay(c, e) /\ g = Replay(d, f)
    OBVIOUS
  <2> HIDE DEF n, u, q, e, f, d, g
  <2>11. /\ Legal(c, e, d)
         /\ d.status = "in_progress" /\ d.output = c.output
         /\ DOMAIN d.items = 0 .. n /\ d.items[n] = item
         /\ \A i \in 0 .. n - 1 : d.items[i] = c.items[i]
    BY <2>4, <2>7, <2>9, <2>21, Opening
  <2>12. d \in Clients
    BY <2>11 DEF Legal
  <2>13. /\ Legal(d, f, g) /\ Altered(d, g, n)
         /\ g.items[n] = [d.items[n] EXCEPT !.stage = f.type]
    <3>1. n \in DOMAIN d.items
      BY <2>4, <2>11
    <3>2. f.type \in NextOf(d.items[n])
      BY <2>7, <2>10, <2>11 DEF NextOf
    <3> QED
      <4>1. f.index \in DOMAIN d.items /\ f.id = d.items[f.index].id /\ f.type \in NextOf(d.items[f.index])
        BY <2>7, <2>10, <2>11, <3>1, <3>2
      <4>2. /\ Legal(d, f, Replay(d, f)) /\ Altered(d, Replay(d, f), f.index)
            /\ Replay(d, f).items[f.index] = [d.items[f.index] EXCEPT !.stage = f.type]
        BY <2>10, <2>11, <2>12, <4>1, Advancing
      <4> QED
        BY <2>10, <2>21, <4>2
  <2>14. g \in Clients
    BY <2>13 DEF Legal
  <2>15. /\ g.status = "in_progress" /\ g.output = <<>> /\ DOMAIN g.items = 0 .. n
         /\ g.items[n] = MessageItem(m, <<>>, "part")
         /\ \A i \in 0 .. n - 1 : g.items[i] = c.items[i]
    <3>1. \A i \in 0 .. n - 1 : i \in DOMAIN d.items \ {n}
      BY <2>4, <2>11
    <3> QED
      BY <2>4, <2>8, <2>10, <2>11, <2>13, <3>1 DEF Altered
  <2>16. StateType(u)
    <3>1. st.drawn + 1 \in Nat \ {0} /\ n + 1 \in Nat
      BY <1>2, <2>4 DEF StateType
    <3> QED
      BY <1>2, <2>3, <2>5, <2>6, <3>1 DEF StateType
  <2>17. IndexesTaken(u)
    <3>0. st.message = None /\ m # None
      BY <1>4, <2>3, NoMessage DEF st
    <3>1. IndexesTaken(st)
      BY <2>2 DEF Agrees
    <3>2. \A k \in DOMAIN st.tools :
            /\ st.tools[k].index \in 0 .. n - 1
            /\ \A j \in DOMAIN st.tools : st.tools[j].index = st.tools[k].index => j = k
      BY <3>1 DEF IndexesTaken, n
    <3>3. \A i \in 0 .. n - 1 : \E k \in DOMAIN st.tools : st.tools[k].index = i
      BY <3>0, <3>1 DEF IndexesTaken, n
    <3>4. \A i \in 0 .. n - 1 : i \in 0 .. n /\ i # n
      BY <2>4
    <3>5. \A i \in 0 .. n : i = n \/ i \in 0 .. n - 1
      BY <2>4
    <3>6. (n + 1) - 1 = n /\ n \in 0 .. n
      BY <2>4
    <3>7. u.count - 1 = n
      BY <2>6, <3>6
    <3>8. u.message.index \in 0 .. u.count - 1
      BY <2>3, <2>6, <3>6, <3>7
    <3>9. \A k \in DOMAIN u.tools :
            /\ u.tools[k].index \in 0 .. u.count - 1
            /\ u.tools[k].index # u.message.index
            /\ \A j \in DOMAIN u.tools : u.tools[j].index = u.tools[k].index => j = k
      BY <2>3, <2>6, <3>2, <3>4, <3>7
    <3>10. \A i \in 0 .. u.count - 1 :
            \/ u.message.index = i
            \/ \E k \in DOMAIN u.tools : u.tools[k].index = i
      BY <2>3, <2>6, <3>3, <3>5, <3>7
    <3> QED
      BY <2>6, <3>0, <3>8, <3>9, <3>10 DEF IndexesTaken
  <2>18. Agrees(g, u)
    <3>1. \A k \in DOMAIN st.tools : OpenCall(g.items[st.tools[k].index], st.tools[k])
      <4> TAKE k \in DOMAIN st.tools
      <4>1. st.tools[k].index \in 0 .. n - 1
        BY <2>2 DEF Agrees, IndexesTaken, n
      <4>2. OpenCall(c.items[st.tools[k].index], st.tools[k])
        BY <2>2 DEF Agrees
      <4> QED
        BY <2>15, <4>1, <4>2
    <3>2. (n + 1) - 1 = n
      BY <2>4
    <3> QED
      BY <2>2, <2>3, <2>6, <2>14, <2>15, <2>16, <2>17, <3>1, <3>2 DEF Agrees
  <2>19. Script(a, r.out \o <<e, f>>, g)
    BY <1>1, <2>11, <2>13, TwoEvents
  <2>20. q.s = u /\ q.out = r.out \o <<e, f>> /\ q = [s |-> q.s, out |-> q.out]
    BY <2>1
  <2>22. Untouched(st, u) /\ u.message.text = <<>>
    <3>1. st.drawn + 1 >= st.drawn
      BY <1>2 DEF StateType
    <3> QED
      BY <2>3, <2>6, <3>1 DEF Untouched
  <2>23. Good(a, q) /\ q.s.started /\ q.s.message \in Messages
    BY <2>2, <2>3, <2>6, <2>18, <2>19, <2>20 DEF Good
  <2> QED
    BY <1>4, <2>20, <2>22, <2>23 DEF q, st
<1> QED
  BY <1>3, <1>4

LEMMA AddTextGood ==
  ASSUME NEW a, NEW r, Good(a, r), r.s.started, NEW delta \in Seq(Tokens)
  PROVE  LET q == AddText(r, delta)
         IN  /\ Good(a, q) /\ q.s.started /\ Untouched(r.s, q.s)
             /\ IF delta = <<>> THEN q.s.message = r.s.message
                ELSE /\ q.s.message # None
                     /\ q.s.message.text =
                          (IF r.s.message = None THEN <<>> ELSE r.s.message.text) \o delta
<1>1. CASE delta = <<>>
  <2>1. AddText(r, delta) = r
    BY <1>1 DEF AddText
  <2>2. Untouched(r.s, r.s)
    BY DEF Untouched, Good, Agrees, StateType
  <2> QED
    BY <1>1, <2>1, <2>2
<1>2. CASE delta # <<>>
  <2> DEFINE open == OpenMessage(r)
             st == open.s
             m == st.message
             e == [type |-> "delta", index |-> m.index, id |-> m.id, content |-> delta]
             u == [st EXCEPT !.message.text = @ \o delta]
             q == AddText(r, delta)
  <2>1. Good(a, open) /\ st.started /\ m \in Messages
    BY OpenMessageGood
  <2>30. /\ Untouched(r.s, st)
         /\ IF r.s.message = None THEN m.text = <<>> ELSE m = r.s.message
    BY OpenMessageGood
  <2>2. q = Emit([open EXCEPT !.s.message.text = @ \o delta], <<e>>)
    BY <1>2 DEF AddText
  <2> HIDE DEF open
  <2>3. PICK c : Script(a, open.out, c) /\ Agrees(c, st)
    BY <2>1 DEF Good
  <2>4. q = [s |-> u, out |-> open.out \o <<e>>]
    <3>1. open = [s |-> open.s, out |-> open.out]
      BY <2>1 DEF Good
    <3> QED
      BY <2>2, <3>1 DEF Emit
  <2> HIDE DEF q, st
  <2>5. StateType(st) /\ IndexesTaken(st)
    BY <2>3 DEF Agrees
  <2> DEFINE w == [id |-> m.id, index |-> m.index, text |-> m.text \o delta]
             n == m.index
             d == Replay(c, e)
  <2>6. u = StateOf(st.started, w, st.tools, st.count, st.finish, st.drawn)
    <3>1. m = [id |-> m.id, index |-> m.index, text |-> m.text]
      BY <2>1 DEF Messages
    <3>2. u = [st EXCEPT !.message = [m EXCEPT !.text = @ \o delta]]
      OBVIOUS
    <3>3. [m EXCEPT !.text = @ \o delta] = w
      BY <2>1, Lengthened
    <3> HIDE DEF w, m, u
    <3> QED
      BY <2>5, <3>2, <3>3, StateFields DEF StateType, SetMessage
  <2>7. /\ w \in Messages /\ w.id = m.id /\ w.index = n /\ w.text = m.text \o delta
        /\ m.text \in Seq(Tokens) /\ m.id \in Nat /\ n \in Nat
    <3>1. m.text \in Seq(Tokens) /\ m.id \in Nat \ {0} /\ n \in Nat
      BY <2>1 DEF Messages
    <3>2. m.text \o delta \in Seq(Tokens)
      BY <3>1, ConcatProperties
    <3> HIDE DEF m
    <3> QED
      BY <3>1, <3>2 DEF Messages
  <2>8. /\ u.started = st.started /\ u.message = w /\ u.tools = st.tools /\ u.count = st.count
        /\ u.finish = st.finish /\ u.drawn = st.drawn /\ Shaped(u)
    <3> HIDE DEF u
    <3> QED
      BY <2>6, StateOfShaped
  <2> HIDE DEF u, w
  <2>9. m # None /\ w # None
    BY <2>1, <2>7, NoMessage
  <2>10. n \in 0 .. st.count - 1 /\ st.count \in Nat
    BY <2>5, <2>9 DEF IndexesTaken, StateType
  <2>11. e.type = "delta" /\ e.index = n /\ e.id = m.id /\ e.content = delta
    OBVIOUS
  <2>23. d = Replay(c, e)
    OBVIOUS
  <2> HIDE DEF m, e, n, d
  <2>12. /\ c \in Clients /\ c.status = "in_progress" /\ c.output = <<>>
         /\ DOMAIN c.items = 0 .. st.count - 1
         /\ c.items[n] = MessageItem(m, m.text, "part")
    BY <2>1, <2>3, <2>9, <2>10 DEF Agrees, m, n
  <2>13. /\ c.items[n].id = m.id /\ c.items[n].kind = "message" /\ c.items[n].stage = "part"
    BY <2>12 DEF MessageItem
  <2>14. /\ Legal(c, e, d) /\ Altered(c, d, n)
         /\ d.items[n] = Longer(c.items[n], delta)
    <3>1. Growing(c.items[n]) /\ e.id = c.items[n].id
      BY <2>11, <2>13 DEF Growing
    <3>2. n \in DOMAIN c.items
      BY <2>10, <2>12
    <3>3. /\ Legal(c, e, Replay(c, e)) /\ Altered(c, Replay(c, e), e.index)
          /\ Replay(c, e).items[e.index] = Longer(c.items[e.index], e.content)
      BY <1>2, <2>11, <2>12, <3>1, <3>2, Extending
    <3> QED
      BY <2>11, <2>23, <3>3
  <2>15. d.items[n] = MessageItem(w, w.text, "part")
    <3>1. c.items[n] \in Items
      BY <2>10, <2>12, ClientShape
    <3>2. d.items[n] = [id |-> c.items[n].id, kind |-> c.items[n].kind, call |-> c.items[n].call,
                        name |-> c.items[n].name, content |-> c.items[n].content \o delta,
                        stage |-> c.items[n].stage]
      BY <2>14, <3>1, ItemLengthened
    <3> QED
      BY <2>7, <2>12, <3>2 DEF MessageItem
  <2>16. d \in Clients
    BY <2>14 DEF Legal
  <2>17. StateType(u)
    BY <2>5, <2>6, <2>7, <2>8 DEF StateType
  <2>18. IndexesTaken(u)
    BY <2>5, <2>7, <2>8, <2>9 DEF IndexesTaken, m, n
  <2>19. \A k \in DOMAIN st.tools : OpenCall(d.items[st.tools[k].index], st.tools[k])
    <3> TAKE k \in DOMAIN st.tools
    <3>1. st.tools[k].index \in 0 .. st.count - 1 /\ st.tools[k].index # n
      BY <2>5, <2>9 DEF IndexesTaken, m, n
    <3>2. OpenCall(c.items[st.tools[k].index], st.tools[k])
      BY <2>3 DEF Agrees
    <3> QED
      BY <2>12, <2>14, <3>1, <3>2 DEF Altered
  <2>20. Agrees(d, u)
    <3>1. d.status = "in_progress" /\ d.output = <<>> /\ DOMAIN d.items = 0 .. st.count - 1
      BY <2>12, <2>14 DEF Altered
    <3> QED
      BY <2>1, <2>7, <2>8, <2>15, <2>16, <2>17, <2>18, <2>19, <3>1 DEF Agrees
  <2>21. Script(a, open.out \o <<e>>, d)
    BY <2>3, <2>14, OneEvent
  <2>22. q.s = u /\ q.out = open.out \o <<e>> /\ q = [s |-> q.s, out |-> q.out]
    BY <2>4
  <2>31. Good(a, q) /\ q.s.started
    BY <2>1, <2>8, <2>20, <2>21, <2>22 DEF Good
  <2>32. Untouched(r.s, q.s)
    BY <2>8, <2>22, <2>30 DEF Untouched
  <2>33. /\ q.s.message # None
         /\ q.s.message.text = (IF r.s.message = None THEN <<>> ELSE r.s.message.text) \o delta
    BY <2>7, <2>8, <2>9, <2>22, <2>30
  <2> QED
    BY <1>2, <2>31, <2>32, <2>33 DEF q
<1> QED
  BY <1>1, <1>2

(* A tool is replaced, and its item with it.                                 *)
Replaces(c, st, k, tool, d, u) ==
  /\ Agrees(c, st) /\ st.started /\ k \in DOMAIN st.tools
  /\ tool \in ToolType /\ tool.index = st.tools[k].index
  /\ d \in Clients /\ Altered(c, d, tool.index) /\ OpenCall(d.items[tool.index], tool)
  /\ u = SetTools(st, [st.tools EXCEPT ![k] = tool])

LEMMA ToolReplaced ==
  ASSUME NEW c, NEW st, NEW k, NEW tool, NEW d, NEW u, Replaces(c, st, k, tool, d, u)
  PROVE  /\ Agrees(d, u) /\ u.started /\ DOMAIN u.tools = DOMAIN st.tools /\ u.tools[k] = tool
         /\ \A j \in DOMAIN st.tools : j # k => u.tools[j] = st.tools[j]
         /\ u.message = st.message /\ u.finish = st.finish /\ u.drawn = st.drawn
<1> DEFINE ts == [st.tools EXCEPT ![k] = tool]
           n == tool.index
<1>1. /\ StateType(st) /\ IndexesTaken(st) /\ c \in Clients
      /\ c.status = "in_progress" /\ c.output = <<>> /\ DOMAIN c.items = 0 .. st.count - 1
      /\ st.message # None => c.items[st.message.index] = MessageItem(st.message, st.message.text, "part")
      /\ \A j \in DOMAIN st.tools : OpenCall(c.items[st.tools[j].index], st.tools[j])
  BY DEF Agrees, Replaces
<1>0. /\ st.started /\ k \in DOMAIN st.tools /\ tool \in ToolType /\ tool.index = st.tools[k].index
      /\ d \in Clients /\ Altered(c, d, tool.index) /\ OpenCall(d.items[tool.index], tool)
  BY DEF Replaces
<1>2. /\ DOMAIN ts = DOMAIN st.tools /\ ts[k] = tool
      /\ ts \in [DOMAIN st.tools -> ToolType]
      /\ \A j \in DOMAIN st.tools : j # k => ts[j] = st.tools[j]
      /\ \A j \in DOMAIN st.tools : ts[j].index = st.tools[j].index
  BY <1>0, <1>1 DEF StateType
<1>3. u = SetTools(st, ts)
  BY DEF Replaces
<1> HIDE DEF ts
<1>4. u = StateOf(st.started, st.message, ts, st.count, st.finish, st.drawn)
  BY <1>1, <1>3, StateFields DEF StateType
<1>5. /\ u.started = st.started /\ u.message = st.message /\ u.tools = ts /\ u.count = st.count
      /\ u.finish = st.finish /\ u.drawn = st.drawn /\ Shaped(u)
  BY <1>4, StateOfShaped
<1>6. StateType(u)
  BY <1>0, <1>1, <1>2, <1>5 DEF StateType
<1>7. IndexesTaken(u)
  BY <1>0, <1>1, <1>2, <1>5 DEF IndexesTaken
<1>8. n \in 0 .. st.count - 1
  BY <1>0, <1>1 DEF IndexesTaken
<1>9. /\ d.status = "in_progress" /\ d.output = <<>> /\ DOMAIN d.items = 0 .. st.count - 1
      /\ \A j \in 0 .. st.count - 1 : j # n => d.items[j] = c.items[j]
  BY <1>0, <1>1, <1>8 DEF Altered
<1>10. st.message # None => d.items[st.message.index] = MessageItem(st.message, st.message.text, "part")
  <2> SUFFICES ASSUME st.message # None
               PROVE  d.items[st.message.index] = MessageItem(st.message, st.message.text, "part")
    OBVIOUS
  <2>1. st.message.index \in 0 .. st.count - 1 /\ st.message.index # n
    BY <1>0, <1>1 DEF IndexesTaken
  <2> QED
    BY <1>1, <1>9, <2>1
<1>11. \A j \in DOMAIN st.tools : OpenCall(d.items[ts[j].index], ts[j])
  <2> TAKE j \in DOMAIN st.tools
  <2>1. CASE j = k
    BY <1>0, <1>2, <2>1
  <2>2. CASE j # k
    <3>1. st.tools[j].index \in 0 .. st.count - 1 /\ st.tools[j].index # n
      BY <1>0, <1>1, <2>2 DEF IndexesTaken
    <3> QED
      BY <1>0, <1>1, <1>2, <1>9, <2>2, <3>1
  <2> QED
    BY <2>1, <2>2
<1> QED
  BY <1>0, <1>1, <1>2, <1>5, <1>6, <1>7, <1>9, <1>10, <1>11 DEF Agrees

(* A tool is added, and its item with it.                                    *)
Adds(c, st, k, tool, d, drawn, u) ==
  /\ Agrees(c, st) /\ k \in Int /\ k \notin DOMAIN st.tools /\ st.started
  /\ tool \in ToolType /\ tool.index = st.count
  /\ d \in Clients /\ d.status = "in_progress" /\ d.output = c.output
  /\ DOMAIN d.items = 0 .. st.count /\ OpenCall(d.items[st.count], tool)
  /\ \A i \in 0 .. st.count - 1 : d.items[i] = c.items[i]
  /\ drawn \in Nat \ {0}
  /\ u = StateOf(st.started, st.message, With(st.tools, k, tool), st.count + 1, st.finish, drawn)

LEMMA ToolAdded ==
  ASSUME NEW c, NEW st, NEW k, NEW tool, NEW d, NEW drawn, NEW u, Adds(c, st, k, tool, d, drawn, u)
  PROVE  /\ Agrees(d, u) /\ u.started /\ DOMAIN u.tools = DOMAIN st.tools \cup {k} /\ u.tools[k] = tool
         /\ \A j \in DOMAIN st.tools : u.tools[j] = st.tools[j]
         /\ u.message = st.message /\ u.finish = st.finish /\ u.drawn = drawn
<1> DEFINE ts == With(st.tools, k, tool)
           n == st.count
<1>1. /\ StateType(st) /\ IndexesTaken(st) /\ c \in Clients
      /\ c.status = "in_progress" /\ c.output = <<>> /\ DOMAIN c.items = 0 .. n - 1
      /\ st.message # None => c.items[st.message.index] = MessageItem(st.message, st.message.text, "part")
      /\ \A j \in DOMAIN st.tools : OpenCall(c.items[st.tools[j].index], st.tools[j])
  BY DEF Agrees, Adds
<1>0. /\ k \in Int /\ k \notin DOMAIN st.tools /\ st.started
      /\ tool \in ToolType /\ tool.index = n
      /\ d \in Clients /\ d.status = "in_progress" /\ d.output = <<>>
      /\ DOMAIN d.items = 0 .. n /\ OpenCall(d.items[n], tool)
      /\ \A i \in 0 .. n - 1 : d.items[i] = c.items[i]
      /\ drawn \in Nat \ {0}
  BY <1>1 DEF Adds
<1>2. /\ DOMAIN ts = DOMAIN st.tools \cup {k} /\ ts[k] = tool
      /\ \A j \in DOMAIN st.tools : ts[j] = st.tools[j]
      /\ ts \in [DOMAIN ts -> ToolType] /\ DOMAIN ts \in SUBSET Int
  BY <1>0, <1>1 DEF StateType, With
<1>3. u = StateOf(st.started, st.message, ts, n + 1, st.finish, drawn)
  BY DEF Adds
<1>4. n \in Nat
  BY <1>1 DEF StateType
<1> HIDE DEF ts
<1>5. /\ u.started = st.started /\ u.message = st.message /\ u.tools = ts /\ u.count = n + 1
      /\ u.finish = st.finish /\ u.drawn = drawn /\ Shaped(u)
  BY <1>3, StateOfShaped
<1>6. IsFiniteSet(DOMAIN ts)
  BY <1>0, <1>1, <1>2, FS_AddElement DEF StateType
<1>7. StateType(u)
  <2>1. n + 1 \in Nat
    BY <1>4
  <2> HIDE DEF n
  <2> QED
    BY <1>0, <1>1, <1>2, <1>5, <1>6, <2>1 DEF StateType
<1>8. u.count - 1 = n /\ (\A i \in 0 .. n - 1 : i \in 0 .. n /\ i # n)
      /\ (\A i \in 0 .. n : i = n \/ i \in 0 .. n - 1) /\ n \in 0 .. n
  <2>1. (n + 1) - 1 = n
    BY <1>4
  <2>2. u.count - 1 = n
    BY <1>5, <2>1
  <2> HIDE DEF n
  <2> QED
    BY <1>4, <2>2
<1> HIDE DEF n
<1>9. /\ st.message # None => st.message.index \in 0 .. n - 1
      /\ \A j \in DOMAIN st.tools : st.tools[j].index \in 0 .. n - 1
  BY <1>1 DEF IndexesTaken, n
<1>10. IndexesTaken(u)
  <2>1. u.message # None => u.message.index \in 0 .. n
    BY <1>5, <1>8, <1>9
  <2>2. ASSUME NEW i \in DOMAIN ts
        PROVE  /\ ts[i].index \in 0 .. n
               /\ st.message # None => ts[i].index # st.message.index
               /\ \A j \in DOMAIN ts : ts[j].index = ts[i].index => j = i
    <3>1. tool.index = n
      BY <1>0
    <3>2. CASE i = k
      BY <1>0, <1>2, <1>8, <1>9, <3>1, <3>2
    <3>3. CASE i # k
      BY <1>0, <1>1, <1>2, <1>8, <1>9, <3>1, <3>3 DEF IndexesTaken
    <3> QED
      BY <3>2, <3>3
  <2>3. ASSUME NEW i \in 0 .. n
        PROVE  \/ st.message # None /\ st.message.index = i
               \/ \E j \in DOMAIN ts : ts[j].index = i
    <3>1. CASE i = n
      BY <1>0, <1>2, <3>1
    <3>2. CASE i # n
      <4>1. i \in 0 .. st.count - 1
        BY <1>8, <3>2 DEF n
      <4> QED
        BY <1>0, <1>1, <1>2, <4>1 DEF IndexesTaken
    <3> QED
      BY <3>1, <3>2
  <2>4. /\ u.message # None => u.message.index \in 0 .. u.count - 1
        /\ \A i \in DOMAIN u.tools :
             /\ u.tools[i].index \in 0 .. u.count - 1
             /\ u.message # None => u.tools[i].index # u.message.index
             /\ \A j \in DOMAIN u.tools : u.tools[j].index = u.tools[i].index => j = i
    BY <1>5, <1>8, <2>1, <2>2
  <2>5. \A i \in 0 .. u.count - 1 :
          \/ u.message # None /\ u.message.index = i
          \/ \E j \in DOMAIN u.tools : u.tools[j].index = i
    BY <1>5, <1>8, <2>3
  <2> QED
    BY <2>4, <2>5 DEF IndexesTaken
<1>11. st.message # None => d.items[st.message.index] = MessageItem(st.message, st.message.text, "part")
  BY <1>0, <1>1, <1>9 DEF n
<1>12. \A j \in DOMAIN ts : OpenCall(d.items[ts[j].index], ts[j])
  <2> TAKE j \in DOMAIN ts
  <2>1. CASE j = k
    BY <1>0, <1>2, <2>1
  <2>2. CASE j # k
    BY <1>0, <1>1, <1>2, <1>9, <2>2 DEF n
  <2> QED
    BY <2>1, <2>2
<1> QED
  BY <1>0, <1>1, <1>2, <1>5, <1>7, <1>8, <1>10, <1>11, <1>12 DEF Agrees, n

ToolOf(id, call, name, arguments, index) ==
  [id |-> id, call |-> call, name |-> name, arguments |-> arguments, index |-> index]

LEMMA ToolShape ==
  ASSUME NEW t \in ToolType
  PROVE  /\ t = ToolOf(t.id, t.call, t.name, t.arguments, t.index)
         /\ t.id \in Nat /\ t.call \in Nat /\ t.name \in Seq(Tokens) /\ t.arguments \in Seq(Tokens)
         /\ t.index \in Nat
BY DEF ToolType, ToolOf

LEMMA ToolRenamed ==
  ASSUME NEW t \in ToolType, NEW v, NEW w
  PROVE  [t EXCEPT !.call = v, !.name = w] = ToolOf(t.id, v, w, t.arguments, t.index)
<1>1. ASSUME NEW a, NEW b, NEW c, NEW d, NEW e, t = ToolOf(a, b, c, d, e)
      PROVE  [t EXCEPT !.call = v] = ToolOf(a, v, c, d, e)
  BY <1>1 DEF ToolOf
<1> DEFINE u == [t EXCEPT !.call = v]
<1>2. u = ToolOf(t.id, v, t.name, t.arguments, t.index)
  BY <1>1, ToolShape
<1>3. [u EXCEPT !.name = w] = ToolOf(t.id, v, w, t.arguments, t.index)
  <2> HIDE DEF u
  <2>1. ASSUME NEW a, NEW b, NEW c, NEW d, NEW e, u = ToolOf(a, b, c, d, e)
        PROVE  [u EXCEPT !.name = w] = ToolOf(a, b, w, d, e)
    BY <2>1 DEF ToolOf
  <2> QED
    BY <1>2, <2>1
<1> QED
  BY <1>3

LEMMA ToolExtended ==
  ASSUME NEW t \in ToolType, NEW v
  PROVE  [t EXCEPT !.arguments = v] = ToolOf(t.id, t.call, t.name, v, t.index)
<1>1. ASSUME NEW a, NEW b, NEW c, NEW d, NEW e, t = ToolOf(a, b, c, d, e)
      PROVE  [t EXCEPT !.arguments = v] = ToolOf(a, b, c, v, e)
  BY <1>1 DEF ToolOf
<1>2. t = ToolOf(t.id, t.call, t.name, t.arguments, t.index)
  BY ToolShape
<1> QED
  BY <1>1, <1>2

(* The converter's result r with the tool k replaced.                        *)
Pair(r) == r = [s |-> r.s, out |-> r.out]

LEMMA ResultReplaced ==
  ASSUME NEW r, NEW k, NEW tool, Pair(r), Shaped(r.s)
  PROVE  [r EXCEPT !.s.tools[k] = tool]
         = [s |-> SetTools(r.s, [r.s.tools EXCEPT ![k] = tool]), out |-> r.out]
<1> DEFINE st == r.s
           u == SetTools(st, [st.tools EXCEPT ![k] = tool])
<1>1. [r EXCEPT !.s.tools[k] = tool] = [r EXCEPT !.s = u]
  BY DEF SetTools
<1> HIDE DEF u
<1>2. [r EXCEPT !.s = u] = [s |-> u, out |-> r.out]
  BY DEF Pair
<1> QED
  BY <1>1, <1>2 DEF u

(* The delta d took the state st to u: of the tools, it changed its own.     *)
Called(st, u, d) ==
  /\ u.message = st.message /\ u.finish = st.finish /\ u.drawn >= st.drawn
  /\ DOMAIN u.tools = DOMAIN st.tools \cup {d.index}
  /\ \A j \in DOMAIN st.tools : j # d.index => u.tools[j] = st.tools[j]

(* The call and the name of a tool after the delta d, its arguments before.  *)
Named(st, tool, d) ==
  IF d.index \in DOMAIN st.tools
  THEN /\ tool.call = IF d.call # 0 THEN d.call ELSE st.tools[d.index].call
       /\ tool.name = st.tools[d.index].name \o d.name
  ELSE /\ tool.call = IF d.call = 0 THEN st.drawn ELSE d.call
       /\ tool.name = d.name

ArgumentsIn(st, k) == IF k \in DOMAIN st.tools THEN st.tools[k].arguments ELSE <<>>

LEMMA OpenToolGood ==
  ASSUME NEW a, NEW r, Good(a, r), r.s.started, NEW delta \in Deltas
  PROVE  LET u == OpenTool(r, delta).s
         IN  /\ Good(a, OpenTool(r, delta)) /\ u.started /\ Called(r.s, u, delta)
             /\ Named(r.s, u.tools[delta.index], delta)
             /\ u.tools[delta.index].arguments = ArgumentsIn(r.s, delta.index)
<1> DEFINE st == r.s
           k == delta.index
           q == OpenTool(r, delta)
<1>1. PICK c : Script(a, r.out, c) /\ Agrees(c, st)
  BY DEF Good
<1>2. StateType(st) /\ st.started /\ Shaped(st)
  BY <1>1 DEF Agrees, StateType
<1>3. r = [s |-> r.s, out |-> r.out]
  BY DEF Good
<1>4. /\ k \in Int /\ delta.call \in Nat /\ delta.name \in Seq(Tokens) /\ delta.arguments \in Seq(Tokens)
  BY DEF Deltas
<1>5. CASE k \in DOMAIN st.tools
  <2> DEFINE tool == st.tools[k]
             v == IF delta.call # 0 THEN delta.call ELSE tool.call
             w == tool.name \o delta.name
             new == [tool EXCEPT !.call = v, !.name = w]
             u == SetTools(st, [st.tools EXCEPT ![k] = new])
  <2>1. q = [r EXCEPT !.s.tools[k] = new]
    BY <1>5 DEF OpenTool
  <2> HIDE DEF new, q
  <2>2. q = [s |-> u, out |-> r.out]
    <3>1. Pair(r)
      BY <1>3 DEF Pair
    <3> QED
      BY <1>2, <2>1, <3>1, ResultReplaced
  <2> HIDE DEF st
  <2>3. tool \in ToolType
    BY <1>2, <1>5 DEF StateType
  <2>4. tool.name \in Seq(Tokens) /\ tool.call \in Nat
    BY <2>3, ToolShape
  <2> HIDE DEF tool
  <2>5. v \in Nat /\ w \in Seq(Tokens)
    BY <1>4, <2>4, ConcatProperties
  <2> HIDE DEF v, w
  <2>6. new = ToolOf(tool.id, v, w, tool.arguments, tool.index)
    BY <2>3, ToolRenamed DEF new
  <2>7. /\ new \in ToolType /\ new.index = tool.index /\ new.id = tool.id
        /\ new.arguments = tool.arguments /\ new.call = v /\ new.name = w
    <3>1. tool.id \in Nat /\ tool.arguments \in Seq(Tokens) /\ tool.index \in Nat
      BY <2>3, ToolShape
    <3>2. LET x == ToolOf(tool.id, v, w, tool.arguments, tool.index)
          IN  /\ x \in ToolType /\ x.id = tool.id /\ x.index = tool.index
              /\ x.arguments = tool.arguments /\ x.call = v /\ x.name = w
      BY <2>5, <3>1 DEF ToolOf, ToolType
    <3> QED
      BY <2>6, <3>2
  <2>8. /\ c \in Clients /\ c.status = "in_progress" /\ OpenCall(c.items[tool.index], tool)
        /\ tool.index \in 0 .. st.count - 1
    BY <1>1, <1>2, <1>5 DEF Agrees, IndexesTaken, tool
  <2>9. Altered(c, c, new.index)
    BY <2>8 DEF Altered
  <2>10. OpenCall(c.items[new.index], new)
    BY <2>7, <2>8 DEF OpenCall
  <2>11. Replaces(c, st, k, new, c, u)
    BY <1>1, <1>2, <1>5, <2>7, <2>8, <2>9, <2>10 DEF Replaces, tool
  <2> HIDE DEF u
  <2>12. /\ Agrees(c, u) /\ u.started /\ DOMAIN u.tools = DOMAIN st.tools /\ u.tools[k] = new
         /\ \A j \in DOMAIN st.tools : j # k => u.tools[j] = st.tools[j]
         /\ u.message = st.message /\ u.finish = st.finish /\ u.drawn = st.drawn
    BY <2>11, ToolReplaced
  <2>13. q.s = u /\ q.out = r.out /\ q = [s |-> q.s, out |-> q.out]
    BY <2>2
  <2>14. Good(a, q) /\ q.s.started
    BY <1>1, <2>12, <2>13 DEF Good
  <2>15. Called(st, q.s, delta)
    BY <1>2, <1>5, <2>12, <2>13 DEF Called, StateType, st
  <2>16. Named(st, q.s.tools[k], delta) /\ q.s.tools[k].arguments = ArgumentsIn(st, k)
    BY <1>5, <2>7, <2>12, <2>13, Zenon DEF Named, ArgumentsIn, tool, st, v, w
  <2> QED
    BY <2>14, <2>15, <2>16 DEF q, st
<1>6. CASE k \notin DOMAIN st.tools
  <2> DEFINE drawn == st.drawn + (IF delta.call = 0 THEN 1 ELSE 0)
             n == st.count
             call == IF delta.call = 0 THEN st.drawn ELSE delta.call
             tool == ToolOf(drawn, call, delta.name, <<>>, n)
             item == CallItem(tool, <<>>, "added")
             e == [type |-> "item_added", index |-> tool.index, item |-> item]
             d == Replay(c, e)
             u == [st EXCEPT !.tools = With(@, k, tool), !.count = @ + 1, !.drawn = drawn + 1]
  <2>1. q = [s |-> u, out |-> Append(r.out, e)]
    BY <1>6 DEF OpenTool, ToolOf
  <2>2. Agrees(c, st)
    BY <1>1
  <2> HIDE DEF st, q
  <2>3. st.drawn \in Nat \ {0} /\ n \in Nat
    BY <1>2 DEF StateType
  <2>4. drawn \in Nat /\ drawn + 1 \in Nat \ {0} /\ call \in Nat
    BY <1>4, <2>3
  <2>5. u = StateOf(st.started, st.message, With(st.tools, k, tool), n + 1, st.finish, drawn + 1)
    <3> DEFINE ts == With(st.tools, k, tool)
               s1 == SetTools(st, ts)
               s2 == SetCount(s1, n + 1)
               s3 == SetDrawn(s2, drawn + 1)
    <3>1. u = s3
      BY DEF SetTools, SetCount, SetDrawn
    <3> HIDE DEF ts, drawn, n, u, s3
    <3>2. s1 = StateOf(st.started, st.message, ts, st.count, st.finish, st.drawn)
      BY <1>2, StateFields
    <3> HIDE DEF s1
    <3>3. s2 = StateOf(st.started, st.message, ts, n + 1, st.finish, st.drawn)
      BY <3>2, StateOfShaped, StateFields
    <3> HIDE DEF s2
    <3>4. s3 = StateOf(st.started, st.message, ts, n + 1, st.finish, drawn + 1)
      BY <3>3, StateOfShaped, StateFields DEF s3
    <3> QED
      BY <3>1, <3>4 DEF ts
  <2> HIDE DEF drawn, call, u
  <2>6. /\ tool \in ToolType /\ tool.index = n /\ tool.id = drawn /\ tool.arguments = <<>>
        /\ tool.call = call /\ tool.name = delta.name
    <3>1. <<>> \in Seq(Tokens)
      BY EmptySeq
    <3> HIDE DEF n
    <3>2. LET x == ToolOf(drawn, call, delta.name, <<>>, n)
          IN  /\ x \in ToolType /\ x.id = drawn /\ x.index = n /\ x.arguments = <<>>
              /\ x.call = call /\ x.name = delta.name
      BY <1>4, <2>3, <2>4, <3>1 DEF ToolOf, ToolType, n
    <3> QED
      BY <3>2
  <2> HIDE DEF tool, n
  <2>7. /\ item \in Items /\ item.stage = "added" /\ item.content = <<>>
        /\ OpenCall(item, tool)
    <3>1. <<>> \in Seq(Tokens) /\ "added" \in Stages
      BY EmptySeq DEF Stages
    <3>2. item \in Items
      BY <2>6, <3>1, CallItemType
    <3> QED
      BY <2>6, <3>2 DEF CallItem, OpenCall
  <2> HIDE DEF item
  <2>8. e.type = "item_added" /\ e.index = n /\ e.item = item
    BY <2>6
  <2>9. d = Replay(c, e)
    OBVIOUS
  <2> HIDE DEF e, d
  <2>10. c \in Clients /\ c.status = "in_progress" /\ DOMAIN c.items = 0 .. n - 1
    BY <1>2, <2>2 DEF Agrees, n
  <2>11. /\ Legal(c, e, d)
         /\ d.status = "in_progress" /\ d.output = c.output
         /\ DOMAIN d.items = 0 .. n /\ d.items[n] = item
         /\ \A i \in 0 .. n - 1 : d.items[i] = c.items[i]
    BY <2>3, <2>7, <2>8, <2>9, <2>10, Opening
  <2>12. d \in Clients
    BY <2>11 DEF Legal
  <2>13. Adds(c, st, k, tool, d, drawn + 1, u)
    BY <1>2, <1>4, <1>6, <2>2, <2>4, <2>5, <2>6, <2>7, <2>11, <2>12 DEF Adds, n
  <2>14. /\ Agrees(d, u) /\ u.started /\ DOMAIN u.tools = DOMAIN st.tools \cup {k} /\ u.tools[k] = tool
         /\ \A j \in DOMAIN st.tools : u.tools[j] = st.tools[j]
         /\ u.message = st.message /\ u.finish = st.finish /\ u.drawn = drawn + 1
    BY <2>13, ToolAdded
  <2>15. Script(a, Append(r.out, e), d)
    BY <1>1, <2>11, OneMoreEvent
  <2>16. q.s = u /\ q.out = Append(r.out, e) /\ q = [s |-> q.s, out |-> q.out]
    BY <2>1
  <2>17. Good(a, q) /\ q.s.started
    BY <2>14, <2>15, <2>16 DEF Good
  <2>18. drawn + 1 >= st.drawn
    BY <2>3 DEF drawn
  <2>19. Called(st, q.s, delta)
    BY <2>14, <2>16, <2>18 DEF Called
  <2>20. Named(st, q.s.tools[k], delta) /\ q.s.tools[k].arguments = ArgumentsIn(st, k)
    BY <1>6, <2>6, <2>14, <2>16 DEF Named, ArgumentsIn, st, call
  <2> QED
    BY <2>17, <2>19, <2>20 DEF q, st
<1> QED
  BY <1>5, <1>6

LEMMA AddToolCallGood ==
  ASSUME NEW a, NEW r, Good(a, r), r.s.started, NEW delta \in Deltas
  PROVE  LET u == AddToolCall(r, delta).s
         IN  /\ Good(a, AddToolCall(r, delta)) /\ u.started /\ Called(r.s, u, delta)
             /\ Named(r.s, u.tools[delta.index], delta)
             /\ u.tools[delta.index].arguments = ArgumentsIn(r.s, delta.index) \o delta.arguments
<1> DEFINE open == OpenTool(r, delta)
           st == open.s
           k == delta.index
           tool == st.tools[k]
           q == AddToolCall(r, delta)
           args == delta.arguments
<1>1. Good(a, open) /\ st.started /\ k \in DOMAIN st.tools
  BY OpenToolGood DEF Called
<1>4. /\ Called(r.s, st, delta) /\ Named(r.s, tool, delta)
      /\ tool.arguments = ArgumentsIn(r.s, k)
  BY OpenToolGood
<1>2. CASE args = <<>>
  <2>1. q = open
    BY <1>2 DEF AddToolCall
  <2>2. tool.arguments \in Seq(Tokens)
    <3>1. PICK c : Agrees(c, st)
      BY <1>1 DEF Good
    <3>2. tool \in ToolType
      BY <1>1, <3>1 DEF Agrees, StateType
    <3> QED
      BY <3>2, ToolShape
  <2>3. tool.arguments \o <<>> = tool.arguments
    BY <2>2, ConcatEmptySeq
  <2> QED
    BY <1>1, <1>2, <1>4, <2>1, <2>3
<1>3. CASE args # <<>>
  <2> DEFINE e == [type |-> "delta", index |-> tool.index, id |-> tool.id, content |-> args]
             new == [tool EXCEPT !.arguments = @ \o args]
             u == SetTools(st, [st.tools EXCEPT ![k] = new])
  <2>1. q = Emit([open EXCEPT !.s.tools[k].arguments = @ \o args], <<e>>)
    BY <1>3 DEF AddToolCall
  <2> HIDE DEF open
  <2>2. PICK c : Script(a, open.out, c) /\ Agrees(c, st)
    BY <1>1 DEF Good
  <2>3. StateType(st) /\ Shaped(st) /\ open = [s |-> open.s, out |-> open.out]
    BY <1>1, <2>2 DEF Agrees, StateType, Good
  <2>4. [open EXCEPT !.s.tools[k].arguments = @ \o args] = [open EXCEPT !.s.tools[k] = new]
    OBVIOUS
  <2> HIDE DEF new, e
  <2>5. [open EXCEPT !.s.tools[k] = new] = [s |-> u, out |-> open.out]
    <3>1. Pair(open) /\ Shaped(open.s)
      BY <2>3 DEF Pair
    <3> HIDE DEF k
    <3> QED
      BY <3>1, ResultReplaced
  <2> HIDE DEF u, q
  <2>6. q = [s |-> u, out |-> open.out \o <<e>>]
    BY <2>1, <2>4, <2>5 DEF Emit
  <2> HIDE DEF st
  <2>7. tool \in ToolType
    BY <1>1, <2>3 DEF StateType
  <2>8. args \in Seq(Tokens)
    BY DEF Deltas
  <2>9. /\ e.type = "delta" /\ e.index = tool.index /\ e.id = tool.id /\ e.content = args
    BY DEF e
  <2>10. /\ c \in Clients /\ c.status = "in_progress" /\ OpenCall(c.items[tool.index], tool)
         /\ tool.index \in DOMAIN c.items
    BY <1>1, <2>2 DEF Agrees, IndexesTaken
  <2> HIDE DEF tool, args
  <2>11. tool.arguments \in Seq(Tokens) /\ tool.arguments \o args \in Seq(Tokens)
    BY <2>7, <2>8, ToolShape, ConcatProperties
  <2>12. new = ToolOf(tool.id, tool.call, tool.name, tool.arguments \o args, tool.index)
    BY <2>7, ToolExtended DEF new
  <2>13. /\ new \in ToolType /\ new.index = tool.index /\ new.id = tool.id
         /\ new.arguments = tool.arguments \o args /\ new.call = tool.call /\ new.name = tool.name
    <3>1. /\ tool.id \in Nat /\ tool.call \in Nat /\ tool.name \in Seq(Tokens) /\ tool.index \in Nat
      BY <2>7, ToolShape
    <3> DEFINE v == tool.arguments \o args
    <3> HIDE DEF v
    <3>2. LET x == ToolOf(tool.id, tool.call, tool.name, v, tool.index)
          IN  /\ x \in ToolType /\ x.id = tool.id /\ x.index = tool.index /\ x.arguments = v
              /\ x.call = tool.call /\ x.name = tool.name
      BY <2>11, <3>1 DEF ToolOf, ToolType, v
    <3> QED
      BY <2>12, <3>2 DEF v
  <2>14. Growing(c.items[e.index]) /\ e.id = c.items[e.index].id
    BY <2>9, <2>10 DEF Growing, OpenCall
  <2> DEFINE d == Replay(c, e)
  <2>15. /\ Legal(c, e, d) /\ Altered(c, d, e.index)
         /\ d.items[e.index] = Longer(c.items[e.index], e.content)
    BY <1>3, <2>8, <2>9, <2>10, <2>14, Extending
  <2>16. d \in Clients
    BY <2>15 DEF Legal
  <2> HIDE DEF d
  <2>17. OpenCall(d.items[tool.index], new)
    <3>1. c.items[tool.index] \in Items
      BY <2>10, ClientShape
    <3> DEFINE x == c.items[tool.index]
    <3>2. Longer(x, args) = [id |-> x.id, kind |-> x.kind, call |-> x.call, name |-> x.name,
                             content |-> x.content \o args, stage |-> x.stage]
      BY <3>1, ItemLengthened
    <3>3. OpenCall(x, tool) /\ d.items[tool.index] = Longer(x, args)
      BY <2>9, <2>10, <2>15
    <3> HIDE DEF x
    <3> DEFINE y == Longer(x, args)
    <3>4. y.id = x.id /\ y.kind = x.kind /\ y.content = x.content \o args /\ y.stage = x.stage
      BY <3>2
    <3> HIDE DEF y
    <3>5. d.items[tool.index] = y
      BY <3>3 DEF y
    <3>6. x.id = tool.id /\ x.kind = "function_call" /\ x.content = tool.arguments /\ x.stage = "added"
      BY <3>3, Zenon DEF OpenCall
    <3> QED
      BY <2>13, <3>4, <3>5, <3>6 DEF OpenCall
  <2>18. Replaces(c, st, k, new, d, u)
    BY <1>1, <2>2, <2>9, <2>13, <2>15, <2>16, <2>17 DEF Replaces, tool, u
  <2>19. /\ Agrees(d, u) /\ u.started /\ DOMAIN u.tools = DOMAIN st.tools /\ u.tools[k] = new
         /\ \A j \in DOMAIN st.tools : j # k => u.tools[j] = st.tools[j]
         /\ u.message = st.message /\ u.finish = st.finish /\ u.drawn = st.drawn
    BY <2>18, ToolReplaced
  <2>20. Script(a, open.out \o <<e>>, d)
    BY <2>2, <2>15, OneEvent
  <2>21. q.s = u /\ q.out = open.out \o <<e>> /\ q = [s |-> q.s, out |-> q.out]
    BY <2>6
  <2>22. Good(a, q) /\ q.s.started
    BY <2>19, <2>20, <2>21 DEF Good
  <2>23. Called(r.s, q.s, delta)
    BY <1>4, <2>19, <2>21 DEF Called, st
  <2>24. Named(r.s, q.s.tools[k], delta) /\ q.s.tools[k].arguments = ArgumentsIn(r.s, k) \o args
    BY <1>4, <2>13, <2>19, <2>21, Zenon DEF Named, tool, st
  <2> QED
    BY <2>22, <2>23, <2>24 DEF q, args
<1> QED
  BY <1>2, <1>3

(* A chunk is consumed: every call it holds is added in turn.                *)
LEMMA ConsumeGood ==
  ASSUME NEW a, Agrees(a, s), NEW chunk \in Chunks
  PROVE  Good(a, Consume(chunk)) /\ Consume(chunk).s.started
<1> DEFINE fresh == [s |-> s, out |-> <<>>]
           begun == Start(fresh)
           told == IF chunk.finish = Blank THEN begun ELSE [begun EXCEPT !.s.finish = chunk.finish]
           first == AddText(told, chunk.text)
           cs == chunk.calls
<1>1. chunk.text \in Seq(Tokens) /\ cs \in Seq(Deltas) /\ chunk.finish \in STRING
  BY StreamConstants
<1>2. Good(a, fresh)
  BY NothingEmitted
<1>3. Consume(chunk) = FoldLeft(AddToolCall, first, cs)
  BY DEF Consume
<1> HIDE DEF fresh
<1>4. Good(a, begun) /\ begun.s.started
  BY <1>2, StartGood
<1> HIDE DEF begun
<1>5. Good(a, told) /\ told.s.started
  BY <1>1, <1>4, Telling
<1> HIDE DEF told
<1>6. Good(a, first) /\ first.s.started
  BY <1>1, <1>5, AddTextGood
<1> HIDE DEF first, cs
<1>7. PICK g : FoldOf(cs, first, g) /\ FoldLeft(AddToolCall, first, cs) = g[Len(cs)]
  BY <1>1, FoldOfCalls
<1> DEFINE n == Len(cs)
           T == {k \in 0 .. n : Good(a, g[k]) /\ g[k].s.started}
<1>8. n \in Nat
  BY <1>1, LenProperties
<1>9. 0 \in T
  BY <1>6, <1>7, <1>8 DEF FoldOf
<1>10. ASSUME NEW k \in 0 .. n - 1, k \in T PROVE k + 1 \in T
  <2>1. k + 1 \in 1 .. n /\ k + 1 \in 0 .. n /\ (k + 1) - 1 = k
    BY <1>8
  <2>2. cs[k + 1] \in Deltas
    BY <1>1, <2>1, ElementOfSeq
  <2>3. g[k + 1] = AddToolCall(g[k], cs[k + 1])
    BY <1>7, <2>1 DEF FoldOf
  <2>4. Good(a, g[k]) /\ g[k].s.started
    BY <1>10
  <2>5. LET q == AddToolCall(g[k], cs[k + 1]) IN Good(a, q) /\ q.s.started
    BY <2>2, <2>4, AddToolCallGood
  <2> QED
    BY <2>1, <2>3, <2>5
<1>11. 0 .. n \subseteq T
  <2> HIDE DEF T, n
  <2> QED
    BY <1>8, <1>9, <1>10, Climb
<1>12. n \in T
  BY <1>8, <1>11
<1> QED
  BY <1>3, <1>7, <1>12

-----------------------------------------------------------------------------
(* The end of a stream.                                                      *)

LEMMA LeastInteger ==
  ASSUME NEW S \in SUBSET Int, IsFiniteSet(S), S # {}
  PROVE  \E x \in S : \A y \in S : x <= y
<1> DEFINE Bounded(k) == \A R \in SUBSET Int : IsFiniteSet(R) /\ Cardinality(R) = k /\ R # {} =>
                           \E x \in R : \A y \in R : x <= y
           T == {k \in Nat : Bounded(k)}
<1>0. Cardinality(S) \in Nat
  BY FS_CardinalityType
<1>1. 0 \in T
  BY FS_EmptySet
<1>2. ASSUME NEW k \in 0 .. Cardinality(S) - 1, k \in T PROVE k + 1 \in T
  <2>1. k \in Nat /\ Bounded(k)
    BY <1>2
  <2> SUFFICES ASSUME NEW R \in SUBSET Int, IsFiniteSet(R), Cardinality(R) = k + 1, R # {}
               PROVE  \E x \in R : \A y \in R : x <= y
    BY <2>1
  <2>2. PICK z \in R : TRUE
    OBVIOUS
  <2> DEFINE Q == R \ {z}
  <2>3. Q \in SUBSET Int /\ IsFiniteSet(Q) /\ Cardinality(Q) = k
    <3>1. IsFiniteSet(Q) /\ Cardinality(Q) = Cardinality(R) - 1
      BY <2>1, <2>2, FS_RemoveElement
    <3>2. Q \in SUBSET Int
      OBVIOUS
    <3> QED
      BY <2>1, <3>1, <3>2
  <2>4. CASE Q = {}
    BY <2>2, <2>4
  <2>5. CASE Q # {}
    <3>1. PICK x \in Q : \A y \in Q : x <= y
      BY <2>1, <2>3, <2>5
    <3>2. x \in R /\ x \in Int /\ z \in Int
      BY <2>2, <3>1
    <3>3. \A y \in R : y \in Int /\ (y = z \/ x <= y)
      BY <3>1
    <3>4. CASE x <= z
      BY <3>2, <3>3, <3>4
    <3>5. CASE ~(x <= z)
      <4>1. z <= x
        BY <3>2, <3>5
      <4>2. \A y \in R : z <= y
        BY <3>2, <3>3, <4>1
      <4> QED
        BY <2>2, <4>2
    <3> QED
      BY <3>4, <3>5
  <2> QED
    BY <2>4, <2>5
<1>3. 0 .. Cardinality(S) \subseteq T
  <2> HIDE DEF T
  <2> QED
    BY <1>0, <1>1, <1>2, Climb
<1>4. Bounded(Cardinality(S))
  BY <1>0, <1>3
<1> QED
  BY <1>4

(* A finite set of numbers in increasing order.                              *)
LEMMA AscendingExists ==
  ASSUME NEW m \in Nat
  PROVE  \A S \in SUBSET Int : IsFiniteSet(S) /\ Cardinality(S) = m =>
           \E f \in [1 .. m -> S] : \A i, j \in 1 .. m : i < j => f[i] < f[j]
<1> DEFINE Orders(k) == \A S \in SUBSET Int : IsFiniteSet(S) /\ Cardinality(S) = k =>
                          \E f \in [1 .. k -> S] : \A i, j \in 1 .. k : i < j => f[i] < f[j]
           T == {k \in Nat : Orders(k)}
<1>1. 0 \in T
  <2>1. ASSUME NEW S \in SUBSET Int
        PROVE  \E f \in [1 .. 0 -> S] : \A i, j \in 1 .. 0 : i < j => f[i] < f[j]
    <3> DEFINE f == [i \in 1 .. 0 |-> 0]
    <3>1. 1 .. 0 = {}
      OBVIOUS
    <3>2. f \in [1 .. 0 -> S]
      BY <3>1
    <3> HIDE DEF f
    <3> QED
      BY <3>1, <3>2
  <2> QED
    BY <2>1
<1>2. ASSUME NEW k \in 0 .. m - 1, k \in T PROVE k + 1 \in T
  <2>1. k \in Nat /\ Orders(k)
    BY <1>2
  <2> SUFFICES ASSUME NEW S \in SUBSET Int, IsFiniteSet(S), Cardinality(S) = k + 1
               PROVE  \E f \in [1 .. k + 1 -> S] : \A i, j \in 1 .. k + 1 : i < j => f[i] < f[j]
    BY <2>1
  <2>2. S # {}
    BY <2>1, FS_EmptySet
  <2>3. PICK x \in S : \A y \in S : x <= y
    BY <2>1, <2>2, LeastInteger
  <2> DEFINE R == S \ {x}
  <2>4. R \in SUBSET Int /\ IsFiniteSet(R) /\ Cardinality(R) = k
    <3>1. IsFiniteSet(R) /\ Cardinality(R) = Cardinality(S) - 1
      BY <2>1, <2>3, FS_RemoveElement
    <3>2. R \in SUBSET Int
      OBVIOUS
    <3> QED
      BY <2>1, <3>1, <3>2
  <2>5. PICK g \in [1 .. k -> R] : \A i, j \in 1 .. k : i < j => g[i] < g[j]
    BY <2>1, <2>4
  <2> DEFINE f == [i \in 1 .. k + 1 |-> IF i = 1 THEN x ELSE g[i - 1]]
  <2>6. ASSUME NEW i \in 1 .. k + 1, i # 1
        PROVE  i - 1 \in 1 .. k /\ f[i] = g[i - 1] /\ g[i - 1] \in S /\ x < g[i - 1]
    <3>1. i - 1 \in 1 .. k
      BY <2>1, <2>6
    <3>2. g[i - 1] \in S /\ g[i - 1] # x
      BY <2>5, <3>1
    <3>3. x < g[i - 1]
      <4>1. x \in Int /\ g[i - 1] \in Int /\ x <= g[i - 1]
        BY <2>3, <3>2
      <4> QED
        BY <3>2, <4>1
    <3>4. f[i] = g[i - 1]
      BY <2>6
    <3> QED
      BY <3>1, <3>2, <3>3, <3>4
  <2>7. 1 \in 1 .. k + 1 /\ f[1] = x
    BY <2>1
  <2>8. f \in [1 .. k + 1 -> S]
    BY <2>6, <2>7
  <2> HIDE DEF f
  <2>9. ASSUME NEW i \in 1 .. k + 1, NEW j \in 1 .. k + 1, i < j
        PROVE  f[i] < f[j]
    <3>1. j # 1
      BY <2>1, <2>9
    <3>2. CASE i = 1
      BY <2>6, <2>7, <3>1, <3>2
    <3>3. CASE i # 1
      <4>1. i - 1 < j - 1
        BY <2>1, <2>9
      <4> QED
        BY <2>5, <2>6, <3>1, <3>3, <4>1
    <3> QED
      BY <3>2, <3>3
  <2> QED
    BY <2>8, <2>9
<1>3. 0 .. m \subseteq T
  <2> HIDE DEF T
  <2> QED
    BY <1>1, <1>2, Climb
<1>4. m \in T
  BY <1>3
<1> QED
  BY <1>4

LEMMA AscendingListsAll ==
  ASSUME NEW S \in SUBSET Int, IsFiniteSet(S)
  PROVE  /\ Cardinality(S) \in Nat
         /\ \A i \in 1 .. Cardinality(S) : Ascending(S)[i] \in S
         /\ \A i, j \in 1 .. Cardinality(S) : Ascending(S)[i] = Ascending(S)[j] => i = j
         /\ \A x \in S : \E i \in 1 .. Cardinality(S) : Ascending(S)[i] = x
<1> DEFINE n == Cardinality(S)
           f == Ascending(S)
<1>1. n \in Nat
  BY FS_CardinalityType
<1>2. \E g \in [1 .. n -> S] : \A i, j \in 1 .. n : i < j => g[i] < g[j]
  BY <1>1, AscendingExists
<1>3. f \in [1 .. n -> S] /\ \A i, j \in 1 .. n : i < j => f[i] < f[j]
  BY <1>2 DEF Ascending
<1> HIDE DEF f
<1>4. ASSUME NEW i \in 1 .. n, NEW j \in 1 .. n, f[i] = f[j] PROVE i = j
  <2>1. f[i] \in Int /\ f[j] \in Int
    BY <1>3
  <2>2. ~(i < j) /\ ~(j < i)
    BY <1>3, <1>4, <2>1
  <2> QED
    BY <1>1, <2>2
<1>5. f \in Injection(1 .. n, S)
  BY <1>3, <1>4, Fun_IsInj
<1>6. IsFiniteSet(1 .. n) /\ Cardinality(1 .. n) = n
  BY <1>1, FS_Interval
<1>7. f \in Surjection(1 .. n, S)
  <2> HIDE DEF n
  <2> QED
    BY <1>5, <1>6, FS_Injection DEF n
<1>8. \A x \in S : \E i \in 1 .. n : f[i] = x
  BY <1>7, Zenon DEF Surjection
<1> QED
  BY <1>1, <1>3, <1>4, <1>8 DEF f

(* FlattenSeq joins the sequences one after the other.                       *)
Joins(seqs, g) == g[1] = seqs[1] /\ \A k \in 2 .. Len(seqs) : g[k] = g[k - 1] \o seqs[k]

LEMMA FlattenJoins ==
  ASSUME NEW S, NEW seqs \in Seq(S), seqs # <<>>
  PROVE  \E g : Joins(seqs, g) /\ FlattenSeq(seqs) = g[Len(seqs)]
<1> DEFINE n == Len(seqs)
           Upto(m, g) == g = [k \in 1 .. m |-> IF k = 1 THEN seqs[k] ELSE g[k - 1] \o seqs[k]]
           T == {m \in Nat : \E g : Upto(m, g)}
<1>1. n \in Nat \ {0}
  BY LenProperties, EmptySeq
<1>2. 0 \in T
  <2> DEFINE g == [k \in 1 .. 0 |-> 0]
  <2>1. 1 .. 0 = {}
    OBVIOUS
  <2>2. Upto(0, g)
    BY <2>1
  <2> HIDE DEF g, Upto
  <2> QED
    BY <2>2
<1>3. ASSUME NEW m \in 0 .. n - 1, m \in T PROVE m + 1 \in T
  <2>0. m \in Nat
    BY <1>1
  <2>1. PICK g : Upto(m, g)
    BY <1>3
  <2> DEFINE h == [k \in 1 .. m + 1 |-> IF k = 1 THEN seqs[k] ELSE g[k - 1] \o seqs[k]]
  <2>2. ASSUME NEW k \in 1 .. m PROVE h[k] = g[k]
    <3>1. k \in 1 .. m + 1
      BY <2>0
    <3> QED
      BY <2>1, <3>1
  <2>3. ASSUME NEW k \in 1 .. m + 1
        PROVE  h[k] = IF k = 1 THEN seqs[k] ELSE h[k - 1] \o seqs[k]
    <3>1. CASE k = 1
      BY <3>1
    <3>2. CASE k # 1
      <4>1. k - 1 \in 1 .. m
        BY <2>0, <3>2
      <4>2. h[k - 1] = g[k - 1]
        BY <2>2, <4>1
      <4> QED
        BY <3>2, <4>2
    <3> QED
      BY <3>1, <3>2
  <2>4. h = [k \in 1 .. m + 1 |-> h[k]]
    OBVIOUS
  <2> HIDE DEF h
  <2>5. Upto(m + 1, h)
    BY <2>3, <2>4
  <2> HIDE DEF Upto
  <2> QED
    BY <2>0, <2>5
<1>4. n \in T
  <2> HIDE DEF T, n
  <2>1. 0 .. n \subseteq T
    BY <1>1, <1>2, <1>3, Climb
  <2> QED
    BY <1>1, <2>1
<1>5. PICK u : Upto(n, u)
  BY <1>4
<1> DEFINE flat == CHOOSE g : g = [k \in 1 .. n |-> IF k = 1 THEN seqs[k] ELSE g[k - 1] \o seqs[k]]
<1>6. flat = [k \in 1 .. n |-> IF k = 1 THEN seqs[k] ELSE flat[k - 1] \o seqs[k]]
  BY <1>5, Zenon
<1>7. FlattenSeq(seqs) = flat[n]
  BY <1>1 DEF FlattenSeq
<1> HIDE DEF flat
<1>8. Joins(seqs, flat)
  <2>1. 1 \in 1 .. n /\ \A k \in 2 .. n : k \in 1 .. n /\ k # 1
    BY <1>1
  <2> QED
    BY <1>6, <2>1 DEF Joins
<1> QED
  BY <1>7, <1>8

(* Tools lists every tool once.                                              *)
LEMMA ToolsListed ==
  ASSUME NEW c, Agrees(c, s)
  PROVE  /\ Tools \in Seq(ToolType) /\ DOMAIN Tools = 1 .. Len(Tools) /\ Len(Tools) \in Nat
         /\ \A i \in 1 .. Len(Tools) : \E k \in DOMAIN s.tools : Tools[i] = s.tools[k]
         /\ \A i, j \in 1 .. Len(Tools) : Tools[i].index = Tools[j].index => i = j
         /\ \A k \in DOMAIN s.tools : \E i \in 1 .. Len(Tools) : Tools[i] = s.tools[k]
<1> DEFINE D == DOMAIN s.tools
           n == Cardinality(D)
           f == Ascending(D)
<1>1. D \in SUBSET Int /\ IsFiniteSet(D) /\ s.tools \in [D -> ToolType] /\ IndexesTaken(s)
  BY DEF Agrees, StateType
<1>2. /\ n \in Nat
      /\ \A i \in 1 .. n : f[i] \in D
      /\ \A i, j \in 1 .. n : f[i] = f[j] => i = j
      /\ \A x \in D : \E i \in 1 .. n : f[i] = x
  <2> HIDE DEF D
  <2> QED
    BY <1>1, AscendingListsAll
<1>3. Tools = [i \in 1 .. n |-> s.tools[f[i]]]
  BY DEF Tools
<1> HIDE DEF f, n
<1>4. \A i \in 1 .. n : Tools[i] = s.tools[f[i]] /\ Tools[i] \in ToolType
  BY <1>1, <1>2, <1>3
<1>5. Tools \in Seq(ToolType) /\ Len(Tools) = n /\ DOMAIN Tools = 1 .. n
  <2>1. Tools \in [1 .. n -> ToolType]
    BY <1>3, <1>4
  <2> QED
    BY <1>2, <2>1, SeqDef, LenProperties
<1>6. \A i, j \in 1 .. n : Tools[i].index = Tools[j].index => i = j
  <2> TAKE i, j \in 1 .. n
  <2> HAVE Tools[i].index = Tools[j].index
  <2>1. f[i] \in D /\ f[j] \in D /\ s.tools[f[i]].index = s.tools[f[j]].index
    BY <1>2, <1>4
  <2>2. f[i] = f[j]
    BY <1>1, <2>1 DEF IndexesTaken
  <2> QED
    BY <1>2, <2>2
<1> QED
  BY <1>2, <1>4, <1>5, <1>6

(* What the client has when the message and the first k tools are closed.    *)
ClosedMessage == MessageItem(s.message, s.message.text, "closed")
ClosedTool(tool) == CallItem(tool, tool.arguments, "closed")

Closed(d, k) ==
  /\ d \in Clients /\ d.status = "in_progress" /\ d.output = <<>>
  /\ DOMAIN d.items = 0 .. s.count - 1
  /\ s.message # None => d.items[s.message.index] = ClosedMessage
  /\ \A i \in 1 .. Len(Tools) :
       IF i <= k THEN d.items[Tools[i].index] = ClosedTool(Tools[i])
       ELSE OpenCall(d.items[Tools[i].index], Tools[i])

LEMMA MessageClosed ==
  ASSUME NEW c, Agrees(c, s), s.started
  PROVE  \E d : Script(c, CloseMessage, d) /\ Closed(d, 0)
<1>1. /\ c \in Clients /\ c.status = "in_progress" /\ c.output = <<>>
      /\ DOMAIN c.items = 0 .. s.count - 1 /\ StateType(s) /\ IndexesTaken(s)
      /\ \A k \in DOMAIN s.tools : OpenCall(c.items[s.tools[k].index], s.tools[k])
  BY DEF Agrees
<1>2. /\ \A i \in 1 .. Len(Tools) : \E k \in DOMAIN s.tools : Tools[i] = s.tools[k]
      /\ \A i \in 1 .. Len(Tools) : ~(i <= 0)
      /\ Len(Tools) \in Nat
  BY ToolsListed
<1>3. \A i \in 1 .. Len(Tools) : OpenCall(c.items[Tools[i].index], Tools[i])
  BY <1>1, <1>2
<1>4. CASE s.message = None
  <2>1. CloseMessage = <<>>
    BY <1>4 DEF CloseMessage
  <2>2. Closed(c, 0)
    BY <1>1, <1>2, <1>3, <1>4 DEF Closed
  <2> QED
    BY <1>1, <2>1, <2>2, NoEvents
<1>5. CASE s.message # None
  <2> DEFINE m == s.message
             n == m.index
             e == [type |-> "settled", index |-> n, id |-> m.id, content |-> m.text]
             f == [type |-> "part_done", index |-> n, id |-> m.id, content |-> m.text]
             g == [type |-> "item_done", index |-> n, item |-> ClosedMessage]
             d1 == Replay(c, e)
             d2 == Replay(d1, f)
             d3 == Replay(d2, g)
  <2>1. m \in Messages /\ n \in 0 .. s.count - 1 /\ m.text \in Seq(Tokens)
    <3>1. m \in Messages /\ n \in 0 .. s.count - 1
      BY <1>1, <1>5 DEF StateType, IndexesTaken
    <3> QED
      BY <3>1 DEF Messages
  <2>2. CloseMessage = <<e, f>> \o <<g>>
    BY <1>5 DEF CloseMessage, ClosedMessage
  <2>3. c.items[n] = MessageItem(m, m.text, "part")
    BY <1>5 DEF Agrees
  <2>4. e.type = "settled" /\ e.index = n /\ e.id = m.id /\ e.content = m.text
    OBVIOUS
  <2>5. f.type = "part_done" /\ f.index = n /\ f.id = m.id /\ f.content = m.text
    OBVIOUS
  <2>6. g.type = "item_done" /\ g.index = n /\ g.item = ClosedMessage
    OBVIOUS
  <2>7. d1 = Replay(c, e) /\ d2 = Replay(d1, f) /\ d3 = Replay(d2, g)
    OBVIOUS
  <2> HIDE DEF e, f, g, d1, d2, d3, n, m
  <2>8. n \in DOMAIN c.items
    BY <1>1, <2>1
  <2>9. Legal(c, e, d1) /\ Altered(c, d1, n) /\ d1.items[n] = [c.items[n] EXCEPT !.stage = e.type]
    <3>1. e.id = c.items[n].id /\ e.content = c.items[n].content /\ e.type \in NextOf(c.items[n])
      BY <2>3, <2>4 DEF MessageItem, NextOf
    <3>2. /\ Legal(c, e, Replay(c, e)) /\ Altered(c, Replay(c, e), e.index)
          /\ Replay(c, e).items[e.index] = [c.items[e.index] EXCEPT !.stage = e.type]
      <4>1. /\ c \in Clients /\ c.status = "in_progress" /\ e.index \in DOMAIN c.items
            /\ e.id = c.items[e.index].id /\ e.content = c.items[e.index].content
            /\ e.type \in NextOf(c.items[e.index]) /\ e.type \in {"part", "settled", "part_done"}
        BY <1>1, <2>4, <2>8, <3>1
      <4> QED
        BY <4>1, Advancing
    <3> QED
      BY <2>4, <2>7, <3>2
  <2>10. d1.items[n] = MessageItem(m, m.text, "settled")
    BY <2>3, <2>4, <2>9 DEF MessageItem
  <2>11. /\ d1 \in Clients /\ d1.status = "in_progress" /\ d1.output = <<>> /\ n \in DOMAIN d1.items
         /\ DOMAIN d1.items = DOMAIN c.items
    BY <1>1, <2>8, <2>9 DEF Legal, Altered
  <2>12. Legal(d1, f, d2) /\ Altered(d1, d2, n) /\ d2.items[n] = [d1.items[n] EXCEPT !.stage = f.type]
    <3>1. f.id = d1.items[n].id /\ f.content = d1.items[n].content /\ f.type \in NextOf(d1.items[n])
      BY <2>10, <2>5 DEF MessageItem, NextOf
    <3>2. /\ Legal(d1, f, Replay(d1, f)) /\ Altered(d1, Replay(d1, f), f.index)
          /\ Replay(d1, f).items[f.index] = [d1.items[f.index] EXCEPT !.stage = f.type]
      BY <2>11, <2>5, <3>1, Advancing
    <3> QED
      BY <2>5, <2>7, <3>2
  <2>13. d2.items[n] = MessageItem(m, m.text, "part_done")
    BY <2>10, <2>5, <2>12 DEF MessageItem
  <2>14. /\ d2 \in Clients /\ d2.status = "in_progress" /\ d2.output = <<>> /\ n \in DOMAIN d2.items
         /\ DOMAIN d2.items = DOMAIN c.items
    BY <2>11, <2>12 DEF Legal, Altered
  <2>15. Legal(d2, g, d3) /\ Altered(d2, d3, n) /\ d3.items[n] = ClosedMessage
    <3>1. ClosedMessage \in Items
      <4>1. "closed" \in Stages
        BY DEF Stages
      <4> QED
        BY <2>1, <4>1, MessageItemType DEF ClosedMessage, m
    <3>2. /\ ClosedMessage.stage = "closed" /\ ClosedMessage.id = d2.items[n].id
          /\ ClosedMessage.kind = d2.items[n].kind /\ ClosedMessage.content = d2.items[n].content
          /\ "closed" \in NextOf(d2.items[n])
      BY <2>13 DEF MessageItem, NextOf, ClosedMessage, m
    <3> QED
      BY <2>14, <2>6, <2>7, <3>1, <3>2, Closing
  <2>16. Script(c, CloseMessage, d3)
    <3>1. Script(c, <<>> \o <<e, f>>, d2)
      BY <1>1, <2>9, <2>12, NoEvents, TwoEvents
    <3>2. <<>> \o <<e, f>> = <<e, f>>
      <4>1. <<e, f>> \in Seq({e, f})
        OBVIOUS
      <4> QED
        BY <4>1, ConcatEmptySeq
    <3> QED
      BY <2>2, <2>15, <3>1, <3>2, OneEvent
  <2>17. /\ d3 \in Clients /\ d3.status = "in_progress" /\ d3.output = <<>>
         /\ DOMAIN d3.items = 0 .. s.count - 1
         /\ \A j \in DOMAIN c.items \ {n} : d3.items[j] = c.items[j]
    BY <1>1, <2>9, <2>11, <2>12, <2>14, <2>15 DEF Legal, Altered
  <2>18. \A i \in 1 .. Len(Tools) : OpenCall(d3.items[Tools[i].index], Tools[i])
    <3> TAKE i \in 1 .. Len(Tools)
    <3>1. PICK k \in DOMAIN s.tools : Tools[i] = s.tools[k]
      BY <1>2
    <3>2. s.tools[k].index \in DOMAIN c.items \ {n}
      BY <1>1, <1>5 DEF IndexesTaken, n, m
    <3> QED
      BY <1>3, <2>17, <3>1, <3>2
  <2>19. Closed(d3, 0)
    BY <1>2, <2>15, <2>17, <2>18 DEF Closed, n, m
  <2> QED
    BY <2>16, <2>19
<1> QED
  BY <1>4, <1>5

LEMMA ToolClosed ==
  ASSUME NEW c, Agrees(c, s), NEW k \in 0 .. Len(Tools) - 1, NEW a, NEW es, NEW b,
         Script(a, es, b), Closed(b, k)
  PROVE  \E d : Script(a, es \o CloseTool(Tools[k + 1]), d) /\ Closed(d, k + 1)
<1> DEFINE t == Tools[k + 1]
           n == t.index
           e == [type |-> "settled", index |-> n, id |-> t.id, content |-> t.arguments]
           f == [type |-> "item_done", index |-> n, item |-> ClosedTool(t)]
           d1 == Replay(b, e)
           d2 == Replay(d1, f)
<1>1. /\ Len(Tools) \in Nat /\ IndexesTaken(s)
      /\ \A i \in 1 .. Len(Tools) : \E j \in DOMAIN s.tools : Tools[i] = s.tools[j]
      /\ \A i, j \in 1 .. Len(Tools) : Tools[i].index = Tools[j].index => i = j
      /\ s.tools \in [DOMAIN s.tools -> ToolType]
  BY ToolsListed DEF Agrees, StateType
<1>2. k + 1 \in 1 .. Len(Tools) /\ k \in Nat /\ ~(k + 1 <= k)
  BY <1>1
<1>3. PICK j \in DOMAIN s.tools : t = s.tools[j]
  BY <1>1, <1>2
<1>4. t \in ToolType /\ n \in 0 .. s.count - 1
  BY <1>1, <1>3 DEF IndexesTaken
<1>5. t.arguments \in Seq(Tokens)
  <2> HIDE DEF t
  <2> QED
    BY <1>4, ToolShape
<1>6. CloseTool(t) = <<e, f>>
  BY DEF CloseTool, ClosedTool
<1>7. /\ b \in Clients /\ b.status = "in_progress" /\ b.output = <<>>
      /\ DOMAIN b.items = 0 .. s.count - 1
      /\ s.message # None => b.items[s.message.index] = ClosedMessage
      /\ OpenCall(b.items[n], t)
  BY <1>2 DEF Closed
<1>8. /\ \A i \in 1 .. Len(Tools) : i <= k => b.items[Tools[i].index] = ClosedTool(Tools[i])
      /\ \A i \in 1 .. Len(Tools) : ~(i <= k) => OpenCall(b.items[Tools[i].index], Tools[i])
  BY DEF Closed
<1>9. /\ e.type = "settled" /\ e.index = n /\ e.id = t.id /\ e.content = t.arguments
      /\ f.type = "item_done" /\ f.index = n /\ f.item = ClosedTool(t)
      /\ d1 = Replay(b, e) /\ d2 = Replay(d1, f)
  OBVIOUS
<1> HIDE DEF e, f, d1, d2, n, t
<1>10. Legal(b, e, d1) /\ Altered(b, d1, n) /\ d1.items[n] = [b.items[n] EXCEPT !.stage = e.type]
  <2>1. /\ b \in Clients /\ b.status = "in_progress" /\ e.index \in DOMAIN b.items
        /\ e.id = b.items[e.index].id /\ e.content = b.items[e.index].content
        /\ e.type \in NextOf(b.items[e.index]) /\ e.type \in {"part", "settled", "part_done"}
    BY <1>4, <1>7, <1>9 DEF OpenCall, NextOf
  <2>2. /\ Legal(b, e, Replay(b, e)) /\ Altered(b, Replay(b, e), e.index)
        /\ Replay(b, e).items[e.index] = [b.items[e.index] EXCEPT !.stage = e.type]
    BY <2>1, Advancing
  <2> QED
    BY <1>9, <2>2
<1>11. /\ d1 \in Clients /\ d1.status = "in_progress" /\ d1.output = <<>> /\ n \in DOMAIN d1.items
       /\ DOMAIN d1.items = DOMAIN b.items
  BY <1>4, <1>7, <1>10 DEF Legal, Altered
<1>12. /\ d1.items[n].id = t.id /\ d1.items[n].kind = "function_call"
       /\ d1.items[n].content = t.arguments /\ d1.items[n].stage = "settled"
  <2>1. b.items[n] \in Items
    BY <1>4, <1>7, ClientShape
  <2> DEFINE x == b.items[n]
             y == [x EXCEPT !.stage = e.type]
  <2>2. y.id = x.id /\ y.kind = x.kind /\ y.content = x.content /\ y.stage = e.type
    <3> HIDE DEF x
    <3> QED
      BY <2>1 DEF Items, x
  <2>3. x.id = t.id /\ x.kind = "function_call" /\ x.content = t.arguments
    BY <1>7 DEF OpenCall
  <2> HIDE DEF y
  <2>4. d1.items[n] = y
    BY <1>10 DEF y
  <2> QED
    BY <1>9, <2>2, <2>3, <2>4
<1>13. Legal(d1, f, d2) /\ Altered(d1, d2, n) /\ d2.items[n] = ClosedTool(t)
  <2>1. /\ ClosedTool(t) \in Items
    <3>1. "closed" \in Stages
      BY DEF Stages
    <3> QED
      BY <1>4, <1>5, <3>1, CallItemType DEF ClosedTool
  <2>2. /\ ClosedTool(t).stage = "closed" /\ ClosedTool(t).id = d1.items[n].id
        /\ ClosedTool(t).kind = d1.items[n].kind /\ ClosedTool(t).content = d1.items[n].content
        /\ "closed" \in NextOf(d1.items[n])
    BY <1>12 DEF CallItem, NextOf, ClosedTool
  <2> QED
    BY <1>9, <1>11, <2>1, <2>2, Closing
<1>14. Script(a, es \o <<e, f>>, d2)
  BY <1>10, <1>13, TwoEvents
<1>15. /\ d2 \in Clients /\ d2.status = "in_progress" /\ d2.output = <<>>
       /\ DOMAIN d2.items = 0 .. s.count - 1
       /\ \A i \in DOMAIN b.items \ {n} : d2.items[i] = b.items[i]
  BY <1>7, <1>10, <1>11, <1>13 DEF Legal, Altered
<1>16. s.message # None => d2.items[s.message.index] = ClosedMessage
  <2> SUFFICES ASSUME s.message # None PROVE d2.items[s.message.index] = ClosedMessage
    OBVIOUS
  <2>1. s.message.index \in DOMAIN b.items \ {n}
    BY <1>1, <1>3, <1>7 DEF IndexesTaken, n
  <2> QED
    BY <1>7, <1>15, <2>1
<1>17. ASSUME NEW i \in 1 .. Len(Tools)
       PROVE  IF i <= k + 1 THEN d2.items[Tools[i].index] = ClosedTool(Tools[i])
              ELSE OpenCall(d2.items[Tools[i].index], Tools[i])
  <2>1. CASE i = k + 1
    <3>1. i <= k + 1 /\ Tools[i] = t /\ Tools[i].index = n
      BY <1>2, <2>1 DEF t, n
    <3> QED
      BY <1>13, <3>1
  <2>2. CASE i # k + 1
    <3>1. Tools[i].index # n
      BY <1>1, <1>2, <2>2 DEF t, n
    <3>2. Tools[i].index \in DOMAIN b.items
      BY <1>1, <1>7 DEF IndexesTaken
    <3>3. d2.items[Tools[i].index] = b.items[Tools[i].index]
      BY <1>15, <3>1, <3>2
    <3>4. (i <= k + 1) <=> (i <= k)
      BY <1>2, <2>2
    <3> QED
      BY <1>8, <3>3, <3>4
  <2> QED
    BY <2>1, <2>2
<1>18. Closed(d2, k + 1)
  BY <1>15, <1>16, <1>17 DEF Closed
<1> QED
  BY <1>6, <1>14, <1>18 DEF t

LEMMA ToolsClosed ==
  ASSUME NEW c, Agrees(c, s), NEW b, Closed(b, 0)
  PROVE  \E d : /\ Script(b, FlattenSeq([i \in 1 .. Len(Tools) |-> CloseTool(Tools[i])]), d)
                /\ Closed(d, Len(Tools))
<1> DEFINE n == Len(Tools)
           seqs == [i \in 1 .. n |-> CloseTool(Tools[i])]
           S == {CloseTool(Tools[i]) : i \in 1 .. n}
<1>1. n \in Nat
  BY ToolsListed
<1>2. seqs \in Seq(S) /\ Len(seqs) = n
  <2> HIDE DEF n
  <2>1. seqs \in [1 .. n -> S]
    OBVIOUS
  <2> HIDE DEF seqs, S
  <2> QED
    BY <1>1, <2>1, SeqDef, LenProperties
<1>3. b \in Clients
  BY DEF Closed
<1>4. CASE n = 0
  <2>1. seqs = <<>>
    <3> HIDE DEF S, seqs, n
    <3> QED
      BY <1>2, <1>4, EmptySeq
  <2>2. FlattenSeq(seqs) = <<>>
    <3> HIDE DEF seqs
    <3> QED
      BY <1>2, <1>4, <2>1 DEF FlattenSeq
  <2> QED
    BY <1>3, <1>4, <2>2, NoEvents
<1>5. CASE n # 0
  <2>0. seqs # <<>>
    <3> HIDE DEF S, seqs, n
    <3> QED
      BY <1>2, <1>5, EmptySeq
  <2>1. PICK g : Joins(seqs, g) /\ FlattenSeq(seqs) = g[n]
    <3> HIDE DEF S, seqs
    <3> QED
      BY <1>2, <2>0, FlattenJoins
  <2>2. ASSUME NEW k \in 1 .. n PROVE seqs[k] = CloseTool(Tools[k])
    OBVIOUS
  <2> HIDE DEF seqs, n
  <2> DEFINE T == {k \in 0 .. n - 1 : \E d : Script(b, g[k + 1], d) /\ Closed(d, k + 1)}
  <2>3. 0 \in T
    <3>1. 0 \in 0 .. n - 1 /\ 0 + 1 = 1 /\ 1 \in 1 .. n
      BY <1>1, <1>5
    <3>2. g[1] = CloseTool(Tools[1])
      BY <2>1, <2>2, <3>1 DEF Joins
    <3>3. Script(b, <<>>, b)
      BY <1>3, NoEvents
    <3>4. \E d : Script(b, <<>> \o CloseTool(Tools[0 + 1]), d) /\ Closed(d, 0 + 1)
      BY <3>1, <3>3, ToolClosed DEF n
    <3>5. <<>> \o CloseTool(Tools[1]) = CloseTool(Tools[1])
      <4> DEFINE x == [type |-> "settled", index |-> Tools[1].index, id |-> Tools[1].id,
                       content |-> Tools[1].arguments]
                 y == [type |-> "item_done", index |-> Tools[1].index,
                       item |-> CallItem(Tools[1], Tools[1].arguments, "closed")]
      <4>1. CloseTool(Tools[1]) = <<x, y>>
        BY DEF CloseTool
      <4> HIDE DEF x, y
      <4>2. <<x, y>> \in Seq({x, y})
        OBVIOUS
      <4> QED
        BY <4>1, <4>2, ConcatEmptySeq
    <3> QED
      BY <3>1, <3>2, <3>4, <3>5
  <2>4. ASSUME NEW k \in 0 .. (n - 1) - 1, k \in T PROVE k + 1 \in T
    <3>1. /\ k + 1 \in 0 .. n - 1 /\ (k + 1) + 1 \in 2 .. n /\ ((k + 1) + 1) - 1 = k + 1
          /\ (k + 1) + 1 \in 1 .. n
      BY <1>1
    <3>2. PICK d : Script(b, g[k + 1], d) /\ Closed(d, k + 1)
      BY <2>4
    <3>3. g[(k + 1) + 1] = g[k + 1] \o CloseTool(Tools[(k + 1) + 1])
      <4>1. Len(seqs) = n
        BY <1>2
      <4> QED
        BY <2>1, <2>2, <3>1, <4>1 DEF Joins
    <3>4. \E h : Script(b, g[k + 1] \o CloseTool(Tools[(k + 1) + 1]), h) /\ Closed(h, (k + 1) + 1)
      BY <3>1, <3>2, ToolClosed DEF n
    <3> QED
      BY <3>1, <3>3, <3>4
  <2>5. 0 .. n - 1 \subseteq T
    <3>1. n - 1 \in Nat
      BY <1>1, <1>5
    <3> HIDE DEF T
    <3> QED
      BY <2>3, <2>4, <3>1, Climb
  <2>6. n - 1 \in T /\ (n - 1) + 1 = n
    BY <1>1, <1>5, <2>5
  <2> QED
    BY <2>1, <2>6 DEF seqs, n
<1> QED
  BY <1>4, <1>5

(* Outputs lists every output index once.                                    *)
Entries == [index : Nat, item : Items]
Entry(index, item) == [index |-> index, item |-> item]

LEMMA EntryType ==
  ASSUME NEW n \in Nat, NEW item \in Items
  PROVE  Entry(n, item) \in Entries /\ Entry(n, item).index = n /\ Entry(n, item).item = item
BY DEF Entry, Entries

Lists(outputs, n) ==
  /\ outputs \in Seq(Entries) /\ Len(outputs) = n
  /\ \A p \in 1 .. n : outputs[p].index \in 0 .. n - 1
  /\ \A p, q \in 1 .. n : outputs[p].index = outputs[q].index => p = q
  /\ \A x \in 0 .. n - 1 : \E p \in 1 .. n : outputs[p].index = x

(* The message first, where there is one, then the tools.                    *)
Before == IF s.message = None THEN 0 ELSE 1

InOrder(outputs) ==
  /\ s.count = Before + Len(Tools)
  /\ s.message # None => outputs[1].item = ClosedMessage
  /\ \A i \in 1 .. Len(Tools) : outputs[Before + i].item = ClosedTool(Tools[i])

LEMMA OutputsListed ==
  ASSUME NEW c, Agrees(c, s), NEW d, Closed(d, Len(Tools))
  PROVE  /\ Lists(Outputs, s.count) /\ InOrder(Outputs)
         /\ \A p \in 1 .. s.count :
              /\ Outputs[p].item = d.items[Outputs[p].index]
              /\ Outputs[p].item.stage = "closed"
<1> DEFINE n == Len(Tools)
           front == IF s.message = None THEN <<>> ELSE <<Entry(s.message.index, ClosedMessage)>>
           back == [i \in 1 .. n |-> Entry(Tools[i].index, ClosedTool(Tools[i]))]
           m == Len(front)
           L == Len(Outputs)
<1>1. /\ Tools \in Seq(ToolType) /\ n \in Nat /\ DOMAIN Tools = 1 .. n
      /\ \A i \in 1 .. n : \E k \in DOMAIN s.tools : Tools[i] = s.tools[k]
      /\ \A i, j \in 1 .. n : Tools[i].index = Tools[j].index => i = j
      /\ \A k \in DOMAIN s.tools : \E i \in 1 .. n : Tools[i] = s.tools[k]
      /\ IndexesTaken(s) /\ StateType(s)
  BY ToolsListed DEF Agrees
<1>2. Outputs = front \o back
  BY DEF Outputs, Entry, ClosedMessage, ClosedTool
<1>3. s.message # None => /\ s.message \in Messages /\ s.message.index \in 0 .. s.count - 1
                          /\ ClosedMessage \in Items /\ ClosedMessage.stage = "closed"
  <2> SUFFICES ASSUME s.message # None
               PROVE  /\ s.message \in Messages /\ s.message.index \in 0 .. s.count - 1
                      /\ ClosedMessage \in Items /\ ClosedMessage.stage = "closed"
    OBVIOUS
  <2>1. s.message \in Messages /\ s.message.index \in 0 .. s.count - 1
    BY <1>1 DEF StateType, IndexesTaken
  <2>2. s.message.text \in Seq(Tokens) /\ "closed" \in Stages
    BY <2>1 DEF Messages, Stages
  <2> QED
    BY <2>1, <2>2, MessageItemType DEF ClosedMessage
<1>4. \A i \in 1 .. n : /\ Tools[i].index \in 0 .. s.count - 1
                        /\ ClosedTool(Tools[i]) \in Items /\ ClosedTool(Tools[i]).stage = "closed"
  <2> TAKE i \in 1 .. n
  <2>1. PICK k \in DOMAIN s.tools : Tools[i] = s.tools[k]
    BY <1>1
  <2>2. Tools[i] \in ToolType /\ Tools[i].index \in 0 .. s.count - 1
    BY <1>1, <2>1 DEF StateType, IndexesTaken
  <2>3. Tools[i].arguments \in Seq(Tokens) /\ "closed" \in Stages
    BY <2>2, ToolShape DEF Stages
  <2> QED
    BY <2>2, <2>3, CallItemType DEF ClosedTool
<1>5. s.count \in Nat
  BY <1>1 DEF StateType
<1>6. /\ front \in Seq(Entries) /\ m = IF s.message = None THEN 0 ELSE 1
      /\ s.message # None => front[1] = Entry(s.message.index, ClosedMessage)
  <2>1. CASE s.message = None
    BY <2>1, EmptySeq
  <2>2. CASE s.message # None
    <3> DEFINE x == Entry(s.message.index, ClosedMessage)
    <3>1. x \in Entries
      <4>1. s.message.index \in Nat
        BY <1>3, <1>5, <2>2
      <4> QED
        BY <1>3, <2>2, <4>1, EntryType
    <3> HIDE DEF x
    <3>2. <<x>> \in Seq(Entries) /\ Len(<<x>>) = 1 /\ <<x>>[1] = x
      BY <3>1
    <3> QED
      BY <2>2, <3>2 DEF x
  <2> QED
    BY <2>1, <2>2
<1>7. /\ back \in Seq(Entries) /\ Len(back) = n
      /\ \A i \in 1 .. n : back[i] = Entry(Tools[i].index, ClosedTool(Tools[i]))
  <2>1. \A i \in 1 .. n : Entry(Tools[i].index, ClosedTool(Tools[i])) \in Entries
    <3> TAKE i \in 1 .. n
    <3>1. Tools[i].index \in Nat
      BY <1>4, <1>5
    <3> QED
      BY <1>4, <3>1, EntryType
  <2>2. back \in [1 .. n -> Entries]
    BY <2>1
  <2>3. \A i \in 1 .. n : back[i] = Entry(Tools[i].index, ClosedTool(Tools[i]))
    OBVIOUS
  <2> HIDE DEF back, n
  <2> QED
    BY <1>1, <2>2, <2>3, SeqDef, LenProperties
<1> HIDE DEF front, back
<1>8. /\ Outputs \in Seq(Entries) /\ L = m + n /\ m \in {0, 1}
      /\ \A p \in 1 .. m + n : Outputs[p] = IF p <= m THEN front[p] ELSE back[p - m]
  <2>1. /\ Outputs \in Seq(Entries) /\ Len(Outputs) = Len(front) + Len(back)
        /\ \A p \in 1 .. Len(front) + Len(back) :
             Outputs[p] = IF p <= Len(front) THEN front[p] ELSE back[p - Len(front)]
    <3>1. front \in Seq(Entries) /\ back \in Seq(Entries)
      BY <1>6, <1>7
    <3>2. /\ front \o back \in Seq(Entries) /\ Len(front \o back) = Len(front) + Len(back)
          /\ \A p \in 1 .. Len(front) + Len(back) :
               (front \o back)[p] = IF p <= Len(front) THEN front[p] ELSE back[p - Len(front)]
      BY <3>1, ConcatProperties
    <3> QED
      BY <1>2, <3>2
  <2>2. Len(back) = n
    BY <1>7
  <2> HIDE DEF n
  <2> QED
    BY <1>6, <2>1, <2>2
<1>9. ASSUME NEW p \in 1 .. m + n
      PROVE  \/ /\ p = 1 /\ m = 1 /\ s.message # None
                /\ Outputs[p].index = s.message.index /\ Outputs[p].item = ClosedMessage
             \/ /\ p - m \in 1 .. n
                /\ Outputs[p].index = Tools[p - m].index /\ Outputs[p].item = ClosedTool(Tools[p - m])
  <2>1. CASE p <= m
    <3>1. p = 1 /\ m = 1 /\ s.message # None
      BY <1>1, <1>6, <1>8, <2>1
    <3>2. Outputs[p] = Entry(s.message.index, ClosedMessage)
      BY <1>6, <1>8, <2>1, <3>1
    <3> QED
      BY <3>1, <3>2 DEF Entry
  <2>2. CASE ~(p <= m)
    <3>1. p - m \in 1 .. n
      BY <1>1, <1>8, <2>2
    <3>2. Outputs[p] = Entry(Tools[p - m].index, ClosedTool(Tools[p - m]))
      BY <1>7, <1>8, <2>2, <3>1
    <3> QED
      BY <3>1, <3>2 DEF Entry
  <2> QED
    BY <2>1, <2>2
<1>10. \A p \in 1 .. m + n : Outputs[p].index \in 0 .. s.count - 1
  BY <1>3, <1>4, <1>9
<1>11. ASSUME NEW p \in 1 .. m + n, NEW q \in 1 .. m + n, Outputs[p].index = Outputs[q].index
       PROVE  p = q
  <2>1. \A i \in 1 .. n : s.message # None => Tools[i].index # s.message.index
    BY <1>1 DEF IndexesTaken
  <2> HIDE DEF m, n
  <2>2. CASE p - m \in 1 .. n /\ Outputs[p].index = Tools[p - m].index
    <3>1. q - m \in 1 .. n /\ Outputs[q].index = Tools[q - m].index
      BY <1>9, <1>11, <2>1, <2>2
    <3>2. p - m = q - m
      BY <1>1, <1>11, <2>2, <3>1 DEF n
    <3> QED
      BY <1>1, <1>8, <3>2 DEF n
  <2>3. CASE p = 1 /\ m = 1 /\ s.message # None /\ Outputs[p].index = s.message.index
    <3>1. q = 1
      BY <1>9, <1>11, <2>1, <2>3
    <3> QED
      BY <2>3, <3>1
  <2> QED
    BY <1>9, <2>2, <2>3
<1>12. ASSUME NEW x \in 0 .. s.count - 1
       PROVE  \E p \in 1 .. m + n : Outputs[p].index = x
  <2>1. CASE s.message # None /\ s.message.index = x
    <3>1. m = 1 /\ 1 \in 1 .. m + n /\ 1 <= m
      BY <1>1, <1>6, <2>1
    <3>2. Outputs[1] = Entry(s.message.index, ClosedMessage)
      BY <1>6, <1>8, <2>1, <3>1
    <3>3. Outputs[1].index = x
      BY <2>1, <3>2 DEF Entry
    <3> QED
      BY <3>1, <3>3
  <2>2. CASE \E k \in DOMAIN s.tools : s.tools[k].index = x
    <3>1. PICK k \in DOMAIN s.tools : s.tools[k].index = x
      BY <2>2
    <3>2. PICK i \in 1 .. n : Tools[i] = s.tools[k]
      BY <1>1
    <3>3. m + i \in 1 .. m + n /\ ~(m + i <= m) /\ (m + i) - m = i
      BY <1>1, <1>8
    <3>4. Outputs[m + i] = Entry(Tools[i].index, ClosedTool(Tools[i]))
      BY <1>7, <1>8, <3>3
    <3>5. Outputs[m + i].index = x
      BY <3>1, <3>2, <3>4 DEF Entry
    <3> QED
      BY <3>3, <3>5
  <2> QED
    BY <1>1, <2>1, <2>2 DEF IndexesTaken
<1>13. m + n = s.count
  <2> DEFINE A == 1 .. m + n
             B == 0 .. s.count - 1
             h == [p \in A |-> Outputs[p].index]
  <2>1. m + n \in Nat
    BY <1>1, <1>8
  <2>2. IsFiniteSet(A) /\ Cardinality(A) = m + n /\ IsFiniteSet(B) /\ Cardinality(B) = s.count
    <3>1. IsFiniteSet(A) /\ Cardinality(A) = m + n
      <4>1. IsFiniteSet(1 .. m + n) /\ Cardinality(1 .. m + n) = IF 1 > m + n THEN 0 ELSE (m + n) - 1 + 1
        <5> DEFINE w == m + n
        <5>1. w \in Int
          BY <2>1
        <5> HIDE DEF w
        <5>2. IsFiniteSet(1 .. w) /\ Cardinality(1 .. w) = IF 1 > w THEN 0 ELSE w - 1 + 1
          BY <5>1, FS_Interval
        <5> QED
          BY <5>2 DEF w
      <4> QED
        BY <2>1, <4>1
    <3>2. IsFiniteSet(B) /\ Cardinality(B) = s.count
      <4>1. s.count - 1 \in Int
        BY <1>5
      <4>2. IsFiniteSet(0 .. s.count - 1)
            /\ Cardinality(0 .. s.count - 1) = IF 0 > s.count - 1 THEN 0 ELSE (s.count - 1) - 0 + 1
        BY <4>1, FS_Interval
      <4> QED
        BY <1>5, <4>2
    <3> QED
      BY <3>1, <3>2
  <2>3. h \in [A -> B]
    BY <1>10
  <2>4. \A p, q \in A : h[p] = h[q] => p = q
    BY <1>11
  <2>5. \A x \in B : \E p \in A : h[p] = x
    BY <1>12
  <2> HIDE DEF h, A, B
  <2>6. h \in Bijection(A, B)
    BY <2>3, <2>4, <2>5, Zenon DEF Bijection, Injection, Surjection, IsInjective
  <2>7. ExistsBijection(A, B)
    BY <2>6, Fun_ExistsBij
  <2>8. Cardinality(B) = Cardinality(A)
    BY <2>2, <2>7, FS_Bijection
  <2> QED
    BY <2>2, <2>8
<1>14. \A p \in 1 .. m + n :
         Outputs[p].item = d.items[Outputs[p].index] /\ Outputs[p].item.stage = "closed"
  <2> TAKE p \in 1 .. m + n
  <2>1. /\ s.message # None => d.items[s.message.index] = ClosedMessage
        /\ \A i \in 1 .. n : d.items[Tools[i].index] = ClosedTool(Tools[i])
    <3>1. \A i \in 1 .. n : i <= Len(Tools)
      BY <1>1
    <3> QED
      BY <3>1 DEF Closed
  <2> QED
    BY <1>3, <1>4, <1>9, <2>1
<1>15. InOrder(Outputs)
  <2>1. m = Before /\ s.count = Before + n
    BY <1>6, <1>13 DEF Before
  <2>2. ASSUME s.message # None PROVE Outputs[1].item = ClosedMessage
    <3>1. m = 1 /\ 1 \in 1 .. m + n /\ 1 <= m
      BY <1>1, <1>6, <2>2
    <3>2. Outputs[1] = Entry(s.message.index, ClosedMessage)
      BY <1>6, <1>8, <2>2, <3>1
    <3> QED
      BY <3>2 DEF Entry
  <2>3. ASSUME NEW i \in 1 .. n PROVE Outputs[m + i].item = ClosedTool(Tools[i])
    <3>1. m + i \in 1 .. m + n /\ ~(m + i <= m) /\ (m + i) - m = i
      BY <1>1, <1>8
    <3>2. Outputs[m + i] = Entry(Tools[i].index, ClosedTool(Tools[i]))
      BY <1>7, <1>8, <3>1
    <3> QED
      BY <3>2 DEF Entry
  <2> HIDE DEF m
  <2> QED
    BY <2>1, <2>2, <2>3 DEF InOrder
<1> HIDE DEF m, n
<1> QED
  BY <1>8, <1>10, <1>11, <1>12, <1>13, <1>14, <1>15 DEF Lists

Sorted(outputs, n, list) ==
  /\ list \in Seq(Items) /\ DOMAIN list = 1 .. n
  /\ \A x \in 0 .. n - 1 : \E p \in 1 .. n : outputs[p].index = x /\ list[x + 1] = outputs[p].item
  /\ \E place \in [1 .. n -> 1 .. n] :
       IsInjective(place) /\ \A i \in 1 .. n : list[i] = outputs[place[i]].item

(* Sorted by index, entries whose indexes are 0 .. n - 1 stand at index + 1. *)
LEMMA SortedByIndex ==
  ASSUME NEW n \in Nat, NEW outputs, Lists(outputs, n)
  PROVE  Sorted(outputs, n, FinalOutput(outputs))
<1> DEFINE D == DOMAIN outputs
           Sorts(p) == /\ IsInjective(p)
                       /\ \A i, j \in D : i < j => outputs[p[i]].index <= outputs[p[j]].index
           place == CHOOSE p \in [D -> D] : Sorts(p)
           final == [i \in D |-> outputs[place[i]].item]
           h == [i \in 1 .. n |-> outputs[place[i]].index]
<1>0. /\ outputs \in Seq(Entries) /\ Len(outputs) = n
      /\ \A p \in 1 .. n : outputs[p].index \in 0 .. n - 1
      /\ \A p, q \in 1 .. n : outputs[p].index = outputs[q].index => p = q
      /\ \A x \in 0 .. n - 1 : \E p \in 1 .. n : outputs[p].index = x
  BY DEF Lists
<1>1. D = 1 .. n
  BY <1>0, LenProperties
<1>2. FinalOutput(outputs) = final
  BY DEF FinalOutput
<1> HIDE DEF D
<1>3. \E p \in [D -> D] : Sorts(p)
  <2> DEFINE p == [i \in D |-> CHOOSE q \in D : outputs[q].index = i - 1]
  <2>1. ASSUME NEW i \in D PROVE p[i] \in D /\ outputs[p[i]].index = i - 1
    <3>1. i - 1 \in 0 .. n - 1
      BY <1>1
    <3>2. \E q \in D : outputs[q].index = i - 1
      BY <1>0, <1>1, <3>1
    <3> QED
      BY <3>2
  <2>2. p \in [D -> D]
    BY <2>1
  <2>3. DOMAIN p = D
    OBVIOUS
  <2> HIDE DEF p
  <2>4. IsInjective(p)
    <3>1. ASSUME NEW i \in D, NEW j \in D, p[i] = p[j] PROVE i = j
      <4>1. i - 1 = j - 1
        BY <2>1, <3>1
      <4> QED
        BY <1>1, <4>1
    <3> QED
      BY <2>3, <3>1 DEF IsInjective
  <2>5. \A i, j \in D : i < j => outputs[p[i]].index <= outputs[p[j]].index
    BY <1>1, <2>1
  <2> QED
    BY <2>2, <2>4, <2>5
<1>4. place \in [D -> D] /\ Sorts(place)
  <2> HIDE DEF Sorts
  <2> QED
    BY <1>3
<1> HIDE DEF place
<1>5. /\ place \in [1 .. n -> 1 .. n]
      /\ \A i, j \in 1 .. n : place[i] = place[j] => i = j
      /\ \A i, j \in 1 .. n : i < j => outputs[place[i]].index <= outputs[place[j]].index
  BY <1>1, <1>4 DEF IsInjective
<1>6. \A i \in 1 .. n : h[i] \in 0 .. n - 1
  BY <1>0, <1>5
<1>7. \A i, j \in 1 .. n : i < j => h[i] < h[j]
  <2> TAKE i, j \in 1 .. n
  <2> HAVE i < j
  <2>1. h[i] <= h[j]
    BY <1>5
  <2>2. place[i] # place[j] /\ place[i] \in 1 .. n /\ place[j] \in 1 .. n
    BY <1>5
  <2>3. h[i] # h[j]
    BY <1>0, <2>2
  <2>4. h[i] \in Int /\ h[j] \in Int
    BY <1>6
  <2> QED
    BY <2>1, <2>3, <2>4
<1>8. \A i \in 1 .. n : h[i] = outputs[place[i]].index
  OBVIOUS
<1> HIDE DEF h
<1>11. /\ place \in [1 .. n -> 1 .. n] /\ IsInjective(place)
       /\ \A i \in 1 .. n : final[i] = outputs[place[i]].item
  BY <1>1, <1>4
<1>9. CASE n = 0
  <2>1. final = <<>>
    <3>1. 1 .. n = {}
      BY <1>9
    <3>2. DOMAIN final = {}
      BY <1>1, <3>1
    <3> QED
      BY <1>1, <3>1
  <2>2. 0 .. n - 1 = {}
    BY <1>9
  <2>3. final \in Seq(Items) /\ DOMAIN final = 1 .. n
    <3>1. DOMAIN final = 1 .. n
      BY <1>1
    <3> HIDE DEF final
    <3>2. final \in Seq(Items)
      BY <2>1, EmptySeq
    <3> QED
      BY <3>1, <3>2
  <2> QED
    BY <1>2, <1>11, <2>2, <2>3 DEF Sorted
<1>10. CASE n # 0
  <2> DEFINE Low == {k \in 0 .. n - 1 : h[k + 1] >= k}
             High == {k \in 0 .. n - 1 : h[n - k] <= (n - 1) - k}
  <2>0. n - 1 \in Nat
    BY <1>10
  <2>1. 0 \in Low
    <3>1. 0 + 1 = 1 /\ 1 \in 1 .. n
      BY <2>0
    <3> QED
      BY <1>6, <2>0, <3>1
  <2>2. ASSUME NEW k \in 0 .. (n - 1) - 1, k \in Low PROVE k + 1 \in Low
    <3>1. k + 1 \in 0 .. n - 1 /\ k + 1 \in 1 .. n /\ (k + 1) + 1 \in 1 .. n /\ k + 1 < (k + 1) + 1
      BY <2>0
    <3>2. h[k + 1] < h[(k + 1) + 1] /\ h[k + 1] >= k /\ h[k + 1] \in Int /\ h[(k + 1) + 1] \in Int
      BY <1>6, <1>7, <2>2, <3>1
    <3>3. h[(k + 1) + 1] >= k + 1
      BY <3>1, <3>2
    <3> QED
      BY <3>1, <3>3
  <2>3. 0 .. n - 1 \subseteq Low
    <3> HIDE DEF Low
    <3> QED
      BY <2>0, <2>1, <2>2, Climb
  <2>4. 0 \in High
    <3>1. n - 0 = n /\ n \in 1 .. n /\ (n - 1) - 0 = n - 1
      BY <2>0
    <3> QED
      BY <1>6, <2>0, <3>1
  <2>5. ASSUME NEW k \in 0 .. (n - 1) - 1, k \in High PROVE k + 1 \in High
    <3>1. k + 1 \in 0 .. n - 1 /\ n - k \in 1 .. n /\ n - (k + 1) \in 1 .. n /\ n - (k + 1) < n - k
      BY <2>0
    <3>2. h[n - (k + 1)] < h[n - k] /\ h[n - k] <= (n - 1) - k /\ h[n - k] \in Int /\ h[n - (k + 1)] \in Int
      BY <1>6, <1>7, <2>5, <3>1
    <3>3. h[n - (k + 1)] <= (n - 1) - (k + 1)
      <4> DEFINE u == h[n - (k + 1)]
                 v == h[n - k]
      <4>1. u < v /\ v <= (n - 1) - k /\ u \in Int /\ v \in Int /\ k \in Int
        BY <3>2
      <4> HIDE DEF u, v
      <4>2. u <= (n - 1) - (k + 1)
        BY <2>0, <4>1
      <4> QED
        BY <4>2 DEF u
    <3> QED
      BY <3>1, <3>3
  <2>6. 0 .. n - 1 \subseteq High
    <3> HIDE DEF High
    <3> QED
      BY <2>0, <2>4, <2>5, Climb
  <2>7. ASSUME NEW x \in 0 .. n - 1 PROVE h[x + 1] = x
    <3>1. x \in Low /\ (n - 1) - x \in 0 .. n - 1
      BY <2>0, <2>3
    <3>2. (n - 1) - x \in High
      BY <2>6, <3>1
    <3>3. n - ((n - 1) - x) = x + 1 /\ (n - 1) - ((n - 1) - x) = x /\ x + 1 \in 1 .. n
      BY <2>0
    <3>4. h[x + 1] <= x /\ h[x + 1] >= x /\ h[x + 1] \in Int
      BY <1>6, <3>1, <3>2, <3>3
    <3> QED
      BY <3>4
  <2>8. final \in [1 .. n -> Items]
    <3>1. \A i \in 1 .. n : place[i] \in 1 .. n
      BY <1>5
    <3>2. \A p \in 1 .. n : outputs[p].item \in Items
      <4> TAKE p \in 1 .. n
      <4>1. outputs[p] \in Entries
        BY <1>0, ElementOfSeq
      <4> QED
        BY <4>1 DEF Entries
    <3> QED
      BY <1>1, <3>1, <3>2
  <2>9. \A i \in 1 .. n : final[i] = outputs[place[i]].item
    BY <1>1
  <2> HIDE DEF final
  <2>10. final \in Seq(Items) /\ DOMAIN final = 1 .. n
    BY <2>8, SeqDef
  <2>11. ASSUME NEW x \in 0 .. n - 1
         PROVE  \E p \in 1 .. n : outputs[p].index = x /\ final[x + 1] = outputs[p].item
    <3>1. x + 1 \in 1 .. n
      BY <2>0
    <3>2. place[x + 1] \in 1 .. n /\ outputs[place[x + 1]].index = x
      BY <1>5, <1>8, <2>7, <3>1
    <3> QED
      BY <2>9, <3>1, <3>2
  <2> QED
    BY <1>2, <1>11, <2>10, <2>11 DEF Sorted
<1> QED
  BY <1>9, <1>10

LEMMA FinishLegal ==
  ASSUME NEW c, Agrees(c, s), s.started
  PROVE  /\ Lists(Outputs, s.count) /\ InOrder(Outputs) /\ FinishStream # <<>>
         /\ \E b : /\ Script(c, FinishStream, b) /\ b.status \in Finals
                  /\ b.status = StatusOf(s.finish) /\ b.output = FinalOutput(Outputs)
<1> DEFINE n == s.count
           out == FinalOutput(Outputs)
           mid == FlattenSeq([i \in 1 .. Len(Tools) |-> CloseTool(Tools[i])])
           e == [type |-> StatusOf(s.finish), output |-> out]
<1>1. PICK d1 : Script(c, CloseMessage, d1) /\ Closed(d1, 0)
  BY MessageClosed
<1>2. PICK d2 : Script(d1, mid, d2) /\ Closed(d2, Len(Tools))
  BY <1>1, ToolsClosed
<1>3. Script(c, CloseMessage \o mid, d2)
  BY <1>1, <1>2, MoreEvents
<1>4. FinishStream = (CloseMessage \o mid) \o <<e>>
  BY DEF FinishStream
<1>5. /\ Lists(Outputs, n) /\ InOrder(Outputs)
      /\ \A p \in 1 .. n : /\ Outputs[p].item = d2.items[Outputs[p].index]
                           /\ Outputs[p].item.stage = "closed"
  BY <1>2, OutputsListed
<1>6. n \in Nat
  BY DEF Agrees, StateType
<1> HIDE DEF n, mid
<1>7. /\ out \in Seq(Items) /\ DOMAIN out = 1 .. n
      /\ \A x \in 0 .. n - 1 : \E p \in 1 .. n : Outputs[p].index = x /\ out[x + 1] = Outputs[p].item
  <2>1. Sorted(Outputs, n, FinalOutput(Outputs))
    BY <1>5, <1>6, SortedByIndex
  <2> QED
    BY <2>1 DEF Sorted
<1>8. /\ e.type \in Finals /\ e.output = out /\ e.type = StatusOf(s.finish)
  BY DEF StatusOf, Finals
<1> HIDE DEF out, e
<1>9. /\ d2 \in Clients /\ d2.status = "in_progress" /\ DOMAIN d2.items = 0 .. n - 1
  BY <1>2 DEF Closed, n
<1>10. \A x \in 0 .. n - 1 : d2.items[x].stage = "closed" /\ out[x + 1] = d2.items[x]
  <2> TAKE x \in 0 .. n - 1
  <2>1. PICK p \in 1 .. n : Outputs[p].index = x /\ out[x + 1] = Outputs[p].item
    BY <1>7
  <2> QED
    BY <1>5, <2>1
<1> DEFINE b == Replay(d2, e)
<1>11. Legal(d2, e, b) /\ b.status = e.type /\ b.output = out
  <2>1. /\ e.output \in Seq(Items) /\ DOMAIN e.output = 1 .. n
        /\ \A i \in 0 .. n - 1 : e.output[i + 1] = d2.items[i]
        /\ \A i \in 0 .. n - 1 : d2.items[i].stage = "closed"
    BY <1>7, <1>8, <1>10
  <2> QED
    BY <1>6, <1>8, <1>9, <2>1, Ending
<1> HIDE DEF b
<1>12. Script(c, FinishStream, b)
  BY <1>3, <1>4, <1>11, OneEvent
<1>13. FinishStream # <<>>
  <2> SUFFICES ASSUME FinishStream = <<>> PROVE FALSE
    OBVIOUS
  <2>1. Script(c, <<>>, b)
    BY <1>12
  <2>2. c = b
    BY <2>1, NothingToReplay
  <2>3. c.status = "in_progress"
    BY DEF Agrees
  <2> QED
    BY <1>8, <1>11, <2>2, <2>3 DEF Finals
<1> QED
  BY <1>5, <1>8, <1>11, <1>12, <1>13 DEF n, out

-----------------------------------------------------------------------------
(* The inductive invariant of a stream: what is written and what still waits *)
(* leads to what the state of the converter says.                 *)

Early == phase \in {"items", "post", "refused"}

Towards(b) == Script(sent, pending, b)

StreamInv ==
  /\ phase \in {"items", "post", "read", "finish", "over", "refused"} /\ streaming \in BOOLEAN
  /\ Early => s = Fresh /\ sent = Unseen /\ pending = <<>> /\ error = Blank
  /\ phase = "read" => error = Blank
  /\ phase = "read" /\ streaming => \E b : Towards(b) /\ Agrees(b, s)
  /\ phase = "read" /\ ~streaming => s = Fresh
  /\ phase = "finish" => /\ streaming /\ error = Blank /\ pending # <<>>
                         /\ \E b : Towards(b) /\ b.status \in Finals
  /\ phase = "over" => pending = <<>>
  /\ phase = "over" /\ streaming => (error = Blank <=> sent.status \in Finals)
  /\ ~streaming => pending = <<>> /\ sent.items = <<>>

LEMMA BlankIsNoError == Blank \notin {"no_chunk", "read", "write"}
BY Zenon DEF Blank

LEMMA UnseenAgrees == Unseen \in Clients /\ Agrees(Unseen, Fresh)
<1>1. <<>> \in Seq(Items) /\ DOMAIN <<>> = {}
  BY EmptySeq
<1>2. <<>> \in [0 .. 0 - 1 -> Items] /\ 0 .. 0 - 1 = {}
  <2>1. 0 .. 0 - 1 = {}
    OBVIOUS
  <2>2. <<>> \in [{} -> Items]
    OBVIOUS
  <2> QED
    BY <2>1, <2>2
<1>3. Unseen \in Clients
  <2>1. "none" \in Statuses
    BY DEF Statuses
  <2> QED
    BY <1>1, <1>2, <2>1, ClientMade DEF Unseen
<1> DEFINE no == FALSE
<1> DEFINE nothing == <<>>
<1>4. Fresh = StateOf(no, None, nothing, 0, Blank, FirstRandom)
  BY Zenon DEF Fresh, StateOf
<1>14. no \in BOOLEAN /\ no = FALSE
  BY Zenon
<1>12. nothing = <<>>
  OBVIOUS
<1> HIDE DEF no, nothing
<1>5. /\ Fresh.message = None /\ Fresh.tools = nothing /\ Fresh.count = 0 /\ Fresh.started = no
      /\ Fresh.finish = Blank /\ Fresh.drawn = FirstRandom /\ Shaped(Fresh)
  BY <1>4, StateOfShaped
<1>6. Fresh.started = FALSE
  BY <1>5, <1>14, Zenon
<1>7. StateType(Fresh)
  <2>1. IsFiniteSet({})
    BY FS_EmptySet
  <2>2. <<>> \in [{} -> ToolType]
    OBVIOUS
  <2>3. FirstRandom \in Nat \ {0}
    BY StreamConstants
  <2>4. nothing \in [DOMAIN nothing -> ToolType]
    BY <1>1, <1>12, <2>2
  <2>5. DOMAIN nothing \in SUBSET Int /\ IsFiniteSet(DOMAIN nothing)
    BY <1>1, <1>12, <2>1
  <2>6. None \in Messages \cup {None} /\ 0 \in Nat
    OBVIOUS
  <2> QED
    BY <1>5, <1>14, <2>3, <2>4, <2>5, <2>6 DEF StateType
<1>8. IndexesTaken(Fresh)
  BY <1>1, <1>2, <1>5, <1>12 DEF IndexesTaken
<1>9. Unseen.status = "none" /\ Unseen.items = <<>> /\ Unseen.output = <<>>
  BY DEF Unseen
<1> QED
  BY <1>1, <1>2, <1>3, <1>5, <1>6, <1>7, <1>8, <1>9, <1>12 DEF Agrees

(* An event can only move a client that has not seen the end.                *)
LEMMA NotEnded ==
  ASSUME NEW c, NEW e, NEW d, Legal(c, e, d)
  PROVE  c.status \notin Finals
BY DEF Legal, Announces, Opens, Alters, Ends, Finals

LEMMA StreamStart ==
  ASSUME ResponsesInit
  PROVE  StreamInv
BY DEF ResponsesInit, StreamInv, Early, Unseen

(* A step that leaves the stream alone.                                      *)
LEMMA StreamKept ==
  ASSUME StreamInv, UNCHANGED <<phase, s, pending, sent, streaming, error>>
  PROVE  StreamInv'
BY DEF StreamInv, Early, Towards

LEMMA BufferedAnswer ==
  ASSUME AnswerBuffered
  PROVE  /\ phase = "read" /\ ~streaming /\ phase' = "over" /\ UNCHANGED <<s, pending, streaming>>
         /\ sent'.items = sent.items \/ sent'.items = <<>>
<1>1. phase = "read" /\ ~streaming /\ phase' = "over" /\ UNCHANGED <<s, pending, streaming>>
  BY DEF AnswerBuffered, Reading
<1>2. \/ sent' = sent
      \/ \E a, b : sent' = [status |-> a, items |-> <<>>, output |-> b]
  BY Zenon DEF AnswerBuffered, delivery
<1>3. ASSUME NEW a, NEW b, sent' = [status |-> a, items |-> <<>>, output |-> b]
      PROVE  sent'.items = <<>>
  BY <1>3
<1> QED
  BY <1>1, <1>2, <1>3

LEMMA StreamStep ==
  ASSUME StreamInv, [ResponsesNext]_responsesVars
  PROVE  StreamInv'
<1>1. CASE Convert
  <2>1. /\ phase = "items" /\ phase' \in {"items", "post", "refused"}
        /\ UNCHANGED <<s, pending, sent, streaming, error>>
    BY <1>1 DEF Convert, AddItem, EndItems, streamVars, delivery
  <2> QED
    BY <2>1 DEF StreamInv, Early, Unseen
<1>2. CASE Post
  <2>1. /\ phase = "post" /\ phase' = "read" /\ UNCHANGED <<s, pending, sent, streaming, error>>
    BY <1>2 DEF Post, streamVars, delivery
  <2>2. s = Fresh /\ sent = Unseen /\ pending = <<>> /\ error = Blank
    BY <2>1 DEF StreamInv, Early
  <2>3. Script(Unseen, <<>>, Unseen) /\ Agrees(Unseen, Fresh)
    BY UnseenAgrees, NoEvents
  <2>4. \E b : Script(sent', pending', b) /\ Agrees(b, s')
    BY <2>1, <2>2, <2>3
  <2>5. sent.items = <<>>
    BY <2>2 DEF Unseen
  <2> QED
    BY <2>1, <2>2, <2>4, <2>5 DEF StreamInv, Early, Towards
<1>3. CASE ReadChunk
  <2>1. PICK chunk \in Chunks : s' = Consume(chunk).s /\ pending' = Consume(chunk).out
    BY <1>3 DEF ReadChunk
  <2>2. /\ phase = "read" /\ pending = <<>> /\ streaming /\ UNCHANGED <<phase, sent, streaming, error>>
    BY <1>3 DEF ReadChunk, Reading, delivery
  <2>3. PICK b : Script(sent, <<>>, b) /\ Agrees(b, s)
    BY <2>2 DEF StreamInv, Towards
  <2>4. sent = b
    BY <2>3, NothingToReplay
  <2>5. Good(sent, Consume(chunk))
    BY <2>3, <2>4, ConsumeGood
  <2>6. \E d : Script(sent', pending', d) /\ Agrees(d, s')
    BY <2>1, <2>2, <2>5 DEF Good
  <2> QED
    BY <2>2, <2>6 DEF StreamInv, Early, Towards
<1>4. CASE EndOfStream
  <2>1. /\ phase = "read" /\ pending = <<>> /\ streaming /\ UNCHANGED <<s, sent, streaming>>
        /\ error = Blank
    BY <1>4 DEF EndOfStream, Reading, StreamInv, delivery
  <2>2. PICK b : Script(sent, <<>>, b) /\ Agrees(b, s)
    BY <2>1 DEF StreamInv, Towards
  <2>3. sent = b
    BY <2>2, NothingToReplay
  <2>4. CASE s.started
    <3>1. pending' = FinishStream /\ phase' = "finish" /\ error' = error
      BY <1>4, <2>4 DEF EndOfStream
    <3>2. \E d : Script(sent, FinishStream, d) /\ d.status \in Finals /\ FinishStream # <<>>
      BY <2>2, <2>3, <2>4, FinishLegal
    <3> QED
      BY <2>1, <3>1, <3>2 DEF StreamInv, Early, Towards
  <2>5. CASE ~s.started
    <3>1. pending' = pending /\ phase' = "over" /\ error' = "no_chunk"
      BY <1>4, <2>5 DEF EndOfStream
    <3>2. sent.status \notin Finals
      BY <2>2, <2>3 DEF Agrees, Finals
    <3> QED
      BY <2>1, <3>1, <3>2, BlankIsNoError DEF StreamInv, Early, Towards
  <2> QED
    BY <2>4, <2>5
<1>5. CASE BreakStream
  <2>1. /\ phase = "read" /\ pending = <<>> /\ streaming /\ UNCHANGED <<s, pending, sent, streaming>>
        /\ phase' = "over" /\ error' = "read"
    BY <1>5 DEF BreakStream, Reading, delivery
  <2>2. PICK b : Script(sent, <<>>, b) /\ Agrees(b, s)
    BY <2>1 DEF StreamInv, Towards
  <2>3. sent = b
    BY <2>2, NothingToReplay
  <2>4. sent.status \notin Finals
    BY <2>2, <2>3 DEF Agrees, Finals
  <2> QED
    BY <2>1, <2>4, BlankIsNoError DEF StreamInv, Early, Towards
<1>6. CASE Write
  <2>1. /\ pending # <<>> /\ sent' = Replay(sent, Head(pending)) /\ pending' = Tail(pending)
        /\ phase' = (IF phase = "finish" /\ Len(pending) = 1 THEN "over" ELSE phase)
        /\ UNCHANGED <<s, streaming, error>>
    BY <1>6 DEF Write
  <2>2. streaming /\ phase \in {"read", "finish"}
    BY <2>1 DEF StreamInv, Early
  <2>3. CASE phase = "read"
    <3>1. PICK b : Script(sent, pending, b) /\ Agrees(b, s)
      BY <2>2, <2>3 DEF StreamInv, Towards
    <3>2. Script(sent', pending', b)
      BY <2>1, <3>1, FirstEvent
    <3> QED
      BY <2>1, <2>2, <2>3, <3>1, <3>2 DEF StreamInv, Early, Towards
  <2>4. CASE phase = "finish"
    <3>1. PICK b : Script(sent, pending, b) /\ b.status \in Finals
      BY <2>4 DEF StreamInv, Towards
    <3>2. Script(sent', pending', b)
      BY <2>1, <3>1, FirstEvent
    <3>3. PICK T : pending \in Seq(T)
      BY <3>1 DEF Script
    <3>4. /\ pending' \in Seq(T) /\ Len(pending') = Len(pending) - 1 /\ Len(pending) \in Nat
      BY <2>1, <3>3, HeadTailProperties, LenProperties
    <3>5. error = Blank
      BY <2>4 DEF StreamInv
    <3>6. CASE Len(pending) = 1
      <4>1. pending' = <<>>
        <5>1. Len(pending') = 0
          BY <3>4, <3>6
        <5> QED
          BY <3>4, <5>1, EmptySeq
      <4>2. sent' = b
        BY <3>2, <4>1, NothingToReplay
      <4>3. phase' = "over"
        BY <2>1, <2>4, <3>6
      <4> QED
        BY <2>1, <2>2, <3>1, <3>5, <4>1, <4>2, <4>3 DEF StreamInv, Early
    <3>7. CASE Len(pending) # 1
      <4>1. pending' # <<>>
        <5>1. Len(pending') # 0
          BY <3>4, <3>7
        <5> QED
          BY <3>4, <5>1, EmptySeq
      <4>2. phase' = "finish"
        BY <2>1, <2>4, <3>7
      <4> QED
        BY <2>1, <2>2, <3>1, <3>2, <3>5, <4>1, <4>2 DEF StreamInv, Early, Towards
    <3> QED
      BY <3>6, <3>7
  <2> QED
    BY <2>2, <2>3, <2>4
<1>7. CASE WriteFails
  <2>1. /\ pending # <<>> /\ error' = "write" /\ phase' = "over" /\ pending' = <<>>
        /\ UNCHANGED <<s, sent, streaming>>
    BY <1>7 DEF WriteFails, delivery
  <2>2. streaming /\ phase \in {"read", "finish"}
    BY <2>1 DEF StreamInv, Early
  <2>3. PICK b : Script(sent, pending, b)
    BY <2>2 DEF StreamInv, Towards
  <2>4. sent.status \notin Finals
    BY <2>1, <2>3, FirstEvent, NotEnded
  <2> QED
    BY <2>1, <2>2, <2>4, BlankIsNoError DEF StreamInv, Early
<1>8. CASE AnswerBuffered
  <2>1. /\ phase = "read" /\ ~streaming /\ phase' = "over" /\ UNCHANGED <<s, pending, streaming>>
        /\ sent'.items = sent.items \/ sent'.items = <<>>
    BY <1>8, BufferedAnswer
  <2> QED
    BY <2>1 DEF StreamInv, Early
<1>9. CASE UNCHANGED responsesVars
  BY <1>9, StreamKept DEF responsesVars
<1> QED
  BY <1>1, <1>2, <1>3, <1>4, <1>5, <1>6, <1>7, <1>8, <1>9 DEF ResponsesNext

LEMMA StreamHolds == ResponsesSpec => []StreamInv
<1>1. ResponsesInit => StreamInv
  BY StreamStart
<1>2. StreamInv /\ [ResponsesNext]_responsesVars => StreamInv'
  BY StreamStep
<1> QED
  BY <1>1, <1>2, PTL DEF ResponsesSpec

(* What arrived is what was written, until the connection breaks unnoticed;  *)
(* then it stays what it is, and that is no end: whoever has the end lost    *)
(* nothing.                                                                  *)
DeliverInv ==
  /\ cut \in BOOLEAN
  /\ ~cut => client = sent
  /\ streaming /\ cut => client.status \notin Finals
  /\ ~streaming => client.items = <<>>

LEMMA DeliverStep ==
  ASSUME StreamInv, DeliverInv, [ResponsesNext]_responsesVars
  PROVE  DeliverInv'
<1>1. CASE Convert \/ Post \/ ReadChunk \/ EndOfStream \/ BreakStream \/ WriteFails \/ UNCHANGED responsesVars
  <2>1. UNCHANGED <<sent, client, cut, streaming>>
    BY <1>1 DEF Convert, streamVars, delivery, Post, ReadChunk, EndOfStream, BreakStream, WriteFails, responsesVars
  <2> QED
    BY <2>1 DEF DeliverInv
<1>2. CASE AnswerBuffered
  <2>1. /\ ~streaming /\ ~streaming'
        /\ sent'.items = sent.items \/ sent'.items = <<>>
    BY <1>2, BufferedAnswer
  <2>2. sent.items = <<>> /\ client.items = <<>>
    BY <2>1 DEF StreamInv, DeliverInv
  <2>3. Deliver \/ UNCHANGED delivery
    BY <1>2, Zenon DEF AnswerBuffered
  <2> QED
    BY <2>1, <2>2, <2>3 DEF Deliver, delivery, DeliverInv
<1>3. CASE Write
  <2>1. pending # <<>> /\ UNCHANGED streaming /\ Deliver
    BY <1>3 DEF Write
  <2>2. streaming /\ phase \in {"read", "finish"}
    BY <2>1 DEF StreamInv, Early
  <2>3. PICK b : Script(sent, pending, b)
    BY <2>2 DEF StreamInv, Towards
  <2>4. sent.status \notin Finals
    BY <2>1, <2>3, FirstEvent, NotEnded
  <2>5. /\ streaming /\ streaming' = streaming
        /\ \/ ~cut /\ client' = sent' /\ cut' = cut
           \/ cut' = TRUE /\ client' = client
    BY <2>1, <2>2, Zenon DEF Deliver
  <2>6. ~cut => client.status \notin Finals
    BY <2>4, Zenon DEF DeliverInv
  <2>7. client.status \notin Finals
    BY <2>2, <2>6, Zenon DEF DeliverInv
  <2>8. cut' \in BOOLEAN /\ (~cut' => client' = sent')
    BY <2>5, Zenon DEF DeliverInv
  <2>9. cut' => client'.status \notin Finals
    BY <2>5, <2>7, Zenon
  <2> QED
    BY <2>5, <2>8, <2>9, Zenon DEF DeliverInv
<1> QED
  BY <1>1, <1>2, <1>3 DEF ResponsesNext

LEMMA DeliverHolds == ResponsesSpec => [](StreamInv /\ DeliverInv)
<1>1. ResponsesInit => DeliverInv
  <2>1. Unseen.items = <<>>
    BY DEF Unseen
  <2>2. ResponsesInit => cut = FALSE /\ client = sent /\ client = Unseen
    BY Zenon DEF ResponsesInit
  <2> QED
    BY <2>1, <2>2, Zenon DEF DeliverInv
<1>2. StreamInv /\ DeliverInv /\ [ResponsesNext]_responsesVars => DeliverInv'
  BY DeliverStep
<1> QED
  BY <1>1, <1>2, StreamHolds, PTL DEF ResponsesSpec

(* The audit record of a stream has no error exactly when its last event was *)
(* written, whatever the chunks are and wherever the stream or a write       *)
(* fails; a client without the end of a stream left an error, unless its     *)
(* connection broke and no write noticed (responses_compat.go:510-545 and    *)
(* 737-741).                                                                 *)
THEOREM AuditHolds == ResponsesSpec => []AuditTellsTheEnd
<1>1. StreamInv /\ DeliverInv => AuditTellsTheEnd
  BY DEF StreamInv, DeliverInv, AuditTellsTheEnd
<1> QED
  BY <1>1, DeliverHolds, PTL

-----------------------------------------------------------------------------
(* The stream implements ResponseEvents: each event that is written is one   *)
(* of its steps when it arrives, and every other step leaves what the client *)
(* has seen alone.                                                           *)

LEMMA ViewOfCount == ASSUME NEW n \in Nat PROVE ClientView!Cardinality(0 .. n - 1) = n
<1>1. \A S : ClientView!Cardinality(S) = Cardinality(S)
  BY DEF ClientView!Cardinality, Cardinality
<1>2. Cardinality(0 .. n - 1) = n
  <2> DEFINE m == n - 1
  <2>1. 0 \in Int /\ m \in Int /\ m - 0 + 1 = n /\ (0 > m => n = 0)
    OBVIOUS
  <2> HIDE DEF m
  <2>2. Cardinality(0 .. m) = IF 0 > m THEN 0 ELSE m - 0 + 1
    BY <2>1, FS_Interval
  <2>3. Cardinality(0 .. m) = n
    BY <2>1, <2>2
  <2> QED
    BY <2>3 DEF m
<1> QED
  BY <1>1, <1>2

LEMMA AnnounceSeen ==
  ASSUME streaming, streaming', Announces(client, client')
  PROVE  ClientView!Next
BY DEF Announces, ClientView!Next, ClientView!Announce

LEMMA OpenSeen ==
  ASSUME streaming, streaming', Opens(client, client')
  PROVE  ClientView!Next
<1>1. PICK n \in Nat :
        /\ DOMAIN client.items = 0 .. n - 1 /\ DOMAIN client'.items = 0 .. n
        /\ \A i \in 0 .. n - 1 : client'.items[i] = client.items[i]
        /\ client'.items[n].stage = "added" /\ client'.items[n].content = <<>>
  BY DEF Opens
<1>2. ClientView!Cardinality(DOMAIN client.items) = n
  BY <1>1, ViewOfCount
<1>3. client.status = "in_progress" /\ client'.status = client.status /\ client'.output = client.output
  BY DEF Opens
<1>4. ClientView!Open
  BY <1>1, <1>2, <1>3 DEF ClientView!Open
<1> QED
  BY <1>4 DEF ClientView!Next

LEMMA ChangeSeen ==
  ASSUME streaming, streaming', client \in Clients, Alters(client, client')
  PROVE  ClientView!Next
<1>1. /\ client.status = "in_progress" /\ client'.status = client.status /\ client'.output = client.output
      /\ DOMAIN client'.items = DOMAIN client.items
  BY DEF Alters
<1>2. PICK i \in DOMAIN client.items :
        /\ \A j \in DOMAIN client.items \ {i} : client'.items[j] = client.items[j]
        /\ Grown(client, client', i) \/ Advanced(client, client', i)
  BY DEF Alters
<1>3. CASE Grown(client, client', i)
  <2>1. client'.items[i].id = client.items[i].id /\ client'.items[i].kind = client.items[i].kind
    <3> DEFINE x == client.items[i]
               v == client'.items[i].content
    <3>1. x \in Items
      BY ClientShape
    <3>2. x = [id |-> x.id, kind |-> x.kind, call |-> x.call, name |-> x.name,
               content |-> x.content, stage |-> x.stage]
      BY <3>1, ItemShape
    <3>3. client'.items[i] = [x EXCEPT !.content = v]
      BY <1>3 DEF Grown
    <3> HIDE DEF x, v
    <3>4. client'.items[i].id = x.id /\ client'.items[i].kind = x.kind
      BY <3>2, <3>3
    <3> QED
      BY <3>4 DEF x
  <2>2. ClientView!Changes(i)
    BY <1>1, <1>2, <2>1 DEF ClientView!Changes
  <2>3. ClientView!Grows(client.items[i])
    BY <1>3 DEF Grown, ClientView!Grows
  <2>4. ClientView!IsStrictPrefix(client.items[i].content, client'.items[i].content)
    BY <1>3 DEF Grown, IsStrictPrefix, IsPrefix, ClientView!IsStrictPrefix, ClientView!IsPrefix
  <2>5. client'.items[i] = [client.items[i] EXCEPT !.content = client'.items[i].content]
    BY <1>3 DEF Grown
  <2>6. ClientView!Extend(i)
    BY <2>2, <2>3, <2>4, <2>5 DEF ClientView!Extend
  <2> QED
    BY <2>6 DEF ClientView!Next
<1>4. CASE Advanced(client, client', i)
  <2>1. client'.items[i].id = client.items[i].id /\ client'.items[i].kind = client.items[i].kind
    BY <1>4 DEF Advanced
  <2>2. ClientView!Changes(i)
    BY <1>1, <1>2, <2>1 DEF ClientView!Changes
  <2>3. client'.items[i].stage \in ClientView!NextStages(client.items[i])
    BY <1>4 DEF Advanced, NextOf, ClientView!NextStages
  <2>4. /\ client'.items[i].content = client.items[i].content
        /\ client'.items[i].stage # "closed" =>
             client'.items[i] = [client.items[i] EXCEPT !.stage = client'.items[i].stage]
    BY <1>4 DEF Advanced
  <2>5. ClientView!Advance(i)
    BY <2>2, <2>3, <2>4 DEF ClientView!Advance
  <2> QED
    BY <2>5 DEF ClientView!Next
<1> QED
  BY <1>2, <1>3, <1>4

LEMMA EndSeen ==
  ASSUME streaming, streaming', Ends(client, client')
  PROVE  ClientView!Next
<1>1. ClientView!End
  BY DEF Ends, Finals, ClientView!End, ClientView!Ended
<1> QED
  BY <1>1 DEF ClientView!Next

LEMMA ViewKept ==
  ASSUME UNCHANGED <<client, streaming>>
  PROVE  UNCHANGED ClientView!vars
BY DEF ClientView!vars

LEMMA ViewStep ==
  ASSUME StreamInv, DeliverInv, [ResponsesNext]_responsesVars
  PROVE  [ClientView!Next]_(ClientView!vars)
<1>1. CASE Convert \/ Post \/ ReadChunk \/ EndOfStream \/ BreakStream \/ WriteFails \/ UNCHANGED responsesVars
  <2>1. UNCHANGED <<client, streaming>>
    BY <1>1 DEF Convert, streamVars, delivery, Post, ReadChunk, EndOfStream, BreakStream, WriteFails, responsesVars
  <2> QED
    BY <2>1, ViewKept
<1>2. CASE AnswerBuffered
  <2>1. ~streaming /\ ~streaming'
    BY <1>2, BufferedAnswer
  <2>2. client.items = <<>> /\ client'.items = <<>>
    BY <1>2, <2>1, DeliverStep DEF DeliverInv
  <2>3. UNCHANGED ClientView!vars
    BY <2>1, <2>2 DEF ClientView!vars
  <2> QED
    BY <2>3
<1>3. CASE Write
  <2>1. /\ pending # <<>> /\ sent' = Replay(sent, Head(pending)) /\ UNCHANGED streaming /\ Deliver
    BY <1>3 DEF Write
  <2>2. streaming /\ phase \in {"read", "finish"}
    BY <2>1 DEF StreamInv, Early
  <2>3. PICK b : Script(sent, pending, b)
    BY <2>2 DEF StreamInv, Towards
  <2>4. Legal(sent, Head(pending), sent')
    BY <2>1, <2>3, FirstEvent
  <2>5. streaming'
    BY <2>1, <2>2
  <2>6. CASE client' = client
    BY <2>1, <2>6, ViewKept
  <2>7. CASE client' # client
    <3>1. client = sent /\ client' = sent'
      BY <2>1, <2>7 DEF Deliver, DeliverInv
    <3>2. Legal(client, Head(pending), client')
      BY <2>4, <3>1
    <3>3. \/ Announces(client, client') \/ Opens(client, client')
          \/ Alters(client, client') \/ Ends(client, client')
      BY <3>2 DEF Legal
    <3> QED
      BY <2>2, <2>5, <3>2, <3>3, AnnounceSeen, OpenSeen, ChangeSeen, EndSeen DEF Legal
  <2> QED
    BY <2>6, <2>7
<1> QED
  BY <1>1, <1>2, <1>3 DEF ResponsesNext

(* The events of every stream, whatever the chunks are and wherever it       *)
(* breaks, are a prefix of a well-formed Responses stream: opened in order,  *)
(* each item closed with what its deltas spelled, the last event repeating   *)
(* them all (responses_compat.go:548-722).                                   *)
THEOREM EventsHold == ResponsesSpec => EventsWellFormed
<1>1. ResponsesInit => ClientView!Init
  <2>1. ResponsesInit => client.status = "none" /\ client.items = <<>> /\ client.output = <<>>
    <3>1. ResponsesInit => client = Unseen
      BY DEF ResponsesInit
    <3>2. Unseen.status = "none" /\ Unseen.items = <<>> /\ Unseen.output = <<>>
      BY DEF Unseen
    <3> QED
      BY <3>1, <3>2
  <2> QED
    BY <2>1, Zenon DEF ClientView!Init
<1>2. StreamInv /\ DeliverInv /\ [ResponsesNext]_responsesVars => [ClientView!Next]_(ClientView!vars)
  BY ViewStep
<1> QED
  BY <1>1, <1>2, DeliverHolds, PTL DEF ResponsesSpec, EventsWellFormed, ClientView!Spec

-----------------------------------------------------------------------------
(* Lists of sequences and what they join to.                                 *)

LEMMA Associates == ASSUME NEW S PROVE \A u, v, w \in Seq(S) : (u \o v) \o w = u \o (v \o w)
<1> TAKE u, v, w \in Seq(S)
<1> QED
  BY SMTT(30), ConcatAssociative

LEMMA FlattenNothing == ASSUME NEW S, NEW f \in [1 .. 0 -> S] PROVE FlattenSeq(f) = <<>>
<1>1. 1 .. 0 = {} /\ f \in Seq(S) /\ Len(f) = 0
  <2>1. 1 .. 0 = {} /\ 0 \in Nat
    OBVIOUS
  <2> QED
    BY <2>1, SeqDef, LenProperties
<1>2. f = <<>>
  BY <1>1, EmptySeq
<1>3. FlattenSeq(f) = f
  BY <1>1 DEF FlattenSeq
<1> QED
  BY <1>2, <1>3

(* A list that is one longer than another joins to one sequence more.        *)
LEMMA FlattenStep ==
  ASSUME NEW S, NEW n \in Nat, NEW f \in [1 .. n -> Seq(S)],
         NEW g \in [1 .. n + 1 -> Seq(S)], \A i \in 1 .. n : g[i] = f[i]
  PROVE  /\ FlattenSeq(f) \in Seq(S)
         /\ FlattenSeq(g) = FlattenSeq(f) \o g[n + 1]
<1>1. f \in Seq(Seq(S)) /\ Len(f) = n /\ g \in Seq(Seq(S)) /\ Len(g) = n + 1
  <2> DEFINE T == Seq(S)
             m == n + 1
  <2>1. f \in [1 .. n -> T] /\ g \in [1 .. m -> T] /\ m \in Nat
    OBVIOUS
  <2> HIDE DEF T, m
  <2>2. f \in Seq(T) /\ g \in Seq(T)
    BY <2>1, SeqDef
  <2>3. Len(f) = n /\ Len(g) = m
    BY <2>1, <2>2, LenProperties
  <2> QED
    BY <2>2, <2>3 DEF T, m
<1>2. g # <<>>
  BY <1>1, EmptySeq
<1>3. PICK b : Joins(g, b) /\ FlattenSeq(g) = b[n + 1]
  BY <1>1, <1>2, FlattenJoins
<1>4. n + 1 \in 1 .. n + 1 /\ g[n + 1] \in Seq(S)
  OBVIOUS
<1>5. CASE n = 0
  <2>1. FlattenSeq(f) = <<>>
    BY <1>5, FlattenNothing
  <2>2. FlattenSeq(g) = g[n + 1]
    BY <1>3, <1>5 DEF Joins
  <2>3. <<>> \in Seq(S) /\ <<>> \o g[n + 1] = g[n + 1]
    BY <1>4, EmptySeq, ConcatEmptySeq
  <2> QED
    BY <2>1, <2>2, <2>3
<1>6. CASE n # 0
  <2>1. f # <<>>
    BY <1>1, <1>6, EmptySeq
  <2>2. PICK a : Joins(f, a) /\ FlattenSeq(f) = a[n]
    BY <1>1, <2>1, FlattenJoins
  <2> DEFINE T == {k \in Nat : k = 0 \/ (a[k] = b[k] /\ a[k] \in Seq(S))}
  <2>3. 0 \in T
    OBVIOUS
  <2>4. ASSUME NEW k \in 0 .. n - 1, k \in T PROVE k + 1 \in T
    <3>1. k \in Nat /\ k + 1 \in 1 .. n /\ f[k + 1] \in Seq(S) /\ g[k + 1] = f[k + 1]
      OBVIOUS
    <3>2. CASE k = 0
      <4>1. a[1] = f[1] /\ b[1] = g[1]
        BY <1>3, <2>2 DEF Joins
      <4> QED
        BY <3>1, <3>2, <4>1
    <3>3. CASE k # 0
      <4>1. a[k] = b[k] /\ a[k] \in Seq(S)
        BY <2>4, <3>3
      <4> DEFINE j == k + 1
      <4>2. j \in 2 .. n /\ j \in 2 .. n + 1 /\ j - 1 = k
        BY <3>1, <3>3
      <4>3. \A i \in 2 .. n : a[i] = a[i - 1] \o f[i]
        BY <1>1, <2>2 DEF Joins
      <4>4. \A i \in 2 .. n + 1 : b[i] = b[i - 1] \o g[i]
        BY <1>1, <1>3 DEF Joins
      <4>5. j \in Nat /\ f[j] \in Seq(S) /\ g[j] = f[j]
        BY <3>1
      <4> HIDE DEF j
      <4>6. a[j] = a[j - 1] \o f[j] /\ b[j] = b[j - 1] \o g[j]
        BY <4>2, <4>3, <4>4
      <4>7. a[j] = a[k] \o f[j] /\ b[j] = b[k] \o g[j]
        BY <4>2, <4>6
      <4>8. a[k] \o f[j] \in Seq(S)
        BY <4>1, <4>5, ConcatProperties
      <4>9. j \in T
        BY <4>1, <4>5, <4>7, <4>8
      <4> QED
        BY <4>9 DEF j
    <3> QED
      BY <3>2, <3>3
  <2>5. n \in T
    <3> HIDE DEF T
    <3>1. 0 .. n \subseteq T
      BY <2>3, <2>4, Climb
    <3> QED
      BY <3>1
  <2>6. a[n] = b[n] /\ a[n] \in Seq(S)
    BY <1>6, <2>5
  <2>7. b[n + 1] = b[n] \o g[n + 1]
    <3> DEFINE j == n + 1
    <3>1. j \in 2 .. n + 1 /\ j - 1 = n
      BY <1>6
    <3>2. \A i \in 2 .. n + 1 : b[i] = b[i - 1] \o g[i]
      BY <1>1, <1>3 DEF Joins
    <3> HIDE DEF j
    <3>3. b[j] = b[n] \o g[j]
      BY <3>1, <3>2
    <3> QED
      BY <3>3 DEF j
  <2> QED
    BY <1>3, <2>2, <2>6, <2>7
<1> QED
  BY <1>5, <1>6

(* What holds of no element and goes from a sequence to every longer one     *)
(* holds of all.                                                             *)
LEMMA SeqClimb ==
  ASSUME NEW S, NEW T, <<>> \in T, \A l \in Seq(S), x \in S : l \in T => Append(l, x) \in T
  PROVE  Seq(S) \subseteq T
<1> SUFFICES ASSUME NEW l \in Seq(S) PROVE l \in T
  OBVIOUS
<1> DEFINE n == Len(l)
           part(k) == [i \in 1 .. k |-> l[i]]
           U == {k \in Nat : part(k) \in T}
<1>1. n \in Nat /\ l \in [1 .. n -> S]
  BY LenProperties
<1>2. 0 \in U
  <2>1. part(0) = <<>>
    OBVIOUS
  <2> QED
    BY <2>1
<1>3. ASSUME NEW k \in 0 .. n - 1, k \in U PROVE k + 1 \in U
  <2> DEFINE p == part(k)
             q == part(k + 1)
  <2>1. k \in Nat /\ k + 1 \in Nat /\ k + 1 \in 1 .. n /\ l[k + 1] \in S
    BY <1>1
  <2>2. p \in Seq(S) /\ q \in Seq(S) /\ Len(p) = k /\ Len(q) = k + 1
    <3> HIDE DEF n
    <3>1. \A i \in 1 .. k + 1 : i \in 1 .. n /\ l[i] \in S
      BY <1>1, <2>1
    <3>2. p \in [1 .. k -> S]
      BY <2>1, <3>1
    <3>3. q \in [1 .. k + 1 -> S]
      BY <2>1, <3>1
    <3> HIDE DEF p, q
    <3> DEFINE j == k + 1
    <3>4. j \in Nat /\ q \in [1 .. j -> S]
      BY <2>1, <3>3
    <3> HIDE DEF j
    <3>5. p \in Seq(S) /\ q \in Seq(S)
      BY <2>1, <3>2, <3>4, SeqDef
    <3>6. Len(p) = k /\ Len(q) = j
      BY <2>1, <3>2, <3>4, <3>5, LenProperties
    <3> QED
      BY <3>5, <3>6 DEF j
  <2>3. \A i \in 1 .. k : p[i] = l[i] /\ q[i] = l[i]
    BY <2>1
  <2>4. q[k + 1] = l[k + 1] /\ p \in T
    BY <1>3, <2>1
  <2> HIDE DEF p, q
  <2>5. Append(p, l[k + 1]) = q
    <3>1. /\ Append(p, l[k + 1]) \in Seq(S) /\ Len(Append(p, l[k + 1])) = k + 1
          /\ \A i \in 1 .. k : Append(p, l[k + 1])[i] = p[i]
          /\ Append(p, l[k + 1])[k + 1] = l[k + 1]
      BY <2>1, <2>2, AppendProperties
    <3>2. \A i \in 1 .. k + 1 : Append(p, l[k + 1])[i] = q[i]
      BY <2>1, <2>3, <2>4, <3>1
    <3> QED
      BY <2>2, <3>1, <3>2, SeqEqual
  <2>6. q \in T
    BY <1>3, <2>1, <2>2, <2>4, <2>5
  <2> QED
    BY <2>1, <2>6 DEF q
<1>4. n \in U
  <2> HIDE DEF U
  <2>1. 0 .. n \subseteq U
    BY <1>1, <1>2, <1>3, Climb
  <2> QED
    BY <1>1, <2>1
<1>5. part(n) = l
  BY <1>1
<1> QED
  BY <1>4, <1>5

-----------------------------------------------------------------------------
(* What is asked and what is told, item by item and message by message.      *)

Facts ==
  (RoleNames \X Seq(Tokens)) \cup ({"function_call"} \X Nat \X BOOLEAN)
    \cup ({"function_call_output"} \X Nat)

SystemPart(m) == IF m.role \in SystemRoles THEN m.texts ELSE <<>>

LEMMA ContentsTyped == ASSUME NEW m \in MessageType PROVE Contents(m) \in Seq(Facts)
<1>1. m.role \in RoleNames /\ m.texts \in Seq(Tokens) /\ m.calls \in Seq(Nat)
  BY DEF MessageType, Roles
<1>2. CASE m.role \in SystemRoles
  <2>1. <<>> \in Seq(Facts)
    BY EmptySeq
  <2> QED
    BY <1>2, <2>1 DEF Contents
<1>3. CASE m.role \notin SystemRoles /\ m.calls = <<>>
  <2>1. <<m.role, m.texts>> \in Facts
    BY <1>1 DEF Facts
  <2>2. <<<<m.role, m.texts>>>> \in Seq(Facts)
    BY <2>1
  <2> QED
    BY <1>3, <2>2 DEF Contents
<1>4. CASE m.role \notin SystemRoles /\ m.calls # <<>>
  <2>1. Len(m.calls) \in Nat /\ \A i \in 1 .. Len(m.calls) : m.calls[i] \in Nat
    BY <1>1, LenProperties, ElementOfSeq
  <2>2. 1 \in 1 .. Len(m.calls)
    BY <1>1, <1>4, EmptySeq
  <2>3. CASE m.role = "tool"
    <3>1. <<"function_call_output", m.calls[1]>> \in Facts
      BY <2>1, <2>2 DEF Facts
    <3>2. <<<<"function_call_output", m.calls[1]>>>> \in Seq(Facts)
      BY <3>1
    <3> QED
      BY <1>4, <2>3, <3>2 DEF Contents
  <2>4. CASE m.role # "tool"
    <3> DEFINE f == [i \in 1 .. Len(m.calls) |-> <<"function_call", m.calls[i], i = 1>>]
    <3>1. \A i \in 1 .. Len(m.calls) : <<"function_call", m.calls[i], i = 1>> \in Facts
      BY <2>1 DEF Facts
    <3>2. f \in [1 .. Len(m.calls) -> Facts]
      BY <3>1
    <3>3. Contents(m) = f
      BY <1>4, <2>4 DEF Contents
    <3> HIDE DEF f
    <3> QED
      BY <2>1, <3>2, <3>3, SeqDef
  <2> QED
    BY <2>3, <2>4
<1> QED
  BY <1>2, <1>3, <1>4

LEMMA SystemTextsAppend ==
  ASSUME NEW list \in Seq(MessageType), NEW m \in MessageType
  PROVE  /\ SystemTexts(list) \in Seq(Tokens)
         /\ SystemTexts(Append(list, m)) = SystemTexts(list) \o SystemPart(m)
<1> DEFINE n == Len(list)
           more == Append(list, m)
           f == [i \in 1 .. Len(list) |-> SystemPart(list[i])]
           g == [i \in 1 .. Len(more) |-> SystemPart(more[i])]
<1>1. /\ n \in Nat /\ Len(more) = n + 1 /\ more[n + 1] = m
      /\ \A i \in 1 .. n : more[i] = list[i] /\ list[i] \in MessageType
  BY LenProperties, AppendProperties, ElementOfSeq
<1>2. \A x \in MessageType : SystemPart(x) \in Seq(Tokens)
  BY EmptySeq DEF SystemPart, MessageType
<1>3. FlattenSeq(f) = SystemTexts(list) /\ FlattenSeq(g) = SystemTexts(more)
  BY Zenon DEF SystemTexts, SystemPart
<1> HIDE DEF n, more
<1>4. \A i \in 1 .. n + 1 : more[i] \in MessageType
  BY <1>1
<1>5. f \in [1 .. n -> Seq(Tokens)] /\ g \in [1 .. n + 1 -> Seq(Tokens)]
  BY <1>1, <1>2, <1>4 DEF n
<1>6. (\A i \in 1 .. n : g[i] = f[i]) /\ g[n + 1] = SystemPart(m)
  BY <1>1 DEF n
<1> HIDE DEF f, g
<1>7. FlattenSeq(f) \in Seq(Tokens) /\ FlattenSeq(g) = FlattenSeq(f) \o g[n + 1]
  BY <1>1, <1>5, <1>6, FlattenStep
<1> QED
  BY <1>3, <1>6, <1>7 DEF more

LEMMA ToldAppend ==
  ASSUME NEW list \in Seq(MessageType), NEW m \in MessageType
  PROVE  /\ Told(list) \in Seq(Facts)
         /\ Told(Append(list, m)) = Told(list) \o Contents(m)
<1> DEFINE n == Len(list)
           more == Append(list, m)
           f == [i \in 1 .. Len(list) |-> Contents(list[i])]
           g == [i \in 1 .. Len(more) |-> Contents(more[i])]
<1>1. /\ n \in Nat /\ Len(more) = n + 1 /\ more[n + 1] = m
      /\ \A i \in 1 .. n : more[i] = list[i] /\ list[i] \in MessageType
  BY LenProperties, AppendProperties, ElementOfSeq
<1>3. FlattenSeq(f) = Told(list) /\ FlattenSeq(g) = Told(more)
  BY Zenon DEF Told
<1> HIDE DEF n, more
<1>4. \A i \in 1 .. n + 1 : more[i] \in MessageType
  BY <1>1
<1>5. f \in [1 .. n -> Seq(Facts)] /\ g \in [1 .. n + 1 -> Seq(Facts)]
  BY <1>1, <1>4, ContentsTyped DEF n
<1>6. (\A i \in 1 .. n : g[i] = f[i]) /\ g[n + 1] = Contents(m)
  BY <1>1 DEF n
<1> HIDE DEF f, g
<1>7. FlattenSeq(f) \in Seq(Facts) /\ FlattenSeq(g) = FlattenSeq(f) \o g[n + 1]
  BY <1>1, <1>5, <1>6, FlattenStep
<1> QED
  BY <1>3, <1>6, <1>7 DEF more

LEMMA OthersAppend ==
  ASSUME NEW list \in Seq(MessageType), NEW m \in MessageType
  PROVE  /\ Others(list) \in Seq(MessageType)
         /\ Others(Append(list, m)) =
              IF m.role \in SystemRoles THEN Others(list) ELSE Append(Others(list), m)
<1> DEFINE n == Len(list)
           more == Append(list, m)
           Kept(x) == IF x.role \in SystemRoles THEN <<>> ELSE <<x>>
           f == [i \in 1 .. Len(list) |-> Kept(list[i])]
           g == [i \in 1 .. Len(more) |-> Kept(more[i])]
<1>1. /\ n \in Nat /\ Len(more) = n + 1 /\ more[n + 1] = m
      /\ \A i \in 1 .. n : more[i] = list[i] /\ list[i] \in MessageType
  BY LenProperties, AppendProperties, ElementOfSeq
<1>2. \A x \in MessageType : Kept(x) \in Seq(MessageType)
  BY EmptySeq
<1>3. FlattenSeq(f) = Others(list) /\ FlattenSeq(g) = Others(more)
  BY Zenon DEF Others
<1>8. Kept(m) = (IF m.role \in SystemRoles THEN <<>> ELSE <<m>>)
  OBVIOUS
<1> HIDE DEF n, more, Kept
<1>4. \A i \in 1 .. n + 1 : more[i] \in MessageType
  BY <1>1
<1>5. f \in [1 .. n -> Seq(MessageType)] /\ g \in [1 .. n + 1 -> Seq(MessageType)]
  BY <1>1, <1>2, <1>4 DEF n
<1>6. (\A i \in 1 .. n : g[i] = f[i]) /\ g[n + 1] = Kept(m)
  BY <1>1 DEF n
<1> HIDE DEF f, g
<1>7. FlattenSeq(f) \in Seq(MessageType) /\ FlattenSeq(g) = FlattenSeq(f) \o g[n + 1]
  BY <1>1, <1>5, <1>6, FlattenStep
<1>9. Others(list) \in Seq(MessageType) /\ Others(more) = Others(list) \o Kept(m)
  BY <1>3, <1>6, <1>7
<1>10. Others(list) \o <<>> = Others(list) /\ Append(Others(list), m) = Others(list) \o <<m>>
  BY <1>9, ConcatEmptySeq, AppendIsConcat
<1> QED
  BY <1>8, <1>9, <1>10, Zenon DEF more

(* A call is at the end of the list, with nothing but calls and reasoning    *)
(* after it.                                                                 *)
Open(list) ==
  \E i \in 1 .. Len(list) :
    /\ list[i].type = "function_call"
    /\ \A j \in i .. Len(list) : list[j].type \in {"function_call", "reasoning"}

InstructedPart(item) == IF IsSystem(item) THEN item.texts ELSE <<>>

(* What an item asks for; leads says whether it leads its calls              *)
AskedItem(item, leads) ==
  IF IsSystem(item) \/ item.type = "reasoning" THEN <<>>
  ELSE IF item.type = "message" THEN <<<<item.role, item.texts>>>>
  ELSE IF item.type = "function_call" THEN <<<<"function_call", item.call, leads>>>>
  ELSE <<<<"function_call_output", item.call>>>>

LEMMA AskedItemTyped ==
  ASSUME NEW item \in RequestItems, NEW leads \in BOOLEAN
  PROVE  AskedItem(item, leads) \in Seq(Facts)
<1>1. item.role \in RoleNames /\ item.texts \in Seq(Tokens) /\ item.call \in Nat
  BY DEF RequestItems
<1>2. /\ <<item.role, item.texts>> \in Facts
      /\ <<"function_call", item.call, leads>> \in Facts
      /\ <<"function_call_output", item.call>> \in Facts
  BY <1>1 DEF Facts
<1>3. \A x \in Facts : <<x>> \in Seq(Facts)
  OBVIOUS
<1>4. <<>> \in Seq(Facts)
  BY EmptySeq
<1>5. /\ <<<<item.role, item.texts>>>> \in Seq(Facts)
      /\ <<<<"function_call", item.call, leads>>>> \in Seq(Facts)
      /\ <<<<"function_call_output", item.call>>>> \in Seq(Facts)
  BY <1>2, <1>3, Zenon
<1> QED
  BY <1>4, <1>5, Zenon DEF AskedItem

LEMMA InstructedAppend ==
  ASSUME NEW list \in Seq(RequestItems), NEW item \in RequestItems
  PROVE  /\ Instructed(list) \in Seq(Tokens)
         /\ Instructed(Append(list, item)) = Instructed(list) \o InstructedPart(item)
<1> DEFINE n == Len(list)
           more == Append(list, item)
           f == [i \in 1 .. Len(list) |-> InstructedPart(list[i])]
           g == [i \in 1 .. Len(more) |-> InstructedPart(more[i])]
<1>1. /\ n \in Nat /\ Len(more) = n + 1 /\ more[n + 1] = item
      /\ \A i \in 1 .. n : more[i] = list[i] /\ list[i] \in RequestItems
  BY LenProperties, AppendProperties, ElementOfSeq
<1>2. \A x \in RequestItems : InstructedPart(x) \in Seq(Tokens)
  BY EmptySeq DEF InstructedPart, RequestItems
<1>3. FlattenSeq(f) = Instructed(list) /\ FlattenSeq(g) = Instructed(more)
  BY Zenon DEF Instructed, InstructedPart
<1> HIDE DEF n, more
<1>4. \A i \in 1 .. n + 1 : more[i] \in RequestItems
  BY <1>1
<1>5. f \in [1 .. n -> Seq(Tokens)] /\ g \in [1 .. n + 1 -> Seq(Tokens)]
  BY <1>1, <1>2, <1>4 DEF n
<1>6. (\A i \in 1 .. n : g[i] = f[i]) /\ g[n + 1] = InstructedPart(item)
  BY <1>1 DEF n
<1> HIDE DEF f, g
<1>7. FlattenSeq(f) \in Seq(Tokens) /\ FlattenSeq(g) = FlattenSeq(f) \o g[n + 1]
  BY <1>1, <1>5, <1>6, FlattenStep
<1> QED
  BY <1>3, <1>6, <1>7 DEF more

(* Whether an item leads depends on the items up to it alone.                *)
LEMMA LeadsAppend ==
  ASSUME NEW list \in Seq(RequestItems), NEW item \in RequestItems
  PROVE  /\ \A k \in 1 .. Len(list) : Leads(Append(list, item), k) = Leads(list, k)
         /\ item.type = "function_call" =>
              Leads(Append(list, item), Len(list) + 1) = ~Open(list)
<1> DEFINE n == Len(list)
           more == Append(list, item)
<1>1. /\ n \in Nat /\ Len(more) = n + 1 /\ more[n + 1] = item
      /\ \A i \in 1 .. n : more[i] = list[i]
  BY LenProperties, AppendProperties
<1> HIDE DEF n, more
<1>2. ASSUME NEW k \in 1 .. n PROVE Leads(more, k) = Leads(list, k)
  <2>1. \A i \in 1 .. k - 1 : i \in 1 .. n /\ \A j \in i .. k : j \in 1 .. n
    BY <1>1, <1>2
  <2>2. \A i \in 1 .. k - 1 : more[i] = list[i] /\ \A j \in i .. k : more[j] = list[j]
    BY <1>1, <2>1
  <2> QED
    BY <2>2 DEF Leads
<1>3. ASSUME item.type = "function_call" PROVE Leads(more, n + 1) = ~Open(list)
  <2>1. n + 1 - 1 = n /\ \A i \in 1 .. n : \A j \in i .. n + 1 : j = n + 1 \/ j \in i .. n
    BY <1>1
  <2>2. \A i \in 1 .. n : n + 1 \in i .. n + 1 /\ \A j \in i .. n : j \in i .. n + 1 /\ j \in 1 .. n
    BY <1>1
  <2>3. ASSUME NEW i \in 1 .. n
        PROVE  (\A j \in i .. n + 1 : more[j].type \in {"function_call", "reasoning"})
                 <=> (\A j \in i .. n : list[j].type \in {"function_call", "reasoning"})
    BY <1>1, <1>3, <2>1, <2>2
  <2>4. \A i \in 1 .. n : more[i].type = "function_call" <=> list[i].type = "function_call"
    BY <1>1
  <2>5. Open(list) <=>
          \E i \in 1 .. n : /\ list[i].type = "function_call"
                            /\ \A j \in i .. n : list[j].type \in {"function_call", "reasoning"}
    BY DEF Open, n
  <2>6. Leads(more, n + 1) <=>
          ~ \E i \in 1 .. n : /\ more[i].type = "function_call"
                              /\ \A j \in i .. n + 1 : more[j].type \in {"function_call", "reasoning"}
    <3> DEFINE m == n + 1
    <3>1. Leads(more, m) <=>
            ~ \E i \in 1 .. m - 1 : /\ more[i].type = "function_call"
                                    /\ \A j \in i .. m : more[j].type \in {"function_call", "reasoning"}
      BY Zenon DEF Leads
    <3>2. 1 .. m - 1 = 1 .. n
      <4>1. m - 1 = n
        BY <1>1
      <4> QED
        BY <4>1
    <3> QED
      BY <3>1, <3>2, Zenon
  <2>7. Leads(more, n + 1) <=> ~Open(list)
    BY <2>3, <2>4, <2>5, <2>6
  <2>8. Leads(more, n + 1) \in BOOLEAN /\ Open(list) \in BOOLEAN
    BY DEF Leads, Open
  <2> QED
    BY <2>7, <2>8
<1> QED
  BY <1>2, <1>3 DEF n, more

LEMMA OpenAppend ==
  ASSUME NEW list \in Seq(RequestItems), NEW item \in RequestItems
  PROVE  Open(Append(list, item)) <=>
           \/ item.type = "function_call"
           \/ item.type = "reasoning" /\ Open(list)
<1> DEFINE n == Len(list)
           more == Append(list, item)
           Rest(i) == \A j \in i .. n : list[j].type \in {"function_call", "reasoning"}
           All(i) == \A j \in i .. n + 1 : more[j].type \in {"function_call", "reasoning"}
<1>1. /\ n \in Nat /\ Len(more) = n + 1 /\ more[n + 1] = item
      /\ \A i \in 1 .. n : more[i] = list[i]
  BY LenProperties, AppendProperties
<1>2. Open(list) <=> \E i \in 1 .. n : list[i].type = "function_call" /\ Rest(i)
  BY DEF Open
<1>3. Open(more) <=> \E i \in 1 .. n + 1 : more[i].type = "function_call" /\ All(i)
  BY <1>1 DEF Open
<1> HIDE DEF n, more
<1>4. \A i \in 1 .. n : \A j \in i .. n : j \in 1 .. n /\ j \in i .. n + 1
  BY <1>1
<1>5. \A i \in 1 .. n : n + 1 \in i .. n + 1 /\ \A j \in i .. n + 1 : j = n + 1 \/ j \in i .. n
  BY <1>1
<1>6. \A i \in 1 .. n : All(i) <=> Rest(i) /\ item.type \in {"function_call", "reasoning"}
  BY <1>1, <1>4, <1>5
<1>7. All(n + 1) <=> item.type \in {"function_call", "reasoning"}
  <2>1. \A j \in n + 1 .. n + 1 : j = n + 1
    BY <1>1
  <2>2. n + 1 \in n + 1 .. n + 1
    BY <1>1
  <2> QED
    BY <1>1, <2>1, <2>2
<1>8. \A i \in 1 .. n + 1 : i = n + 1 \/ i \in 1 .. n
  BY <1>1
<1>9. n + 1 \in 1 .. n + 1 /\ \A i \in 1 .. n : i \in 1 .. n + 1
  BY <1>1
<1> HIDE DEF All, Rest
<1>10. CASE item.type = "function_call"
  BY <1>1, <1>3, <1>7, <1>9, <1>10 DEF more
<1>11. CASE item.type # "function_call"
  <2>1. Open(more) <=> \E i \in 1 .. n : list[i].type = "function_call" /\ All(i)
    BY <1>1, <1>3, <1>8, <1>9, <1>11
  <2> QED
    BY <1>2, <1>6, <1>11, <2>1 DEF more
<1> QED
  BY <1>10, <1>11

LEMMA AskedAppend ==
  ASSUME NEW list \in Seq(RequestItems), NEW item \in RequestItems
  PROVE  /\ Asked(list) \in Seq(Facts)
         /\ Asked(Append(list, item)) = Asked(list) \o AskedItem(item, ~Open(list))
<1> DEFINE n == Len(list)
           more == Append(list, item)
           f == [i \in 1 .. Len(list) |-> AskedItem(list[i], Leads(list, i))]
           g == [i \in 1 .. Len(more) |-> AskedItem(more[i], Leads(more, i))]
<1>1. /\ n \in Nat /\ Len(more) = n + 1 /\ more[n + 1] = item
      /\ \A i \in 1 .. n : more[i] = list[i] /\ list[i] \in RequestItems
  BY LenProperties, AppendProperties, ElementOfSeq
<1>2. \A x, i : Leads(x, i) \in BOOLEAN
  BY DEF Leads
<1>3. FlattenSeq(f) = Asked(list) /\ FlattenSeq(g) = Asked(more)
  BY Zenon DEF Asked, AskedItem
<1>10. (\A i \in 1 .. n : Leads(more, i) = Leads(list, i))
  BY LeadsAppend
<1>11. item.type = "function_call" => Leads(more, n + 1) = ~Open(list)
  BY LeadsAppend
<1>12. AskedItem(item, Leads(more, n + 1)) = AskedItem(item, ~Open(list))
  BY <1>11, Zenon DEF AskedItem
<1> HIDE DEF n, more
<1>4. \A i \in 1 .. n + 1 : more[i] \in RequestItems
  BY <1>1
<1>5. f \in [1 .. n -> Seq(Facts)] /\ g \in [1 .. n + 1 -> Seq(Facts)]
  BY <1>1, <1>2, <1>4, AskedItemTyped DEF n
<1>6. (\A i \in 1 .. n : g[i] = f[i]) /\ g[n + 1] = AskedItem(item, Leads(more, n + 1))
  BY <1>1, <1>10 DEF n
<1> HIDE DEF f, g
<1>7. FlattenSeq(f) \in Seq(Facts) /\ FlattenSeq(g) = FlattenSeq(f) \o g[n + 1]
  BY <1>1, <1>5, <1>6, FlattenStep
<1> QED
  BY <1>3, <1>6, <1>7, <1>12 DEF more

LEMMA NothingSaid ==
  /\ SystemTexts(<<>>) = <<>> /\ Told(<<>>) = <<>> /\ Others(<<>>) = <<>>
  /\ Instructed(<<>>) = <<>> /\ Asked(<<>>) = <<>> /\ ~Open(<<>>)
<1>1. Len(<<>>) = 0 /\ 1 .. 0 = {}
  BY EmptySeq
<1> DEFINE F == [1 .. 0 -> {0}]
<1>2. \A f \in F : FlattenSeq(f) = <<>>
  BY FlattenNothing
<1>3. /\ [i \in 1 .. Len(<<>>) |-> IF <<>>[i].role \in SystemRoles THEN <<>>[i].texts ELSE <<>>] \in F
      /\ [i \in 1 .. Len(<<>>) |-> Contents(<<>>[i])] \in F
      /\ [i \in 1 .. Len(<<>>) |-> IF <<>>[i].role \in SystemRoles THEN <<>> ELSE <<<<>>[i]>>] \in F
      /\ [i \in 1 .. Len(<<>>) |-> IF IsSystem(<<>>[i]) THEN <<>>[i].texts ELSE <<>>] \in F
  BY <1>1
<1>4. [k \in 1 .. Len(<<>>) |->
        IF IsSystem(<<>>[k]) \/ <<>>[k].type = "reasoning" THEN <<>>
        ELSE IF <<>>[k].type = "message" THEN <<<<<<>>[k].role, <<>>[k].texts>>>>
        ELSE IF <<>>[k].type = "function_call"
          THEN <<<<"function_call", <<>>[k].call, Leads(<<>>, k)>>>>
        ELSE <<<<"function_call_output", <<>>[k].call>>>>] \in F
  BY <1>1
<1> HIDE DEF F
<1>5. SystemTexts(<<>>) = <<>> /\ Told(<<>>) = <<>> /\ Others(<<>>) = <<>> /\ Instructed(<<>>) = <<>>
  BY <1>2, <1>3, Zenon DEF SystemTexts, Told, Others, Instructed
<1>6. Asked(<<>>) = <<>>
  BY <1>2, <1>4, Zenon DEF Asked
<1>7. ~Open(<<>>)
  BY <1>1 DEF Open
<1> QED
  BY <1>5, <1>6, <1>7

NoSystem(list) == \A i \in 1 .. Len(list) : list[i].role \notin SystemRoles

LEMMA NoSystemAppend ==
  ASSUME NEW list \in Seq(MessageType), NEW m \in MessageType
  PROVE  NoSystem(Append(list, m)) <=> NoSystem(list) /\ m.role \notin SystemRoles
<1> DEFINE n == Len(list)
           more == Append(list, m)
<1>1. /\ n \in Nat /\ Len(more) = n + 1 /\ more[n + 1] = m
      /\ \A i \in 1 .. n : more[i] = list[i]
  BY LenProperties, AppendProperties
<1> HIDE DEF n, more
<1>2. \A i \in 1 .. n + 1 : i = n + 1 \/ i \in 1 .. n
  BY <1>1
<1>3. n + 1 \in 1 .. n + 1 /\ \A i \in 1 .. n : i \in 1 .. n + 1
  BY <1>1
<1>4. NoSystem(list) <=> \A i \in 1 .. n : list[i].role \notin SystemRoles
  BY DEF NoSystem, n
<1>5. NoSystem(more) <=> \A i \in 1 .. n + 1 : more[i].role \notin SystemRoles
  BY <1>1 DEF NoSystem
<1> QED
  BY <1>1, <1>2, <1>3, <1>4, <1>5 DEF more

LEMMA NoSystemTexts ==
  ASSUME NEW list \in Seq(MessageType), NoSystem(list)
  PROVE  SystemTexts(list) = <<>>
<1> DEFINE T == {l \in Seq(MessageType) : NoSystem(l) => SystemTexts(l) = <<>>}
<1>1. <<>> \in T
  BY NothingSaid, EmptySeq
<1>2. ASSUME NEW l \in Seq(MessageType), NEW x \in MessageType, l \in T PROVE Append(l, x) \in T
  <2>1. Append(l, x) \in Seq(MessageType)
    BY AppendProperties
  <2>2. SUFFICES ASSUME NoSystem(Append(l, x)) PROVE SystemTexts(Append(l, x)) = <<>>
    BY <2>1
  <2>3. NoSystem(l) /\ x.role \notin SystemRoles
    BY <2>2, NoSystemAppend
  <2>4. SystemTexts(l) = <<>> /\ SystemPart(x) = <<>>
    BY <1>2, <2>3 DEF SystemPart
  <2>5. SystemTexts(Append(l, x)) = <<>> \o <<>>
    BY <2>4, SystemTextsAppend
  <2>6. <<>> \o <<>> = <<>>
    BY EmptySeq, ConcatEmptySeq
  <2> QED
    BY <2>5, <2>6
<1> HIDE DEF T
<1>3. Seq(MessageType) \subseteq T
  BY <1>1, <1>2, SeqClimb
<1> QED
  BY <1>3 DEF T

LEMMA OthersKeep ==
  ASSUME NEW list \in Seq(MessageType)
  PROVE  NoSystem(Others(list)) /\ Told(Others(list)) = Told(list)
<1> DEFINE T == {l \in Seq(MessageType) : NoSystem(Others(l)) /\ Told(Others(l)) = Told(l)}
<1>1. <<>> \in T
  BY NothingSaid, EmptySeq DEF NoSystem
<1>2. ASSUME NEW l \in Seq(MessageType), NEW x \in MessageType, l \in T PROVE Append(l, x) \in T
  <2>1. Append(l, x) \in Seq(MessageType) /\ Others(l) \in Seq(MessageType)
    BY AppendProperties, OthersAppend
  <2>2. Told(Append(l, x)) = Told(l) \o Contents(x) /\ Told(l) \in Seq(Facts)
    BY ToldAppend
  <2>3. NoSystem(Others(l)) /\ Told(Others(l)) = Told(l)
    BY <1>2
  <2>4. CASE x.role \in SystemRoles
    <3>1. Others(Append(l, x)) = Others(l) /\ Contents(x) = <<>>
      BY <2>4, OthersAppend DEF Contents
    <3>2. Told(l) \o <<>> = Told(l)
      BY <2>2, ConcatEmptySeq
    <3> QED
      BY <2>1, <2>2, <2>3, <3>1, <3>2
  <2>5. CASE x.role \notin SystemRoles
    <3>1. Others(Append(l, x)) = Append(Others(l), x)
      BY <2>5, OthersAppend
    <3>2. NoSystem(Append(Others(l), x))
      BY <2>1, <2>3, <2>5, NoSystemAppend
    <3>3. Told(Append(Others(l), x)) = Told(Others(l)) \o Contents(x)
      BY <2>1, ToldAppend
    <3> QED
      BY <2>1, <2>2, <2>3, <3>1, <3>2, <3>3
  <2> QED
    BY <2>4, <2>5
<1> HIDE DEF T
<1>3. Seq(MessageType) \subseteq T
  BY <1>1, <1>2, SeqClimb
<1> QED
  BY <1>3 DEF T

LEMMA Prefixed ==
  ASSUME NEW S, NEW first \in S, NEW list \in Seq(S), NEW x \in S
  PROVE  /\ <<first>> \o list \in Seq(S)
         /\ <<first>> \o <<>> = Append(<<>>, first)
         /\ <<first>> \o Append(list, x) = Append(<<first>> \o list, x)
<1>1. <<first>> \in Seq(S) /\ <<x>> \in Seq(S) /\ <<>> \in Seq(S)
  BY EmptySeq
<1>2. <<first>> \o list \in Seq(S)
  BY <1>1, ConcatProperties
<1>3. Append(list, x) = list \o <<x>> /\ Append(<<first>> \o list, x) = (<<first>> \o list) \o <<x>>
  BY <1>2, AppendIsConcat
<1>4. (<<first>> \o list) \o <<x>> = <<first>> \o (list \o <<x>>)
  <2>1. \A u, v, w \in Seq(S) : (u \o v) \o w = u \o (v \o w)
    BY SMTT(30), Associates
  <2> QED
    BY <1>1, <2>1, Zenon
<1>5. <<first>> \o <<>> = <<first>> /\ Append(<<>>, first) = <<first>>
  BY <1>1, ConcatEmptySeq
<1> QED
  BY <1>2, <1>3, <1>4, <1>5

LEMMA MessagePrefixed ==
  ASSUME NEW m \in MessageType, NEW list \in Seq(MessageType)
  PROVE  /\ SystemTexts(<<m>> \o list) = SystemPart(m) \o SystemTexts(list)
         /\ Told(<<m>> \o list) = Contents(m) \o Told(list)
<1> DEFINE T == {l \in Seq(MessageType) :
                   /\ SystemTexts(<<m>> \o l) = SystemPart(m) \o SystemTexts(l)
                   /\ Told(<<m>> \o l) = Contents(m) \o Told(l)}
<1>1. SystemPart(m) \in Seq(Tokens) /\ Contents(m) \in Seq(Facts) /\ <<>> \in Seq(MessageType)
  BY ContentsTyped, EmptySeq DEF SystemPart, MessageType
<1>2. <<>> \in T
  <2>1. <<m>> \o <<>> = Append(<<>>, m)
    BY <1>1, Prefixed
  <2>2. SystemTexts(Append(<<>>, m)) = <<>> \o SystemPart(m) /\ Told(Append(<<>>, m)) = <<>> \o Contents(m)
    BY <1>1, SystemTextsAppend, ToldAppend, NothingSaid
  <2>3. /\ <<>> \o SystemPart(m) = SystemPart(m) /\ SystemPart(m) \o <<>> = SystemPart(m)
        /\ <<>> \o Contents(m) = Contents(m) /\ Contents(m) \o <<>> = Contents(m)
    BY <1>1, ConcatEmptySeq
  <2> QED
    BY <1>1, <2>1, <2>2, <2>3, NothingSaid
<1>3. ASSUME NEW l \in Seq(MessageType), NEW x \in MessageType, l \in T PROVE Append(l, x) \in T
  <2> DEFINE led == <<m>> \o l
  <2>1. /\ led \in Seq(MessageType) /\ <<m>> \o Append(l, x) = Append(led, x)
        /\ Append(l, x) \in Seq(MessageType)
    BY Prefixed, AppendProperties
  <2>2. SystemTexts(led) = SystemPart(m) \o SystemTexts(l) /\ Told(led) = Contents(m) \o Told(l)
    BY <1>3
  <2>3. SystemPart(x) \in Seq(Tokens) /\ Contents(x) \in Seq(Facts)
    BY ContentsTyped, EmptySeq DEF SystemPart, MessageType
  <2>4. /\ SystemTexts(l) \in Seq(Tokens) /\ SystemTexts(Append(l, x)) = SystemTexts(l) \o SystemPart(x)
        /\ Told(l) \in Seq(Facts) /\ Told(Append(l, x)) = Told(l) \o Contents(x)
    BY SystemTextsAppend, ToldAppend
  <2> HIDE DEF led
  <2>5. /\ SystemTexts(Append(led, x)) = SystemTexts(led) \o SystemPart(x)
        /\ Told(Append(led, x)) = Told(led) \o Contents(x)
    BY <2>1, SystemTextsAppend, ToldAppend
  <2>6. (SystemPart(m) \o SystemTexts(l)) \o SystemPart(x)
        = SystemPart(m) \o (SystemTexts(l) \o SystemPart(x))
    <3>1. \A u, v, w \in Seq(Tokens) : (u \o v) \o w = u \o (v \o w)
      BY SMTT(30), Associates
    <3> QED
      BY <1>1, <2>3, <2>4, <3>1, Zenon
  <2>7. (Contents(m) \o Told(l)) \o Contents(x) = Contents(m) \o (Told(l) \o Contents(x))
    <3>1. \A u, v, w \in Seq(Facts) : (u \o v) \o w = u \o (v \o w)
      BY SMTT(30), Associates
    <3> QED
      BY <1>1, <2>3, <2>4, <3>1, Zenon
  <2> QED
    BY <2>1, <2>2, <2>4, <2>5, <2>6, <2>7
<1> HIDE DEF T
<1>4. Seq(MessageType) \subseteq T
  BY <1>2, <1>3, SeqClimb
<1> QED
  BY <1>4 DEF T

LEMMA InstructionTyped == ASSUME NEW i \in Instructions PROVE InstructionItem(i) \in RequestItems
<1>1. i \in Seq(Tokens)
  BY InputConstants
<1>2. "message" \in ItemTypes \cup {"other"} /\ "system" \in RoleNames /\ 0 \in Nat
  BY InputConstants DEF ItemTypes
<1> QED
  BY <1>1, <1>2, Zenon DEF InstructionItem, RequestItems

LEMMA InstructionPrefixed ==
  ASSUME NEW i \in Instructions, NEW list \in Seq(RequestItems)
  PROVE  /\ <<InstructionItem(i)>> \o list \in Seq(RequestItems)
         /\ Instructed(<<InstructionItem(i)>> \o list) = i \o Instructed(list)
         /\ Asked(<<InstructionItem(i)>> \o list) = Asked(list)
<1> DEFINE lead == InstructionItem(i)
           T == {l \in Seq(RequestItems) :
                   /\ Instructed(<<lead>> \o l) = i \o Instructed(l)
                   /\ Asked(<<lead>> \o l) = Asked(l)
                   /\ Open(<<lead>> \o l) <=> Open(l)}
<1>1. lead \in RequestItems /\ i \in Seq(Tokens) /\ <<>> \in Seq(RequestItems)
  BY InstructionTyped, InputConstants, EmptySeq
<1>2. InstructedPart(lead) = i /\ AskedItem(lead, TRUE) = <<>> /\ lead.type = "message"
  BY DEF InstructionItem, InstructedPart, AskedItem, IsSystem, SystemRoles
<1> HIDE DEF lead
<1>3. <<>> \in T
  <2>1. <<lead>> \o <<>> = Append(<<>>, lead)
    BY <1>1, Prefixed
  <2>2. /\ Instructed(Append(<<>>, lead)) = <<>> \o i
        /\ Asked(Append(<<>>, lead)) = <<>> \o AskedItem(lead, ~Open(<<>>))
        /\ Open(Append(<<>>, lead)) <=> \/ lead.type = "function_call"
                                        \/ lead.type = "reasoning" /\ Open(<<>>)
    <3>1. Instructed(Append(<<>>, lead)) = Instructed(<<>>) \o InstructedPart(lead)
      BY <1>1, InstructedAppend, Zenon
    <3>2. Asked(Append(<<>>, lead)) = Asked(<<>>) \o AskedItem(lead, ~Open(<<>>))
      BY <1>1, AskedAppend, Zenon
    <3>3. Open(Append(<<>>, lead)) <=> \/ lead.type = "function_call"
                                       \/ lead.type = "reasoning" /\ Open(<<>>)
      BY <1>1, OpenAppend, Zenon
    <3> QED
      BY <1>2, <3>1, <3>2, <3>3, NothingSaid, Zenon
  <2>3. <<>> \o i = i /\ i \o <<>> = i /\ <<>> \o <<>> = <<>>
    BY <1>1, ConcatEmptySeq
  <2>4. Open(<<>>) = FALSE
    BY NothingSaid DEF Open
  <2> QED
    BY <1>1, <1>2, <2>1, <2>2, <2>3, <2>4, NothingSaid
<1>4. ASSUME NEW l \in Seq(RequestItems), NEW x \in RequestItems, l \in T PROVE Append(l, x) \in T
  <2> DEFINE led == <<lead>> \o l
  <2>1. /\ led \in Seq(RequestItems) /\ <<lead>> \o Append(l, x) = Append(led, x)
        /\ Append(l, x) \in Seq(RequestItems)
    BY <1>1, Prefixed, AppendProperties
  <2>2. Instructed(led) = i \o Instructed(l) /\ Asked(led) = Asked(l) /\ Open(led) = Open(l)
    BY <1>4 DEF Open
  <2>3. InstructedPart(x) \in Seq(Tokens)
    BY EmptySeq DEF InstructedPart, RequestItems
  <2>4. /\ Instructed(l) \in Seq(Tokens) /\ Instructed(Append(l, x)) = Instructed(l) \o InstructedPart(x)
        /\ Asked(Append(l, x)) = Asked(l) \o AskedItem(x, ~Open(l))
    BY InstructedAppend, AskedAppend
  <2>5. Open(Append(l, x)) <=> x.type = "function_call" \/ (x.type = "reasoning" /\ Open(l))
    BY OpenAppend
  <2> HIDE DEF led
  <2>6. /\ Instructed(Append(led, x)) = Instructed(led) \o InstructedPart(x)
        /\ Asked(Append(led, x)) = Asked(led) \o AskedItem(x, ~Open(led))
        /\ Open(Append(led, x)) <=> x.type = "function_call" \/ (x.type = "reasoning" /\ Open(led))
    BY <2>1, InstructedAppend, AskedAppend, OpenAppend
  <2>7. (i \o Instructed(l)) \o InstructedPart(x) = i \o (Instructed(l) \o InstructedPart(x))
    <3>1. \A u, v, w \in Seq(Tokens) : (u \o v) \o w = u \o (v \o w)
      BY SMTT(30), Associates
    <3> QED
      BY <1>1, <2>3, <2>4, <3>1, Zenon
  <2> QED
    BY <2>1, <2>2, <2>4, <2>5, <2>6, <2>7
<1> HIDE DEF T
<1>5. Seq(RequestItems) \subseteq T
  BY <1>3, <1>4, SeqClimb
<1>6. <<lead>> \o list \in Seq(RequestItems)
  BY <1>1, Prefixed
<1> QED
  BY <1>5, <1>6 DEF T, lead

GivenType == InputItems \cup {InstructionItem(i) : i \in Instructions}

(* The calls that wait, as they will be told                                 *)
CallFacts(cs) == [i \in 1 .. Len(cs) |-> <<"function_call", cs[i], i = 1>>]

LEMMA CallFactsNone == CallFacts(<<>>) = <<>>
<1>1. Len(<<>>) = 0 /\ 1 .. 0 = {}
  BY EmptySeq
<1> QED
  BY <1>1 DEF CallFacts

LEMMA CallFactsAppend ==
  ASSUME NEW cs \in Seq(Nat), NEW c \in Nat
  PROVE  /\ CallFacts(cs) \in Seq(Facts)
         /\ CallFacts(Append(cs, c)) = CallFacts(cs) \o <<<<"function_call", c, cs = <<>>>>>>
<1> DEFINE n == Len(cs)
           more == Append(cs, c)
           f == CallFacts(cs)
           g == CallFacts(more)
           last == <<"function_call", c, cs = <<>>>>
<1>1. /\ n \in Nat /\ more \in Seq(Nat) /\ Len(more) = n + 1 /\ more[n + 1] = c
      /\ \A i \in 1 .. n : more[i] = cs[i] /\ cs[i] \in Nat
  BY LenProperties, AppendProperties, ElementOfSeq
<1>2. cs = <<>> <=> n = 0
  BY EmptySeq
<1> HIDE DEF more
<1>3. ASSUME NEW xs \in Seq(Nat)
      PROVE  /\ CallFacts(xs) \in Seq(Facts) /\ Len(CallFacts(xs)) = Len(xs)
             /\ \A i \in 1 .. Len(xs) : CallFacts(xs)[i] = <<"function_call", xs[i], i = 1>>
  <2>1. Len(xs) \in Nat /\ \A i \in 1 .. Len(xs) : xs[i] \in Nat
    BY LenProperties, ElementOfSeq
  <2>2. \A i \in 1 .. Len(xs) : <<"function_call", xs[i], i = 1>> \in Facts
    BY <2>1 DEF Facts
  <2>3. CallFacts(xs) \in [1 .. Len(xs) -> Facts]
    BY <2>2 DEF CallFacts
  <2>4. CallFacts(xs) \in Seq(Facts)
    BY <2>1, <2>3, SeqDef
  <2>5. Len(CallFacts(xs)) = Len(xs)
    BY <2>1, <2>3, <2>4, LenProperties
  <2> QED
    BY <2>4, <2>5 DEF CallFacts
<1>4. last \in Facts /\ <<last>> \in Seq(Facts) /\ Len(<<last>>) = 1 /\ <<last>>[1] = last
  <2>1. \A b \in BOOLEAN : <<"function_call", c, b>> \in Facts
    BY DEF Facts
  <2>2. (cs = <<>>) \in BOOLEAN
    OBVIOUS
  <2>3. last \in Facts
    BY <2>1, <2>2, Zenon
  <2> HIDE DEF last
  <2> QED
    BY <2>3
<1>5. f \in Seq(Facts) /\ Len(f) = n /\ \A i \in 1 .. n : f[i] = <<"function_call", cs[i], i = 1>>
  BY <1>3
<1>6. g \in Seq(Facts) /\ Len(g) = n + 1 /\ \A i \in 1 .. n + 1 : g[i] = <<"function_call", more[i], i = 1>>
  BY <1>1, <1>3
<1>7. g[n + 1] = last
  BY <1>1, <1>2, <1>6
<1>8. \A i \in 1 .. n : g[i] = f[i]
  <2> HIDE DEF f, g, n
  <2>1. \A i \in 1 .. n : i \in 1 .. n + 1
    BY <1>1
  <2> TAKE i \in 1 .. n
  <2>2. i \in 1 .. n + 1 /\ more[i] = cs[i]
    BY <1>1, <2>1
  <2>3. f[i] = <<"function_call", cs[i], i = 1>> /\ g[i] = <<"function_call", more[i], i = 1>>
    BY <1>5, <1>6, <2>2, Zenon
  <2> QED
    BY <2>2, <2>3, Zenon
<1> HIDE DEF f, g, n, last
<1>9. /\ f \o <<last>> \in Seq(Facts) /\ Len(f \o <<last>>) = n + 1
      /\ \A i \in 1 .. n + 1 : (f \o <<last>>)[i] = IF i <= n THEN f[i] ELSE <<last>>[i - n]
  BY <1>4, <1>5, ConcatProperties
<1>10. \A i \in 1 .. n + 1 : (f \o <<last>>)[i] = g[i]
  <2>1. \A i \in 1 .. n + 1 : i \in 1 .. n \/ i = n + 1
    BY <1>1
  <2>2. \A i \in 1 .. n : i <= n
    BY <1>1
  <2>3. n + 1 \in 1 .. n + 1 /\ ~(n + 1 <= n) /\ n + 1 - n = 1
    BY <1>1
  <2>4. (f \o <<last>>)[n + 1] = last
    BY <1>4, <1>9, <2>3
  <2> QED
    BY <1>7, <1>8, <1>9, <2>1, <2>2, <2>4
<1>11. g = f \o <<last>>
  BY <1>6, <1>9, <1>10, SeqEqual
<1> QED
  BY <1>5, <1>11, Zenon DEF f, g, last, more

LEMMA RoleNamesKnown ==
  /\ "system" \in Roles /\ "assistant" \in Roles /\ "tool" \in Roles
  /\ "system" \in SystemRoles /\ "assistant" \notin SystemRoles /\ "tool" \notin SystemRoles
<1>1. "system" # Blank /\ "assistant" # Blank /\ "tool" # Blank
  BY Zenon DEF Blank
<1> QED
  BY <1>1, InputConstants DEF Roles, SystemRoles

LEMMA FlushKeeps ==
  ASSUME NEW ms \in Seq(MessageType), NEW cs \in Seq(Nat)
  PROVE  /\ Flush(ms, cs) \in Seq(MessageType)
         /\ SystemTexts(Flush(ms, cs)) = SystemTexts(ms)
         /\ Told(Flush(ms, cs)) = Told(ms) \o CallFacts(cs)
<1>1. SystemTexts(ms) \in Seq(Tokens) /\ Told(ms) \in Seq(Facts)
  <2>1. PICK m : m = [role |-> "tool", texts |-> <<>>, calls |-> <<>>]
    OBVIOUS
  <2>2. m \in MessageType
    BY <2>1, RoleNamesKnown, EmptySeq DEF MessageType
  <2> QED
    BY <2>2, SystemTextsAppend, ToldAppend
<1>2. CASE cs = <<>>
  <2>1. Told(ms) \o <<>> = Told(ms)
    BY <1>1, ConcatEmptySeq
  <2> QED
    BY <1>2, <2>1, CallFactsNone DEF Flush
<1>3. CASE cs # <<>>
  <2> DEFINE m == [role |-> "assistant", texts |-> <<>>, calls |-> cs]
  <2>1. m \in MessageType
    BY RoleNamesKnown, EmptySeq DEF MessageType
  <2>2. SystemPart(m) = <<>>
    BY RoleNamesKnown DEF SystemPart
  <2>3. Contents(m) = CallFacts(cs)
    BY <1>3, RoleNamesKnown DEF Contents, CallFacts
  <2>4. Flush(ms, cs) = Append(ms, m)
    BY <1>3 DEF Flush
  <2> HIDE DEF m
  <2>5. /\ Append(ms, m) \in Seq(MessageType)
        /\ SystemTexts(Append(ms, m)) = SystemTexts(ms) \o SystemPart(m)
        /\ Told(Append(ms, m)) = Told(ms) \o Contents(m)
    BY <2>1, AppendProperties, SystemTextsAppend, ToldAppend
  <2>6. SystemTexts(ms) \o <<>> = SystemTexts(ms)
    BY <1>1, ConcatEmptySeq
  <2> QED
    BY <2>2, <2>3, <2>4, <2>5, <2>6
<1> QED
  BY <1>2, <1>3

LEMMA NormalizeKeeps ==
  ASSUME NEW list \in Seq(MessageType)
  PROVE  /\ Normalize(list) \in Seq(MessageType)
         /\ \A i \in 1 .. Len(Normalize(list)) : Normalize(list)[i].role \in SystemRoles => i = 1
         /\ SystemTexts(Normalize(list)) = SystemTexts(list)
         /\ Told(Normalize(list)) = Told(list)
<1>1. CASE NoSystem(list)
  <2>1. Normalize(list) = list
    BY <1>1 DEF Normalize, NoSystem
  <2> QED
    BY <1>1, <2>1 DEF NoSystem
<1>2. CASE ~NoSystem(list)
  <2> DEFINE lead == Message("system", SystemTexts(list))
             rest == Others(list)
  <2>1. Normalize(list) = <<lead>> \o rest
    BY <1>2 DEF Normalize, NoSystem
  <2>2. SystemTexts(list) \in Seq(Tokens) /\ rest \in Seq(MessageType)
    <3>1. \A m \in MessageType : SystemTexts(list) \in Seq(Tokens) /\ rest \in Seq(MessageType)
      BY SystemTextsAppend, OthersAppend
    <3>2. \E i \in 1 .. Len(list) : list[i] \in MessageType
      BY <1>2, ElementOfSeq DEF NoSystem
    <3> QED
      BY <3>1, <3>2
  <2>3. lead \in MessageType
    BY <2>2, RoleNamesKnown, EmptySeq DEF MessageType, Message
  <2>4. SystemPart(lead) = SystemTexts(list) /\ Contents(lead) = <<>>
    BY RoleNamesKnown DEF SystemPart, Contents, Message
  <2>5. NoSystem(rest) /\ Told(rest) = Told(list)
    BY OthersKeep
  <2> HIDE DEF lead, rest
  <2>6. SystemTexts(rest) = <<>>
    BY <2>2, <2>5, NoSystemTexts
  <2>7. /\ SystemTexts(<<lead>> \o rest) = SystemPart(lead) \o SystemTexts(rest)
        /\ Told(<<lead>> \o rest) = Contents(lead) \o Told(rest)
        /\ Told(rest) \in Seq(Facts)
    BY <2>2, <2>3, MessagePrefixed, ToldAppend
  <2>8. SystemTexts(list) \o <<>> = SystemTexts(list) /\ <<>> \o Told(rest) = Told(rest)
    BY <2>2, <2>7, ConcatEmptySeq
  <2>9. <<lead>> \in Seq(MessageType) /\ Len(<<lead>>) = 1 /\ Len(rest) \in Nat
    BY <2>2, <2>3, LenProperties
  <2>10. /\ <<lead>> \o rest \in Seq(MessageType) /\ Len(<<lead>> \o rest) = 1 + Len(rest)
         /\ \A i \in 1 .. 1 + Len(rest) : i > 1 => (<<lead>> \o rest)[i] = rest[i - 1]
    <3>1. /\ <<lead>> \o rest \in Seq(MessageType) /\ Len(<<lead>> \o rest) = 1 + Len(rest)
          /\ \A i \in 1 .. 1 + Len(rest) :
               (<<lead>> \o rest)[i] = IF i <= 1 THEN <<lead>>[i] ELSE rest[i - 1]
      BY <2>2, <2>9, ConcatProperties
    <3> QED
      BY <3>1
  <2>11. ASSUME NEW i \in 1 .. 1 + Len(rest), i > 1 PROVE (<<lead>> \o rest)[i].role \notin SystemRoles
    <3>1. i - 1 \in 1 .. Len(rest)
      BY <2>9, <2>11
    <3> QED
      BY <2>5, <2>10, <2>11, <3>1 DEF NoSystem
  <2>12. \A i \in 1 .. 1 + Len(rest) : (<<lead>> \o rest)[i].role \in SystemRoles => i = 1
    <3>1. \A i \in 1 .. 1 + Len(rest) : i > 1 \/ i = 1
      BY <2>9
    <3> QED
      BY <2>11, <3>1
  <2> QED
    BY <2>1, <2>4, <2>5, <2>6, <2>7, <2>8, <2>10, <2>12
<1> QED
  BY <1>1, <1>2

(* Where the loop over the items stands: system texts are equal, the other   *)
(* items are told or wait as calls, and calls wait when the list ends in one *)
Gathered(list, ms, cs) ==
  /\ list \in Seq(RequestItems) /\ ms \in Seq(MessageType) /\ cs \in Seq(Nat)
  /\ SystemTexts(ms) = Instructed(list)
  /\ Told(ms) \o CallFacts(cs) = Asked(list)
  /\ cs # <<>> <=> Open(list)

LEMMA NothingGathered == Gathered(<<>>, <<>>, <<>>)
<1>1. <<>> \in Seq(RequestItems) /\ <<>> \in Seq(MessageType) /\ <<>> \in Seq(Nat) /\ <<>> \in Seq(Facts)
  BY EmptySeq
<1>2. <<>> \o <<>> = <<>>
  BY <1>1, ConcatEmptySeq
<1> QED
  BY <1>1, <1>2, NothingSaid, CallFactsNone DEF Gathered

LEMMA GatheredTyped ==
  ASSUME NEW list, NEW ms, NEW cs, Gathered(list, ms, cs)
  PROVE  /\ SystemTexts(ms) \in Seq(Tokens) /\ Told(ms) \in Seq(Facts) /\ CallFacts(cs) \in Seq(Facts)
         /\ Instructed(list) \in Seq(Tokens) /\ Asked(list) \in Seq(Facts)
<1>1. list \in Seq(RequestItems) /\ ms \in Seq(MessageType) /\ cs \in Seq(Nat)
  BY DEF Gathered
<1>2. [role |-> "tool", texts |-> <<>>, calls |-> <<>>] \in MessageType
  BY RoleNamesKnown, EmptySeq DEF MessageType
<1>3. SystemTexts(ms) \in Seq(Tokens) /\ Told(ms) \in Seq(Facts)
  BY <1>1, <1>2, SystemTextsAppend, ToldAppend
<1>4. 0 \in Nat
  OBVIOUS
<1>5. CallFacts(cs) \in Seq(Facts)
  BY <1>1, <1>4, CallFactsAppend
<1>6. Told(ms) \o CallFacts(cs) \in Seq(Facts)
  BY <1>3, <1>5, ConcatProperties
<1> QED
  BY <1>3, <1>5, <1>6 DEF Gathered

LEMMA CallGathered ==
  ASSUME NEW list, NEW ms, NEW cs, Gathered(list, ms, cs),
         NEW item \in RequestItems, item.type = "function_call"
  PROVE  Gathered(Append(list, item), ms, Append(cs, item.call))
<1>1. /\ list \in Seq(RequestItems) /\ ms \in Seq(MessageType) /\ cs \in Seq(Nat)
      /\ SystemTexts(ms) = Instructed(list) /\ Told(ms) \o CallFacts(cs) = Asked(list)
      /\ cs # <<>> <=> Open(list)
  BY DEF Gathered
<1>2. item.call \in Nat
  BY DEF RequestItems
<1> DEFINE c == item.call
           last == <<<<"function_call", c, cs = <<>>>>>>
<1>3. /\ Append(list, item) \in Seq(RequestItems) /\ Append(cs, c) \in Seq(Nat)
      /\ Append(cs, c) # <<>>
  <2>1. list \in Seq(RequestItems) /\ cs \in Seq(Nat) /\ c \in Nat
    BY <1>1, <1>2
  <2>2. Append(list, item) \in Seq(RequestItems)
    BY <2>1, AppendProperties
  <2> HIDE DEF c
  <2>3. Append(cs, c) \in Seq(Nat) /\ Append(cs, c) # <<>>
    BY <2>1, AppendProperties
  <2> QED
    BY <2>2, <2>3
<1>4. /\ InstructedPart(item) = <<>>
      /\ \A leads : AskedItem(item, leads) = <<<<"function_call", c, leads>>>>
  BY DEF InstructedPart, AskedItem, IsSystem
<1>6. AskedItem(item, ~Open(list)) = last
  <2> DEFINE leads == ~Open(list)
             first == (cs = <<>>)
  <2>1. leads \in BOOLEAN /\ first \in BOOLEAN
    OBVIOUS
  <2>3. leads <=> first
    BY <1>1
  <2> HIDE DEF leads, first, c
  <2>2. AskedItem(item, leads) = <<<<"function_call", c, first>>>>
    BY <1>4, <2>1, <2>3
  <2> QED
    BY <2>2 DEF leads, first, c
<1>7. /\ Instructed(Append(list, item)) = Instructed(list) \o InstructedPart(item)
      /\ Asked(Append(list, item)) = Asked(list) \o AskedItem(item, ~Open(list))
      /\ Open(Append(list, item))
  BY <1>1, InstructedAppend, AskedAppend, OpenAppend
<1>8. CallFacts(Append(cs, c)) = CallFacts(cs) \o last
  BY <1>1, <1>2, CallFactsAppend, Zenon
<1>9. Instructed(list) \o <<>> = Instructed(list)
  BY GatheredTyped, ConcatEmptySeq
<1>10. (Told(ms) \o CallFacts(cs)) \o last = Told(ms) \o (CallFacts(cs) \o last)
  <2>1. last \in Seq(Facts)
    <3>1. (~Open(list)) \in BOOLEAN
      OBVIOUS
    <3>2. AskedItem(item, ~Open(list)) \in Seq(Facts)
      BY <3>1, AskedItemTyped
    <3> QED
      BY <1>6, <3>2, Zenon
  <2> HIDE DEF last
  <2>2. \A u, v, w \in Seq(Facts) : (u \o v) \o w = u \o (v \o w)
    BY Associates
  <2>3. Told(ms) \in Seq(Facts) /\ CallFacts(cs) \in Seq(Facts)
    BY GatheredTyped
  <2> QED
    BY <2>1, <2>2, <2>3, Zenon
<1> HIDE DEF last
<1>11. Told(ms) \o CallFacts(Append(cs, c)) = Asked(Append(list, item))
  BY <1>1, <1>6, <1>7, <1>8, <1>10, Zenon
<1>12. SystemTexts(ms) = Instructed(Append(list, item))
  BY <1>1, <1>4, <1>7, <1>9, Zenon
<1> QED
  BY <1>1, <1>3, <1>7, <1>11, <1>12, Zenon DEF Gathered

LEMMA ReasoningGathered ==
  ASSUME NEW list, NEW ms, NEW cs, Gathered(list, ms, cs),
         NEW item \in RequestItems, item.type = "reasoning"
  PROVE  Gathered(Append(list, item), ms, cs)
<1>1. /\ list \in Seq(RequestItems) /\ ms \in Seq(MessageType) /\ cs \in Seq(Nat)
      /\ SystemTexts(ms) = Instructed(list) /\ Told(ms) \o CallFacts(cs) = Asked(list)
      /\ cs # <<>> <=> Open(list)
  BY DEF Gathered
<1>2. Append(list, item) \in Seq(RequestItems)
  BY <1>1, AppendProperties
<1>3. InstructedPart(item) = <<>> /\ AskedItem(item, ~Open(list)) = <<>>
  BY DEF InstructedPart, AskedItem, IsSystem
<1>4. /\ Instructed(Append(list, item)) = Instructed(list) \o InstructedPart(item)
      /\ Asked(Append(list, item)) = Asked(list) \o AskedItem(item, ~Open(list))
      /\ Open(Append(list, item)) <=> Open(list)
  BY <1>1, InstructedAppend, AskedAppend, OpenAppend
<1>5. Instructed(list) \o <<>> = Instructed(list) /\ Asked(list) \o <<>> = Asked(list)
  BY GatheredTyped, ConcatEmptySeq
<1> QED
  BY <1>1, <1>2, <1>3, <1>4, <1>5 DEF Gathered

(* The message m stands for the item                                         *)
Renders(m, item) ==
  /\ m \in MessageType /\ item.type \notin {"function_call", "reasoning"}
  /\ SystemPart(m) = InstructedPart(item) /\ Contents(m) = AskedItem(item, TRUE)

LEMMA MessageGathered ==
  ASSUME NEW list, NEW ms, NEW cs, Gathered(list, ms, cs),
         NEW item \in RequestItems, NEW m, Renders(m, item)
  PROVE  Gathered(Append(list, item), Append(Flush(ms, cs), m), <<>>)
<1> DEFINE all == Flush(ms, cs)
<1>1. /\ list \in Seq(RequestItems) /\ ms \in Seq(MessageType) /\ cs \in Seq(Nat)
      /\ SystemTexts(ms) = Instructed(list) /\ Told(ms) \o CallFacts(cs) = Asked(list)
  BY DEF Gathered
<1>2. /\ m \in MessageType /\ item.type \notin {"function_call", "reasoning"}
      /\ SystemPart(m) = InstructedPart(item) /\ Contents(m) = AskedItem(item, TRUE)
  BY DEF Renders
<1>3. /\ all \in Seq(MessageType) /\ SystemTexts(all) = SystemTexts(ms)
      /\ Told(all) = Told(ms) \o CallFacts(cs)
  BY <1>1, FlushKeeps
<1>4. AskedItem(item, ~Open(list)) = AskedItem(item, TRUE)
  BY <1>2 DEF AskedItem
<1>5. /\ Instructed(Append(list, item)) = Instructed(list) \o InstructedPart(item)
      /\ Asked(Append(list, item)) = Asked(list) \o AskedItem(item, ~Open(list))
      /\ ~Open(Append(list, item)) /\ Append(list, item) \in Seq(RequestItems)
  BY <1>1, <1>2, InstructedAppend, AskedAppend, OpenAppend, AppendProperties
<1> HIDE DEF all
<1>6. /\ SystemTexts(Append(all, m)) = SystemTexts(all) \o SystemPart(m)
      /\ Told(Append(all, m)) = Told(all) \o Contents(m) /\ Told(Append(all, m)) \in Seq(Facts)
      /\ Append(all, m) \in Seq(MessageType)
  <2>1. Append(all, m) \in Seq(MessageType)
    BY <1>2, <1>3, AppendProperties
  <2> QED
    BY <1>2, <1>3, <2>1, SystemTextsAppend, ToldAppend
<1>7. Told(Append(all, m)) \o CallFacts(<<>>) = Told(Append(all, m))
  BY <1>6, CallFactsNone, ConcatEmptySeq
<1>8. <<>> \in Seq(Nat)
  BY EmptySeq
<1>9. SystemTexts(Append(all, m)) = Instructed(Append(list, item))
  BY <1>1, <1>2, <1>3, <1>5, <1>6, Zenon
<1>10. Told(Append(all, m)) \o CallFacts(<<>>) = Asked(Append(list, item))
  BY <1>1, <1>2, <1>3, <1>4, <1>5, <1>6, <1>7, Zenon
<1> QED
  BY <1>5, <1>6, <1>8, <1>9, <1>10, Zenon DEF Gathered, all

LEMMA OutputRendered ==
  ASSUME NEW item \in RequestItems, item.type = "function_call_output"
  PROVE  Renders([role |-> "tool", texts |-> <<>>, calls |-> <<item.call>>], item)
<1> DEFINE m == [role |-> "tool", texts |-> <<>>, calls |-> <<item.call>>]
<1>1. item.call \in Nat
  BY DEF RequestItems
<1>2. <<item.call>> \in Seq(Nat) /\ <<item.call>> # <<>> /\ <<item.call>>[1] = item.call
  BY <1>1
<1>3. m \in MessageType
  BY <1>2, RoleNamesKnown, EmptySeq DEF MessageType
<1>4. SystemPart(m) = <<>> /\ InstructedPart(item) = <<>>
  BY RoleNamesKnown DEF SystemPart, InstructedPart, IsSystem
<1>5. Contents(m) = <<<<"function_call_output", item.call>>>>
  BY <1>2, RoleNamesKnown DEF Contents
<1>6. AskedItem(item, TRUE) = <<<<"function_call_output", item.call>>>>
  BY DEF AskedItem, IsSystem
<1> QED
  BY <1>3, <1>4, <1>5, <1>6 DEF Renders

LEMMA MessageRendered ==
  ASSUME NEW item \in RequestItems, item.type = "message", item.role # Blank
  PROVE  Renders(Message(ChatRole(item.role), item.texts), item)
<1> DEFINE m == Message(ChatRole(item.role), item.texts)
<1>1. item.role \in RoleNames /\ item.texts \in Seq(Tokens)
  BY DEF RequestItems
<1>2. m.role = ChatRole(item.role) /\ m.texts = item.texts /\ m.calls = <<>>
  BY DEF Message
<1>3. ChatRole(item.role) \in Roles
  <2>1. CASE item.role = "developer"
    BY <2>1, RoleNamesKnown DEF ChatRole
  <2>2. CASE item.role # "developer"
    BY <1>1, <2>2 DEF ChatRole, Roles
  <2> QED
    BY <2>1, <2>2
<1>4. m \in MessageType
  BY <1>1, <1>3, EmptySeq DEF MessageType, Message
<1>5. CASE item.role \in SystemRoles
  <2>1. ChatRole(item.role) \in SystemRoles
    BY <1>5 DEF ChatRole, SystemRoles
  <2>2. IsSystem(item)
    BY <1>5 DEF IsSystem
  <2> HIDE DEF m
  <2>3. SystemPart(m) = item.texts /\ InstructedPart(item) = item.texts
    BY <1>2, <2>1, <2>2 DEF SystemPart, InstructedPart
  <2>4. Contents(m) = <<>> /\ AskedItem(item, TRUE) = <<>>
    BY <1>2, <2>1, <2>2 DEF Contents, AskedItem
  <2> QED
    BY <1>4, <2>3, <2>4 DEF Renders, m
<1>6. CASE item.role \notin SystemRoles
  <2>1. ChatRole(item.role) = item.role
    BY <1>6 DEF ChatRole, SystemRoles
  <2>2. ~IsSystem(item)
    BY <1>6 DEF IsSystem
  <2> HIDE DEF m
  <2>3. SystemPart(m) = <<>> /\ InstructedPart(item) = <<>>
    BY <1>2, <1>6, <2>1, <2>2 DEF SystemPart, InstructedPart
  <2>4. Contents(m) = <<<<item.role, item.texts>>>>
    BY <1>2, <1>6, <2>1 DEF Contents
  <2>5. AskedItem(item, TRUE) = <<<<item.role, item.texts>>>>
    BY <2>2 DEF AskedItem
  <2> QED
    BY <1>4, <2>3, <2>4, <2>5 DEF Renders, m
<1> QED
  BY <1>5, <1>6

InputInv ==
  /\ given \in Seq(GivenType) /\ messages \in Seq(MessageType) /\ calls \in Seq(Nat)
  /\ phase = "items" => Gathered(given, messages, calls)
  /\ ConversionFaithful

LEMMA InputStart == ResponsesInit => InputInv
<1>1. \A S : <<>> \in Seq(S)
  BY EmptySeq
<1> SUFFICES ASSUME ResponsesInit PROVE InputInv
  OBVIOUS
<1>2. phase = "items" /\ given = <<>> /\ messages = <<>> /\ calls = <<>>
  BY DEF ResponsesInit
<1> QED
  BY <1>1, <1>2, NothingGathered DEF InputInv, ConversionFaithful

LEMMA AddItemKeeps == ASSUME InputInv, AddItem PROVE InputInv'
<1>1. /\ given \in Seq(GivenType) /\ messages \in Seq(MessageType) /\ calls \in Seq(Nat)
      /\ phase = "items" /\ Gathered(given, messages, calls)
  BY DEF InputInv, AddItem
<1>2. PICK item \in InputItems :
        /\ given' = Append(given, item)
        /\ \/ /\ item.type = "function_call" /\ item.call # 0
              /\ calls' = Append(calls, item.call)
              /\ UNCHANGED <<phase, messages>>
           \/ /\ item.type = "function_call_output" /\ item.call # 0
              /\ messages' = Append(Flush(messages, calls),
                                    [role |-> "tool", texts |-> <<>>, calls |-> <<item.call>>])
              /\ calls' = <<>>
              /\ UNCHANGED phase
           \/ /\ item.type = "reasoning"
              /\ UNCHANGED <<phase, messages, calls>>
           \/ /\ item.type = "message" /\ item.role # Blank
              /\ messages' = Append(Flush(messages, calls), Message(ChatRole(item.role), item.texts))
              /\ calls' = <<>>
              /\ UNCHANGED phase
           \/ phase' = "refused" /\ UNCHANGED <<messages, calls>>
  BY Zenon DEF AddItem
<1>3. item \in RequestItems /\ item \in GivenType
  BY InputConstants DEF GivenType
<1>4. Append(given, item) \in Seq(GivenType)
  BY <1>1, <1>3, AppendProperties
<1>5. SUFFICES \/ phase' = "items" /\ Gathered(Append(given, item), messages', calls')
               \/ phase' = "refused" /\ messages' = messages /\ calls' = calls
  <2>1. messages' \in Seq(MessageType) /\ calls' \in Seq(Nat)
    BY <1>1, <1>5 DEF Gathered
  <2>2. /\ phase' \in {"items", "refused"}
        /\ phase' = "items" => Gathered(Append(given, item), messages', calls')
    BY <1>5
  <2> QED
    BY <1>2, <1>4, <2>1, <2>2 DEF InputInv, ConversionFaithful
<1>6. CASE /\ item.type = "function_call" /\ calls' = Append(calls, item.call)
           /\ UNCHANGED <<phase, messages>>
  BY <1>1, <1>3, <1>6, CallGathered
<1>7. CASE /\ item.type = "function_call_output"
           /\ messages' = Append(Flush(messages, calls),
                                 [role |-> "tool", texts |-> <<>>, calls |-> <<item.call>>])
           /\ calls' = <<>> /\ UNCHANGED phase
  <2> DEFINE m == [role |-> "tool", texts |-> <<>>, calls |-> <<item.call>>]
  <2>1. Renders(m, item)
    BY <1>3, <1>7, OutputRendered
  <2>2. messages' = Append(Flush(messages, calls), m)
    BY <1>7
  <2> HIDE DEF m
  <2>3. Gathered(Append(given, item), Append(Flush(messages, calls), m), <<>>)
    BY <1>1, <1>3, <2>1, MessageGathered
  <2> QED
    BY <1>1, <1>7, <2>2, <2>3
<1>8. CASE item.type = "reasoning" /\ UNCHANGED <<phase, messages, calls>>
  BY <1>1, <1>3, <1>8, ReasoningGathered
<1>9. CASE /\ item.type = "message" /\ item.role # Blank
           /\ messages' = Append(Flush(messages, calls), Message(ChatRole(item.role), item.texts))
           /\ calls' = <<>> /\ UNCHANGED phase
  <2> DEFINE m == Message(ChatRole(item.role), item.texts)
  <2>1. Renders(m, item)
    BY <1>3, <1>9, MessageRendered
  <2>2. messages' = Append(Flush(messages, calls), m)
    BY <1>9
  <2> HIDE DEF m
  <2>3. Gathered(Append(given, item), Append(Flush(messages, calls), m), <<>>)
    BY <1>1, <1>3, <2>1, MessageGathered
  <2> QED
    BY <1>1, <1>9, <2>2, <2>3
<1> QED
  BY <1>2, <1>6, <1>7, <1>8, <1>9, Zenon

LEMMA EndItemsKeeps == ASSUME InputInv, EndItems PROVE InputInv'
<1>1. /\ given \in Seq(GivenType) /\ messages \in Seq(MessageType) /\ calls \in Seq(Nat)
      /\ Gathered(given, messages, calls)
  BY DEF InputInv, EndItems
<1> DEFINE all == Flush(messages, calls)
           Led(i) == IF i = <<>> THEN all ELSE <<Message("system", i)>> \o all
           Asking(i) == (IF i = <<>> THEN <<>> ELSE <<InstructionItem(i)>>) \o given
<1>2. PICK i \in Instructions :
        /\ messages' = Normalize(Led(i)) /\ given' = Asking(i)
        /\ phase' = IF Led(i) = <<>> THEN "refused" ELSE "post"
  BY Zenon DEF EndItems
<1>3. calls' = <<>> /\ calls' \in Seq(Nat) /\ phase' # "items"
  <2>1. <<>> \in Seq(Nat)
    BY EmptySeq
  <2>2. calls' = <<>>
    BY DEF EndItems
  <2>3. phase' \in {"refused", "post"}
    <3> HIDE DEF Led
    <3> QED
      BY <1>2
  <2> QED
    BY <2>1, <2>2, <2>3
<1>4. /\ all \in Seq(MessageType) /\ SystemTexts(all) = Instructed(given)
      /\ Told(all) = Asked(given) /\ given \in Seq(RequestItems)
  BY <1>1, FlushKeeps DEF Gathered
<1>5. /\ Asking(i) \in Seq(GivenType) /\ Led(i) \in Seq(MessageType)
      /\ SystemTexts(Led(i)) = Instructed(Asking(i)) /\ Told(Led(i)) = Asked(Asking(i))
  <2> HIDE DEF all
  <2>1. CASE i = <<>>
    <3>1. <<>> \o given = given
      BY <1>1, ConcatEmptySeq
    <3> QED
      BY <1>1, <1>4, <2>1, <3>1
  <2>2. CASE i # <<>>
    <3> DEFINE m == Message("system", i)
               lead == InstructionItem(i)
    <3>1. i \in Seq(Tokens)
      BY InputConstants
    <3>2. m \in MessageType
      BY <3>1, RoleNamesKnown, EmptySeq DEF MessageType, Message
    <3>3. SystemPart(m) = i /\ Contents(m) = <<>>
      BY RoleNamesKnown DEF SystemPart, Contents, Message
    <3>4. lead \in GivenType
      BY DEF GivenType
    <3>5. Led(i) = <<m>> \o all /\ Asking(i) = <<lead>> \o given
      BY <2>2
    <3>6. Instructed(<<lead>> \o given) = i \o Instructed(given) /\ Asked(<<lead>> \o given) = Asked(given)
      BY <1>4, InstructionPrefixed
    <3> HIDE DEF m, lead, Led, Asking
    <3>7. <<lead>> \in Seq(GivenType) /\ <<m>> \in Seq(MessageType)
      BY <3>2, <3>4
    <3>8. <<lead>> \o given \in Seq(GivenType) /\ <<m>> \o all \in Seq(MessageType)
      BY <1>1, <1>4, <3>7, ConcatProperties
    <3>9. /\ SystemTexts(<<m>> \o all) = SystemPart(m) \o SystemTexts(all)
          /\ Told(<<m>> \o all) = Contents(m) \o Told(all) /\ Told(all) \in Seq(Facts)
      BY <1>4, <3>2, MessagePrefixed, ToldAppend
    <3>10. <<>> \o Told(all) = Told(all)
      BY <3>9, ConcatEmptySeq
    <3> QED
      BY <1>4, <3>3, <3>5, <3>6, <3>8, <3>9, <3>10
  <2> QED
    BY <2>1, <2>2
<1> DEFINE led == Led(i)
<1>6. /\ Normalize(led) \in Seq(MessageType)
      /\ \A j \in 1 .. Len(Normalize(led)) : Normalize(led)[j].role \in SystemRoles => j = 1
      /\ SystemTexts(Normalize(led)) = SystemTexts(led) /\ Told(Normalize(led)) = Told(led)
  <2> HIDE DEF Led
  <2> QED
    BY <1>5, NormalizeKeeps
<1>7. given' = Asking(i) /\ messages' = Normalize(led)
  BY <1>2
<1>8. /\ SystemTexts(Normalize(led)) = Instructed(Asking(i)) /\ Told(Normalize(led)) = Asked(Asking(i))
  BY <1>5, <1>6
<1> HIDE DEF Led, Asking, led
<1>9. given' \in Seq(GivenType) /\ messages' \in Seq(MessageType)
  BY <1>5, <1>6, <1>7
<1>10. ConversionFaithful'
  BY <1>6, <1>7, <1>8 DEF ConversionFaithful
<1> QED
  BY <1>3, <1>9, <1>10 DEF InputInv

LEMMA InputStep == InputInv /\ [ResponsesNext]_responsesVars => InputInv'
<1> SUFFICES ASSUME InputInv, [ResponsesNext]_responsesVars PROVE InputInv'
  OBVIOUS
<1>1. CASE Convert
  BY <1>1, AddItemKeeps, EndItemsKeeps DEF Convert
<1>2. CASE Post
  <2>1. <<>> \in Seq(GivenType) /\ <<>> \in Seq(MessageType)
    BY EmptySeq
  <2> QED
    BY <1>2, <2>1 DEF Post, InputInv, ConversionFaithful
<1>3. CASE /\ UNCHANGED inputVars
           /\ \/ phase' \in {"read", "finish", "over"}
              \/ UNCHANGED phase
  BY <1>3 DEF inputVars, InputInv, ConversionFaithful
<1>4. CASE ReadChunk
  BY <1>3, <1>4 DEF ReadChunk
<1>5. CASE EndOfStream
  <2>1. UNCHANGED inputVars /\ phase' \in {"finish", "over"}
    BY <1>5, Zenon DEF EndOfStream
  <2> QED
    BY <1>3, <2>1
<1>6. CASE BreakStream
  BY <1>3, <1>6 DEF BreakStream
<1>7. CASE Write
  <2>1. UNCHANGED inputVars /\ (phase' = "over" \/ UNCHANGED phase)
    BY <1>7, Zenon DEF Write
  <2> QED
    BY <1>3, <2>1
<1>8. CASE WriteFails
  BY <1>3, <1>8 DEF WriteFails
<1>9. CASE AnswerBuffered
  BY <1>3, <1>9 DEF AnswerBuffered
<1>10. CASE UNCHANGED responsesVars
  BY <1>3, <1>10 DEF responsesVars
<1> QED
  BY <1>1, <1>2, <1>4, <1>5, <1>6, <1>7, <1>8, <1>9, <1>10 DEF ResponsesNext

(* The chat request holds every call, output and message of the Responses    *)
(* request in order, its system texts in front, and calls share an assistant *)
(* message exactly when nothing but reasoning stands between them, for any   *)
(* items and any number of them (responses_compat.go:176-239,                *)
(* proxy.go:432-466).                                                        *)
THEOREM ConversionHolds == ResponsesSpec => []ConversionFaithful
<1>1. ResponsesSpec => []InputInv
  BY InputStart, InputStep, PTL DEF ResponsesSpec
<1>2. InputInv => ConversionFaithful
  BY DEF InputInv
<1> QED
  BY <1>1, <1>2, PTL

-----------------------------------------------------------------------------
(* What the chunks of a stream spell, delta by delta and chunk by chunk.     *)

NamePart(d, k) == IF d.index = k THEN d.name ELSE <<>>
ArgumentsPart(d, k) == IF d.index = k THEN d.arguments ELSE <<>>
CallPart(d, k) == IF d.index = k /\ d.call # 0 THEN <<d.call>> ELSE <<>>
ReasonPart(chunk) == IF chunk.finish = Blank THEN <<>> ELSE <<chunk.finish>>

LEMMA DeltaParts ==
  ASSUME NEW d \in Deltas, NEW k
  PROVE  /\ NamePart(d, k) \in Seq(Tokens) /\ ArgumentsPart(d, k) \in Seq(Tokens)
         /\ CallPart(d, k) \in Seq(0 .. FirstRandom - 1)
<1>1. d.name \in Seq(Tokens) /\ d.arguments \in Seq(Tokens) /\ d.call \in 0 .. FirstRandom - 1
  BY DEF Deltas
<1>2. <<>> \in Seq(Tokens) /\ <<>> \in Seq(0 .. FirstRandom - 1)
  BY EmptySeq
<1>3. <<d.call>> \in Seq(0 .. FirstRandom - 1)
  BY <1>1
<1> QED
  BY <1>1, <1>2, <1>3, Zenon DEF NamePart, ArgumentsPart, CallPart

LEMMA NameAppend ==
  ASSUME NEW ds \in Seq(Deltas), NEW d \in Deltas, NEW k
  PROVE  NameOf(ds, k) \in Seq(Tokens) /\ NameOf(Append(ds, d), k) = NameOf(ds, k) \o NamePart(d, k)
<1> DEFINE n == Len(ds)
           more == Append(ds, d)
           f == [i \in 1 .. Len(ds) |-> NamePart(ds[i], k)]
           g == [i \in 1 .. Len(more) |-> NamePart(more[i], k)]
<1>1. /\ n \in Nat /\ Len(more) = n + 1 /\ more[n + 1] = d
      /\ \A i \in 1 .. n : more[i] = ds[i] /\ ds[i] \in Deltas
  BY LenProperties, AppendProperties, ElementOfSeq
<1>2. \A x \in Deltas : NamePart(x, k) \in Seq(Tokens)
  BY DeltaParts
<1>3. FlattenSeq(f) = NameOf(ds, k) /\ FlattenSeq(g) = NameOf(more, k)
  BY Zenon DEF NameOf, NamePart
<1> HIDE DEF n, more
<1>4. \A i \in 1 .. n + 1 : more[i] \in Deltas
  BY <1>1
<1>5. f \in [1 .. n -> Seq(Tokens)] /\ g \in [1 .. n + 1 -> Seq(Tokens)]
  BY <1>1, <1>2, <1>4 DEF n
<1>6. (\A i \in 1 .. n : g[i] = f[i]) /\ g[n + 1] = NamePart(d, k)
  BY <1>1 DEF n
<1> HIDE DEF f, g
<1>7. FlattenSeq(f) \in Seq(Tokens) /\ FlattenSeq(g) = FlattenSeq(f) \o g[n + 1]
  BY <1>1, <1>5, <1>6, FlattenStep
<1> QED
  BY <1>3, <1>6, <1>7 DEF more

LEMMA ArgumentsAppend ==
  ASSUME NEW ds \in Seq(Deltas), NEW d \in Deltas, NEW k
  PROVE  /\ ArgumentsOf(ds, k) \in Seq(Tokens)
         /\ ArgumentsOf(Append(ds, d), k) = ArgumentsOf(ds, k) \o ArgumentsPart(d, k)
<1> DEFINE n == Len(ds)
           more == Append(ds, d)
           f == [i \in 1 .. Len(ds) |-> ArgumentsPart(ds[i], k)]
           g == [i \in 1 .. Len(more) |-> ArgumentsPart(more[i], k)]
<1>1. /\ n \in Nat /\ Len(more) = n + 1 /\ more[n + 1] = d
      /\ \A i \in 1 .. n : more[i] = ds[i] /\ ds[i] \in Deltas
  BY LenProperties, AppendProperties, ElementOfSeq
<1>2. \A x \in Deltas : ArgumentsPart(x, k) \in Seq(Tokens)
  BY DeltaParts
<1>3. FlattenSeq(f) = ArgumentsOf(ds, k) /\ FlattenSeq(g) = ArgumentsOf(more, k)
  BY Zenon DEF ArgumentsOf, ArgumentsPart
<1> HIDE DEF n, more
<1>4. \A i \in 1 .. n + 1 : more[i] \in Deltas
  BY <1>1
<1>5. f \in [1 .. n -> Seq(Tokens)] /\ g \in [1 .. n + 1 -> Seq(Tokens)]
  BY <1>1, <1>2, <1>4 DEF n
<1>6. (\A i \in 1 .. n : g[i] = f[i]) /\ g[n + 1] = ArgumentsPart(d, k)
  BY <1>1 DEF n
<1> HIDE DEF f, g
<1>7. FlattenSeq(f) \in Seq(Tokens) /\ FlattenSeq(g) = FlattenSeq(f) \o g[n + 1]
  BY <1>1, <1>5, <1>6, FlattenStep
<1> QED
  BY <1>3, <1>6, <1>7 DEF more

LEMMA LastOfAppended ==
  ASSUME NEW S, NEW list \in Seq(S), NEW x \in S, NEW default
  PROVE  LastOr(list \o <<x>>, default) = x /\ LastOr(list \o <<>>, default) = LastOr(list, default)
<1>1. /\ list \o <<x>> = Append(list, x) /\ list \o <<>> = list
      /\ Append(list, x) # <<>> /\ Append(list, x)[Len(list) + 1] = x
      /\ Len(Append(list, x)) = Len(list) + 1
  BY AppendIsConcat, AppendProperties, ConcatEmptySeq
<1> QED
  BY <1>1 DEF LastOr, Last

(* The call that was named last, 0 when none was                             *)
LastCall(ds, k) == LastOr(CallsOf(ds, k), 0)

LEMMA CallsAppend ==
  ASSUME NEW ds \in Seq(Deltas), NEW d \in Deltas, NEW k
  PROVE  /\ CallsOf(ds, k) \in Seq(0 .. FirstRandom - 1)
         /\ LastCall(Append(ds, d), k) = IF d.index = k /\ d.call # 0 THEN d.call ELSE LastCall(ds, k)
<1> DEFINE n == Len(ds)
           more == Append(ds, d)
           Calls == 0 .. FirstRandom - 1
           f == [i \in 1 .. Len(ds) |-> CallPart(ds[i], k)]
           g == [i \in 1 .. Len(more) |-> CallPart(more[i], k)]
<1>1. /\ n \in Nat /\ Len(more) = n + 1 /\ more[n + 1] = d
      /\ \A i \in 1 .. n : more[i] = ds[i] /\ ds[i] \in Deltas
  BY LenProperties, AppendProperties, ElementOfSeq
<1>2. (\A x \in Deltas : CallPart(x, k) \in Seq(Calls)) /\ d.call \in Calls
  BY DeltaParts DEF Deltas
<1>3. FlattenSeq(f) = CallsOf(ds, k) /\ FlattenSeq(g) = CallsOf(more, k)
  BY Zenon DEF CallsOf, CallPart
<1> HIDE DEF n, more, Calls
<1>4. \A i \in 1 .. n + 1 : more[i] \in Deltas
  BY <1>1
<1>5. f \in [1 .. n -> Seq(Calls)] /\ g \in [1 .. n + 1 -> Seq(Calls)]
  BY <1>1, <1>2, <1>4 DEF n
<1>6. (\A i \in 1 .. n : g[i] = f[i]) /\ g[n + 1] = CallPart(d, k)
  BY <1>1 DEF n
<1> HIDE DEF f, g
<1>7. FlattenSeq(f) \in Seq(Calls) /\ FlattenSeq(g) = FlattenSeq(f) \o g[n + 1]
  BY <1>1, <1>5, <1>6, FlattenStep
<1>8. CallsOf(ds, k) \in Seq(Calls) /\ CallsOf(more, k) = CallsOf(ds, k) \o CallPart(d, k)
  BY <1>3, <1>6, <1>7
<1>9. /\ LastOr(CallsOf(ds, k) \o <<d.call>>, 0) = d.call
      /\ LastOr(CallsOf(ds, k) \o <<>>, 0) = LastOr(CallsOf(ds, k), 0)
  BY <1>2, <1>8, LastOfAppended
<1> QED
  BY <1>8, <1>9, Zenon DEF more, Calls, LastCall, CallPart

IndexesOf(ds) == {ds[j].index : j \in 1 .. Len(ds)}

LEMMA IndexesAppend ==
  ASSUME NEW ds \in Seq(Deltas), NEW d \in Deltas
  PROVE  IndexesOf(Append(ds, d)) = IndexesOf(ds) \cup {d.index}
<1> DEFINE n == Len(ds)
           more == Append(ds, d)
<1>1. /\ n \in Nat /\ Len(more) = n + 1 /\ more[n + 1] = d
      /\ \A i \in 1 .. n : more[i] = ds[i]
  BY LenProperties, AppendProperties
<1> HIDE DEF n, more
<1>2. \A i \in 1 .. n + 1 : i = n + 1 \/ i \in 1 .. n
  BY <1>1
<1>3. n + 1 \in 1 .. n + 1 /\ \A i \in 1 .. n : i \in 1 .. n + 1
  BY <1>1
<1>4. IndexesOf(ds) = {ds[j].index : j \in 1 .. n} /\ IndexesOf(more) = {more[j].index : j \in 1 .. n + 1}
  BY <1>1 DEF IndexesOf, n
<1> QED
  BY <1>1, <1>2, <1>3, <1>4 DEF more

(* An index that no delta has spells nothing.                                *)
LEMMA NothingSpelled ==
  ASSUME NEW ds \in Seq(Deltas), NEW k, k \notin IndexesOf(ds)
  PROVE  NameOf(ds, k) = <<>> /\ ArgumentsOf(ds, k) = <<>> /\ LastCall(ds, k) = 0
<1> DEFINE T == {l \in Seq(Deltas) : k \notin IndexesOf(l) =>
                   NameOf(l, k) = <<>> /\ ArgumentsOf(l, k) = <<>> /\ LastCall(l, k) = 0}
<1>1. <<>> \in T
  <2>1. Len(<<>>) = 0 /\ 1 .. 0 = {} /\ <<>> \in Seq(Deltas)
    BY EmptySeq
  <2> DEFINE F == [1 .. 0 -> {0}]
  <2>2. \A f \in F : FlattenSeq(f) = <<>>
    BY FlattenNothing
  <2>3. /\ [j \in 1 .. Len(<<>>) |-> IF <<>>[j].index = k THEN <<>>[j].name ELSE <<>>] \in F
        /\ [j \in 1 .. Len(<<>>) |-> IF <<>>[j].index = k THEN <<>>[j].arguments ELSE <<>>] \in F
        /\ [j \in 1 .. Len(<<>>) |->
              IF <<>>[j].index = k /\ <<>>[j].call # 0 THEN <<<<>>[j].call>> ELSE <<>>] \in F
    BY <2>1
  <2> HIDE DEF F
  <2>4. NameOf(<<>>, k) = <<>> /\ ArgumentsOf(<<>>, k) = <<>> /\ CallsOf(<<>>, k) = <<>>
    BY <2>2, <2>3, Zenon DEF NameOf, ArgumentsOf, CallsOf
  <2> QED
    BY <2>1, <2>4 DEF LastCall, LastOr
<1>2. ASSUME NEW l \in Seq(Deltas), NEW d \in Deltas, l \in T PROVE Append(l, d) \in T
  <2>1. Append(l, d) \in Seq(Deltas)
    BY AppendProperties
  <2>2. SUFFICES ASSUME k \notin IndexesOf(Append(l, d))
                 PROVE  /\ NameOf(Append(l, d), k) = <<>> /\ ArgumentsOf(Append(l, d), k) = <<>>
                        /\ LastCall(Append(l, d), k) = 0
    BY <2>1
  <2>3. k \notin IndexesOf(l) /\ d.index # k
    BY <2>2, IndexesAppend
  <2>4. NameOf(l, k) = <<>> /\ ArgumentsOf(l, k) = <<>> /\ LastCall(l, k) = 0
    BY <1>2, <2>3
  <2>5. /\ NameOf(Append(l, d), k) = NameOf(l, k) \o NamePart(d, k)
        /\ ArgumentsOf(Append(l, d), k) = ArgumentsOf(l, k) \o ArgumentsPart(d, k)
        /\ LastCall(Append(l, d), k) = IF d.index = k /\ d.call # 0 THEN d.call ELSE LastCall(l, k)
    BY NameAppend, ArgumentsAppend, CallsAppend
  <2>6. NamePart(d, k) = <<>> /\ ArgumentsPart(d, k) = <<>> /\ <<>> \o <<>> = <<>>
    <3>1. <<>> \o <<>> = <<>>
      BY EmptySeq, ConcatEmptySeq
    <3> QED
      BY <2>3, <3>1 DEF NamePart, ArgumentsPart
  <2> QED
    BY <2>3, <2>4, <2>5, <2>6
<1> HIDE DEF T
<1>3. Seq(Deltas) \subseteq T
  BY <1>1, <1>2, SeqClimb
<1> QED
  BY <1>3 DEF T

LEMMA ChunkParts ==
  ASSUME NEW chunk \in Chunks
  PROVE  /\ chunk.text \in Seq(Tokens) /\ chunk.calls \in Seq(Deltas) /\ chunk.finish \in STRING
         /\ ReasonPart(chunk) \in Seq(STRING)
<1>1. chunk.text \in Seq(Tokens) /\ chunk.calls \in Seq(Deltas) /\ chunk.finish \in STRING
  BY StreamConstants
<1>2. <<>> \in Seq(STRING) /\ <<chunk.finish>> \in Seq(STRING)
  BY <1>1, EmptySeq
<1> QED
  BY <1>1, <1>2, Zenon DEF ReasonPart

LEMMA TextAppend ==
  ASSUME NEW chunks \in Seq(Chunks), NEW c \in Chunks
  PROVE  TextOf(chunks) \in Seq(Tokens) /\ TextOf(Append(chunks, c)) = TextOf(chunks) \o c.text
<1> DEFINE n == Len(chunks)
           more == Append(chunks, c)
           f == [i \in 1 .. Len(chunks) |-> chunks[i].text]
           g == [i \in 1 .. Len(more) |-> more[i].text]
<1>1. /\ n \in Nat /\ Len(more) = n + 1 /\ more[n + 1] = c
      /\ \A i \in 1 .. n : more[i] = chunks[i] /\ chunks[i] \in Chunks
  BY LenProperties, AppendProperties, ElementOfSeq
<1>2. \A x \in Chunks : x.text \in Seq(Tokens)
  BY ChunkParts
<1>3. FlattenSeq(f) = TextOf(chunks) /\ FlattenSeq(g) = TextOf(more)
  BY Zenon DEF TextOf
<1> HIDE DEF n, more
<1>4. \A i \in 1 .. n + 1 : more[i] \in Chunks
  BY <1>1
<1>5. f \in [1 .. n -> Seq(Tokens)] /\ g \in [1 .. n + 1 -> Seq(Tokens)]
  BY <1>1, <1>2, <1>4 DEF n
<1>6. (\A i \in 1 .. n : g[i] = f[i]) /\ g[n + 1] = c.text
  BY <1>1 DEF n
<1> HIDE DEF f, g
<1>7. FlattenSeq(f) \in Seq(Tokens) /\ FlattenSeq(g) = FlattenSeq(f) \o g[n + 1]
  BY <1>1, <1>5, <1>6, FlattenStep
<1> QED
  BY <1>3, <1>6, <1>7 DEF more

LEMMA DeltasAppend ==
  ASSUME NEW chunks \in Seq(Chunks), NEW c \in Chunks
  PROVE  DeltasOf(chunks) \in Seq(Deltas) /\ DeltasOf(Append(chunks, c)) = DeltasOf(chunks) \o c.calls
<1> DEFINE n == Len(chunks)
           more == Append(chunks, c)
           f == [i \in 1 .. Len(chunks) |-> chunks[i].calls]
           g == [i \in 1 .. Len(more) |-> more[i].calls]
<1>1. /\ n \in Nat /\ Len(more) = n + 1 /\ more[n + 1] = c
      /\ \A i \in 1 .. n : more[i] = chunks[i] /\ chunks[i] \in Chunks
  BY LenProperties, AppendProperties, ElementOfSeq
<1>2. \A x \in Chunks : x.calls \in Seq(Deltas)
  BY ChunkParts
<1>3. FlattenSeq(f) = DeltasOf(chunks) /\ FlattenSeq(g) = DeltasOf(more)
  BY Zenon DEF DeltasOf
<1> HIDE DEF n, more
<1>4. \A i \in 1 .. n + 1 : more[i] \in Chunks
  BY <1>1
<1>5. f \in [1 .. n -> Seq(Deltas)] /\ g \in [1 .. n + 1 -> Seq(Deltas)]
  BY <1>1, <1>2, <1>4 DEF n
<1>6. (\A i \in 1 .. n : g[i] = f[i]) /\ g[n + 1] = c.calls
  BY <1>1 DEF n
<1> HIDE DEF f, g
<1>7. FlattenSeq(f) \in Seq(Deltas) /\ FlattenSeq(g) = FlattenSeq(f) \o g[n + 1]
  BY <1>1, <1>5, <1>6, FlattenStep
<1> QED
  BY <1>3, <1>6, <1>7 DEF more

(* The reason that was given last                                            *)
ReasonOf(chunks) == LastOr(ReasonsOf(chunks), Blank)

LEMMA ReasonsAppend ==
  ASSUME NEW chunks \in Seq(Chunks), NEW c \in Chunks
  PROVE  ReasonOf(Append(chunks, c)) = IF c.finish = Blank THEN ReasonOf(chunks) ELSE c.finish
<1> DEFINE n == Len(chunks)
           more == Append(chunks, c)
           Strings == STRING
           f == [i \in 1 .. Len(chunks) |-> ReasonPart(chunks[i])]
           g == [i \in 1 .. Len(more) |-> ReasonPart(more[i])]
<1>1. /\ n \in Nat /\ Len(more) = n + 1 /\ more[n + 1] = c
      /\ \A i \in 1 .. n : more[i] = chunks[i] /\ chunks[i] \in Chunks
  BY LenProperties, AppendProperties, ElementOfSeq
<1>2. (\A x \in Chunks : ReasonPart(x) \in Seq(Strings)) /\ c.finish \in Strings
  BY ChunkParts
<1>3. FlattenSeq(f) = ReasonsOf(chunks) /\ FlattenSeq(g) = ReasonsOf(more)
  BY Zenon DEF ReasonsOf, ReasonPart
<1> HIDE DEF n, more, Strings
<1>4. \A i \in 1 .. n + 1 : more[i] \in Chunks
  BY <1>1
<1>5. f \in [1 .. n -> Seq(Strings)] /\ g \in [1 .. n + 1 -> Seq(Strings)]
  BY <1>1, <1>2, <1>4 DEF n
<1>6. (\A i \in 1 .. n : g[i] = f[i]) /\ g[n + 1] = ReasonPart(c)
  BY <1>1 DEF n
<1> HIDE DEF f, g
<1>7. FlattenSeq(f) \in Seq(Strings) /\ FlattenSeq(g) = FlattenSeq(f) \o g[n + 1]
  BY <1>1, <1>5, <1>6, FlattenStep
<1>8. ReasonsOf(chunks) \in Seq(Strings) /\ ReasonsOf(more) = ReasonsOf(chunks) \o ReasonPart(c)
  BY <1>3, <1>6, <1>7
<1>9. /\ LastOr(ReasonsOf(chunks) \o <<c.finish>>, Blank) = c.finish
      /\ LastOr(ReasonsOf(chunks) \o <<>>, Blank) = LastOr(ReasonsOf(chunks), Blank)
  BY <1>2, <1>8, LastOfAppended
<1> QED
  BY <1>8, <1>9, Zenon DEF more, ReasonOf, ReasonPart

LEMMA NothingHeard ==
  DeltasOf(<<>>) = <<>> /\ TextOf(<<>>) = <<>> /\ ReasonOf(<<>>) = Blank /\ IndexesOf(<<>>) = {}
<1>1. Len(<<>>) = 0 /\ 1 .. 0 = {}
  OBVIOUS
<1> DEFINE F == [1 .. 0 -> {0}]
<1>2. \A f \in F : FlattenSeq(f) = <<>>
  BY FlattenNothing
<1>3. /\ [i \in 1 .. Len(<<>>) |-> <<>>[i].calls] \in F
      /\ [i \in 1 .. Len(<<>>) |-> <<>>[i].text] \in F
      /\ [i \in 1 .. Len(<<>>) |-> IF <<>>[i].finish = Blank THEN <<>> ELSE <<<<>>[i].finish>>] \in F
  BY <1>1
<1> HIDE DEF F
<1>4. DeltasOf(<<>>) = <<>> /\ TextOf(<<>>) = <<>> /\ ReasonsOf(<<>>) = <<>>
  BY <1>2, <1>3, Zenon DEF DeltasOf, TextOf, ReasonsOf
<1>5. IndexesOf(<<>>) = {}
  BY <1>1 DEF IndexesOf
<1>6. LastOr(<<>>, Blank) = Blank
  BY Zenon DEF LastOr
<1> QED
  BY <1>4, <1>5, <1>6, Zenon DEF ReasonOf

(* The calls of a chunk are added in turn.                                   *)
LEMMA FoldNothing == ASSUME NEW r PROVE FoldLeft(AddToolCall, r, <<>>) = r
<1>1. <<>> \in Seq(Deltas) /\ Len(<<>>) = 0
  BY EmptySeq
<1>2. PICK g : FoldOf(<<>>, r, g) /\ FoldLeft(AddToolCall, r, <<>>) = g[Len(<<>>)]
  BY <1>1, FoldOfCalls
<1> QED
  BY <1>1, <1>2 DEF FoldOf

LEMMA FoldAppend ==
  ASSUME NEW cs \in Seq(Deltas), NEW d \in Deltas, NEW r
  PROVE  FoldLeft(AddToolCall, r, Append(cs, d)) = AddToolCall(FoldLeft(AddToolCall, r, cs), d)
<1> DEFINE n == Len(cs)
           more == Append(cs, d)
<1>1. /\ n \in Nat /\ more \in Seq(Deltas) /\ Len(more) = n + 1 /\ more[n + 1] = d
      /\ \A i \in 1 .. n : more[i] = cs[i]
  BY LenProperties, AppendProperties
<1>2. PICK g : FoldOf(cs, r, g) /\ FoldLeft(AddToolCall, r, cs) = g[n]
  BY FoldOfCalls
<1>3. PICK h : FoldOf(more, r, h) /\ FoldLeft(AddToolCall, r, more) = h[n + 1]
  BY <1>1, FoldOfCalls
<1> HIDE DEF more
<1> DEFINE T == {k \in 0 .. n : g[k] = h[k]}
<1>4. 0 \in T
  BY <1>1, <1>2, <1>3 DEF FoldOf
<1>5. ASSUME NEW k \in 0 .. n - 1, k \in T PROVE k + 1 \in T
  <2> DEFINE j == k + 1
  <2>1. j \in 1 .. n /\ j \in 1 .. n + 1 /\ j \in 0 .. n /\ j - 1 = k
    BY <1>1
  <2> HIDE DEF j
  <2>2. g[j] = AddToolCall(g[k], cs[j])
    BY <1>2, <2>1 DEF FoldOf
  <2>3. h[j] = AddToolCall(h[k], more[j])
    BY <1>1, <1>3, <2>1 DEF FoldOf
  <2>4. more[j] = cs[j] /\ g[k] = h[k]
    BY <1>1, <1>5, <2>1
  <2> QED
    BY <2>1, <2>2, <2>3, <2>4 DEF j
<1>6. n \in T
  <2> HIDE DEF T, n
  <2>1. 0 .. n \subseteq T
    BY <1>1, <1>4, <1>5, Climb
  <2> QED
    BY <1>1, <2>1
<1>7. h[n + 1] = AddToolCall(h[n], d)
  <2>1. n + 1 \in 1 .. n + 1 /\ (n + 1) - 1 = n
    BY <1>1
  <2> QED
    BY <1>1, <1>3, <2>1 DEF FoldOf
<1> QED
  BY <1>2, <1>3, <1>6, <1>7 DEF more

(* What the state of the converter tells is what a text, a finish reason and *)
(* deltas spell.                                                             *)
Known(call) == IF call < FirstRandom THEN call ELSE 0

ToolSpells(tool, ds, k) ==
  tool.name = NameOf(ds, k) /\ tool.arguments = ArgumentsOf(ds, k) /\ Known(tool.call) = LastCall(ds, k)

SpellsText(st, text) ==
  IF st.message = None THEN text = <<>> ELSE text # <<>> /\ st.message.text = text

SpellsCalls(st, ds) ==
  DOMAIN st.tools = IndexesOf(ds) /\ \A k \in DOMAIN st.tools : ToolSpells(st.tools[k], ds, k)

Spells(st, chunks) ==
  /\ st.finish = ReasonOf(chunks) /\ st.drawn >= FirstRandom
  /\ SpellsText(st, TextOf(chunks)) /\ SpellsCalls(st, DeltasOf(chunks))

LEMMA CallSpelled ==
  ASSUME NEW a, NEW r, Good(a, r), r.s.started, r.s.drawn >= FirstRandom,
         NEW ds \in Seq(Deltas), SpellsCalls(r.s, ds), NEW d \in Deltas
  PROVE  SpellsCalls(AddToolCall(r, d).s, Append(ds, d))
<1> DEFINE st == r.s
           u == AddToolCall(r, d).s
           k == d.index
           more == Append(ds, d)
<1>1. /\ Called(st, u, d) /\ Named(st, u.tools[k], d)
      /\ u.tools[k].arguments = ArgumentsIn(st, k) \o d.arguments
  BY AddToolCallGood
<1>2. DOMAIN st.tools = IndexesOf(ds) /\ \A j \in DOMAIN st.tools : ToolSpells(st.tools[j], ds, j)
  BY DEF SpellsCalls
<1>3. st.drawn >= FirstRandom /\ st.drawn \in Nat /\ FirstRandom \in Nat \ {0}
  <2>1. StateType(st)
    BY DEF Good, Agrees
  <2> QED
    BY <2>1, StreamConstants DEF StateType
<1>11. /\ d.call \in 0 .. FirstRandom - 1 /\ d.name \in Seq(Tokens) /\ d.arguments \in Seq(Tokens)
  BY DEF Deltas
<1> HIDE DEF st, u
<1>4. DOMAIN u.tools = IndexesOf(more)
  BY <1>1, <1>2, IndexesAppend DEF Called
<1>5. ASSUME NEW j
      PROVE  /\ NameOf(more, j) = NameOf(ds, j) \o NamePart(d, j) /\ NameOf(ds, j) \in Seq(Tokens)
             /\ ArgumentsOf(more, j) = ArgumentsOf(ds, j) \o ArgumentsPart(d, j)
             /\ ArgumentsOf(ds, j) \in Seq(Tokens)
             /\ LastCall(more, j) = IF k = j /\ d.call # 0 THEN d.call ELSE LastCall(ds, j)
  BY NameAppend, ArgumentsAppend, CallsAppend
<1> HIDE DEF more
<1>6. ASSUME NEW j \in DOMAIN u.tools, j # k PROVE ToolSpells(u.tools[j], more, j)
  <2>1. j \in DOMAIN st.tools /\ u.tools[j] = st.tools[j]
    BY <1>1, <1>6 DEF Called
  <2>2. ToolSpells(st.tools[j], ds, j)
    BY <1>2, <2>1
  <2>3. NamePart(d, j) = <<>> /\ ArgumentsPart(d, j) = <<>>
    BY <1>6 DEF NamePart, ArgumentsPart
  <2>4. /\ NameOf(more, j) = NameOf(ds, j) /\ ArgumentsOf(more, j) = ArgumentsOf(ds, j)
        /\ LastCall(more, j) = LastCall(ds, j)
    BY <1>5, <1>6, <2>3, ConcatEmptySeq
  <2> QED
    BY <2>1, <2>2, <2>4 DEF ToolSpells
<1>7. /\ NameOf(more, k) = NameOf(ds, k) \o d.name /\ ArgumentsOf(more, k) = ArgumentsOf(ds, k) \o d.arguments
      /\ LastCall(more, k) = IF d.call # 0 THEN d.call ELSE LastCall(ds, k)
  BY <1>5 DEF NamePart, ArgumentsPart
<1>8. ToolSpells(u.tools[k], more, k)
  <2>1. CASE k \in DOMAIN st.tools
    <3>1. ToolSpells(st.tools[k], ds, k)
      BY <1>2, <2>1
    <3>2. /\ u.tools[k].call = IF d.call # 0 THEN d.call ELSE st.tools[k].call
          /\ u.tools[k].name = st.tools[k].name \o d.name
          /\ u.tools[k].arguments = st.tools[k].arguments \o d.arguments
      BY <1>1, <2>1, Zenon DEF Named, ArgumentsIn
    <3>3. Known(d.call) = d.call
      BY <1>3, <1>11 DEF Known
    <3> QED
      BY <1>7, <3>1, <3>2, <3>3 DEF ToolSpells
  <2>2. CASE k \notin DOMAIN st.tools
    <3>1. NameOf(ds, k) = <<>> /\ ArgumentsOf(ds, k) = <<>> /\ LastCall(ds, k) = 0
      BY <1>2, <2>2, NothingSpelled
    <3>2. /\ u.tools[k].call = IF d.call = 0 THEN st.drawn ELSE d.call
          /\ u.tools[k].name = d.name
          /\ u.tools[k].arguments = <<>> \o d.arguments
      BY <1>1, <2>2, Zenon DEF Named, ArgumentsIn
    <3>3. Known(d.call) = d.call /\ Known(st.drawn) = 0
      BY <1>3, <1>11 DEF Known
    <3>4. <<>> \o d.name = d.name
      BY <1>11, ConcatEmptySeq
    <3> QED
      BY <1>7, <3>1, <3>2, <3>3, <3>4 DEF ToolSpells
  <2> QED
    BY <2>1, <2>2
<1> QED
  BY <1>4, <1>6, <1>8 DEF SpellsCalls, u, st, more

LEMMA CallsSpelled ==
  ASSUME NEW a, NEW r, Good(a, r), r.s.started, r.s.drawn >= FirstRandom,
         NEW ds \in Seq(Deltas), SpellsCalls(r.s, ds), NEW cs \in Seq(Deltas)
  PROVE  LET u == FoldLeft(AddToolCall, r, cs).s
         IN  /\ u.message = r.s.message /\ u.finish = r.s.finish /\ u.drawn >= FirstRandom
             /\ SpellsCalls(u, ds \o cs)
<1> DEFINE of(l) == FoldLeft(AddToolCall, r, l)
           T == {l \in Seq(Deltas) :
                   /\ Good(a, of(l)) /\ of(l).s.started /\ of(l).s.drawn >= FirstRandom
                   /\ of(l).s.message = r.s.message /\ of(l).s.finish = r.s.finish
                   /\ SpellsCalls(of(l).s, ds \o l)}
<1>1. <<>> \in T
  <2>1. of(<<>>) = r
    BY FoldNothing
  <2>2. <<>> \in Seq(Deltas) /\ ds \o <<>> = ds
    BY EmptySeq, ConcatEmptySeq
  <2> HIDE DEF of
  <2> QED
    BY <2>1, <2>2
<1>2. ASSUME NEW l \in Seq(Deltas), NEW d \in Deltas, l \in T PROVE Append(l, d) \in T
  <2> DEFINE p == of(l)
             q == AddToolCall(p, d)
             more == Append(l, d)
  <2>1. of(more) = q
    BY FoldAppend
  <2>2. /\ Good(a, p) /\ p.s.started /\ p.s.drawn >= FirstRandom
        /\ p.s.message = r.s.message /\ p.s.finish = r.s.finish
        /\ SpellsCalls(p.s, ds \o l)
    BY <1>2
  <2>3. more \in Seq(Deltas) /\ ds \o l \in Seq(Deltas)
    BY AppendProperties, ConcatProperties
  <2>4. ds \o more = Append(ds \o l, d)
    <3>1. <<d>> \in Seq(Deltas)
      OBVIOUS
    <3>2. more = l \o <<d>> /\ Append(ds \o l, d) = (ds \o l) \o <<d>>
      BY <2>3, AppendIsConcat
    <3>3. \A x, y, z \in Seq(Deltas) : (x \o y) \o z = x \o (y \o z)
      BY SMTT(30), Associates
    <3>4. (ds \o l) \o <<d>> = ds \o (l \o <<d>>)
      BY <3>1, <3>3, Zenon
    <3> QED
      BY <3>2, <3>4, Zenon
  <2> HIDE DEF of, more, p
  <2>5. Good(a, q) /\ q.s.started /\ Called(p.s, q.s, d)
    BY <2>2, AddToolCallGood
  <2>6. SpellsCalls(q.s, Append(ds \o l, d))
    BY <2>2, <2>3, CallSpelled
  <2>7. StateType(p.s) /\ StateType(q.s)
    BY <2>2, <2>5 DEF Good, Agrees
  <2> HIDE DEF q
  <2>8. /\ q.s.drawn >= FirstRandom /\ q.s.message = r.s.message /\ q.s.finish = r.s.finish
    <3>1. q.s.drawn >= p.s.drawn /\ p.s.drawn \in Nat /\ q.s.drawn \in Nat /\ FirstRandom \in Nat
      BY <2>5, <2>7, StreamConstants DEF Called, StateType
    <3>2. q.s.message = p.s.message /\ q.s.finish = p.s.finish
      BY <2>5 DEF Called
    <3> QED
      BY <2>2, <3>1, <3>2
  <2>9. more \in T
    BY <2>1, <2>3, <2>4, <2>5, <2>6, <2>8
  <2> QED
    BY <2>9 DEF more
<1> HIDE DEF T
<1>3. Seq(Deltas) \subseteq T
  BY <1>1, <1>2, SeqClimb
<1> QED
  BY <1>3 DEF T, of

LEMMA TextSpelled ==
  ASSUME NEW a, NEW r, Good(a, r), r.s.started, NEW text \in Seq(Tokens), NEW delta \in Seq(Tokens),
         SpellsText(r.s, text)
  PROVE  SpellsText(AddText(r, delta).s, text \o delta)
<1> DEFINE q == AddText(r, delta)
<1>1. IF delta = <<>> THEN q.s.message = r.s.message
      ELSE /\ q.s.message # None
           /\ q.s.message.text = (IF r.s.message = None THEN <<>> ELSE r.s.message.text) \o delta
  BY AddTextGood
<1> HIDE DEF q
<1>2. CASE delta = <<>>
  <2>1. text \o delta = text
    BY <1>2, ConcatEmptySeq
  <2> QED
    BY <1>1, <1>2, <2>1 DEF SpellsText, q
<1>3. CASE delta # <<>>
  <2>1. text \o delta # <<>>
    <3>1. /\ Len(text \o delta) = Len(text) + Len(delta)
          /\ Len(text) \in Nat /\ Len(delta) \in Nat /\ Len(delta) # 0
      BY <1>3, ConcatProperties, LenProperties, EmptySeq
    <3>2. Len(<<>>) = 0
      OBVIOUS
    <3> QED
      BY <3>1, <3>2
  <2>2. (IF r.s.message = None THEN <<>> ELSE r.s.message.text) = text
    BY DEF SpellsText
  <2>3. q.s.message # None /\ q.s.message.text = text \o delta
    BY <1>1, <1>3, <2>2
  <2> QED
    BY <2>1, <2>3 DEF SpellsText, q
<1> QED
  BY <1>2, <1>3

LEMMA ConsumeSpells ==
  ASSUME NEW a, Agrees(a, s), NEW chunk \in Chunks, NEW chunks \in Seq(Chunks), Spells(s, chunks)
  PROVE  Spells(Consume(chunk).s, Append(chunks, chunk))
<1> DEFINE fresh == [s |-> s, out |-> <<>>]
           begun == Start(fresh)
           told == IF chunk.finish = Blank THEN begun ELSE [begun EXCEPT !.s.finish = chunk.finish]
           first == AddText(told, chunk.text)
           cs == chunk.calls
           ds == DeltasOf(chunks)
           text == TextOf(chunks)
           reason == ReasonOf(Append(chunks, chunk))
<1>1. chunk.text \in Seq(Tokens) /\ cs \in Seq(Deltas) /\ chunk.finish \in STRING
  BY ChunkParts
<1>2. Good(a, fresh) /\ fresh.s = s
  BY NothingEmitted
<1>3. Consume(chunk) = FoldLeft(AddToolCall, first, cs)
  BY DEF Consume
<1> HIDE DEF fresh
<1>4. /\ Good(a, begun) /\ begun.s.started
      /\ begun.s.message = s.message /\ Untouched(s, begun.s)
  BY <1>2, StartGood
<1> HIDE DEF begun
<1>5. /\ Good(a, told) /\ told.s.started
      /\ told.s.message = begun.s.message /\ told.s.tools = begun.s.tools /\ told.s.drawn = begun.s.drawn
      /\ told.s.finish = IF chunk.finish = Blank THEN begun.s.finish ELSE chunk.finish
  <2>1. CASE chunk.finish = Blank
    BY <1>4, <2>1
  <2>2. CASE chunk.finish # Blank
    <3> DEFINE q == [begun EXCEPT !.s.finish = chunk.finish]
    <3>1. /\ Good(a, q) /\ q.s.started /\ q.s.message = begun.s.message /\ q.s.tools = begun.s.tools
          /\ q.s.finish = chunk.finish /\ q.s.drawn = begun.s.drawn
      BY <1>1, <1>4, Telling
    <3>2. told = q
      BY <2>2
    <3> HIDE DEF q, told
    <3> QED
      BY <2>2, <3>1, <3>2
  <2> QED
    BY <2>1, <2>2
<1> HIDE DEF told
<1>6. /\ Good(a, first) /\ first.s.started /\ Untouched(told.s, first.s)
  BY <1>1, <1>5, AddTextGood
<1>7. /\ text \in Seq(Tokens) /\ ds \in Seq(Deltas)
      /\ TextOf(Append(chunks, chunk)) = text \o chunk.text
      /\ DeltasOf(Append(chunks, chunk)) = ds \o cs
      /\ reason = IF chunk.finish = Blank THEN ReasonOf(chunks) ELSE chunk.finish
  BY TextAppend, DeltasAppend, ReasonsAppend
<1>8. /\ s.finish = ReasonOf(chunks) /\ s.drawn >= FirstRandom /\ SpellsText(s, text) /\ SpellsCalls(s, ds)
  BY DEF Spells
<1> HIDE DEF cs, ds, text, reason
<1>9. SpellsText(told.s, text)
  BY <1>4, <1>5, <1>8 DEF SpellsText
<1>10. SpellsText(first.s, text \o chunk.text)
  BY <1>1, <1>5, <1>7, <1>9, TextSpelled
<1> HIDE DEF first
<1>11. first.s.tools = s.tools /\ first.s.finish = reason
  BY <1>4, <1>5, <1>6, <1>7, <1>8 DEF Untouched
<1>12. first.s.drawn >= FirstRandom
  <2>1. StateType(s) /\ StateType(begun.s) /\ StateType(first.s)
    BY <1>4, <1>6 DEF Good, Agrees
  <2>2. s.drawn \in Nat /\ begun.s.drawn \in Nat /\ first.s.drawn \in Nat /\ FirstRandom \in Nat
    BY <2>1, StreamConstants DEF StateType
  <2>3. begun.s.drawn >= s.drawn /\ first.s.drawn >= told.s.drawn /\ told.s.drawn = begun.s.drawn
    BY <1>4, <1>5, <1>6 DEF Untouched
  <2> QED
    BY <1>8, <2>2, <2>3
<1>13. SpellsCalls(first.s, ds)
  BY <1>8, <1>11 DEF SpellsCalls
<1> DEFINE u == FoldLeft(AddToolCall, first, cs).s
<1>14. /\ u.message = first.s.message /\ u.finish = first.s.finish /\ u.drawn >= FirstRandom
       /\ SpellsCalls(u, ds \o cs)
  BY <1>1, <1>6, <1>7, <1>12, <1>13, CallsSpelled
<1> HIDE DEF u
<1>15. SpellsText(u, text \o chunk.text)
  BY <1>10, <1>14 DEF SpellsText
<1>16. Spells(u, Append(chunks, chunk))
  BY <1>7, <1>11, <1>14, <1>15 DEF Spells, reason
<1> QED
  BY <1>3, <1>16 DEF u

(* What the client b is told is what the answer in one piece would tell.     *)
Matches(b) ==
  LET c == Completion(heard)
  IN  /\ b.status = StatusOf(c.finish)
      /\ IF c.text = <<>> /\ c.calls = <<>> THEN b.output = <<>>
         ELSE SameItems(b.output, Buffered(c))

CallAt(ds, k) ==
  [call |-> LastOr(CallsOf(ds, k), 0), name |-> NameOf(ds, k), arguments |-> ArgumentsOf(ds, k)]

LEMMA CompletionParts ==
  ASSUME NEW chunks, NEW n \in Nat, n = Cardinality(IndexesOf(DeltasOf(chunks)))
  PROVE  /\ Completion(chunks).text = TextOf(chunks) /\ Completion(chunks).finish = ReasonOf(chunks)
         /\ DOMAIN Completion(chunks).calls = 1 .. n /\ Len(Completion(chunks).calls) = n
         /\ \A i \in 1 .. n : Completion(chunks).calls[i]
              = CallAt(DeltasOf(chunks), Ascending(IndexesOf(DeltasOf(chunks)))[i])
<1> DEFINE ds == DeltasOf(chunks)
           I == IndexesOf(ds)
           list == [i \in 1 .. Cardinality(I) |-> CallAt(ds, Ascending(I)[i])]
           S == {CallAt(ds, Ascending(I)[i]) : i \in 1 .. n}
<1>1. Completion(chunks) = [text |-> TextOf(chunks), calls |-> list, finish |-> ReasonOf(chunks)]
  BY Zenon DEF Completion, IndexesOf, CallAt, ReasonOf
<1>2. /\ list \in [1 .. n -> S] /\ \A i \in 1 .. n : list[i] = CallAt(ds, Ascending(I)[i])
  OBVIOUS
<1> HIDE DEF list, S
<1>3. list \in Seq(S) /\ Len(list) = n /\ DOMAIN list = 1 .. n
  BY <1>2, SeqDef, LenProperties
<1> QED
  BY <1>1, <1>2, <1>3

BufferedMessage(text) == [kind |-> "message", call |-> 0, name |-> <<>>, content |-> text]
BufferedCall(c) == [kind |-> "function_call", call |-> c.call, name |-> c.name, content |-> c.arguments]

LEMMA BufferedParts ==
  ASSUME NEW c, NEW n \in Nat, DOMAIN c.calls = 1 .. n, Len(c.calls) = n,
         NEW m, m = IF c.text = <<>> /\ c.calls # <<>> THEN 0 ELSE 1
  PROVE  /\ Len(Buffered(c)) = m + n
         /\ m = 1 => Buffered(c)[1] = BufferedMessage(c.text)
         /\ \A i \in 1 .. n : Buffered(c)[m + i] = BufferedCall(c.calls[i])
<1> DEFINE front == IF c.text = <<>> /\ c.calls # <<>> THEN <<>> ELSE <<BufferedMessage(c.text)>>
           back == [i \in 1 .. n |-> BufferedCall(c.calls[i])]
           U == {BufferedMessage(c.text)} \cup {BufferedCall(c.calls[i]) : i \in 1 .. n}
<1>1. Buffered(c) = front \o back
  BY DEF Buffered, BufferedMessage, BufferedCall
<1>2. back \in [1 .. n -> U] /\ \A i \in 1 .. n : back[i] = BufferedCall(c.calls[i])
  OBVIOUS
<1>3. BufferedMessage(c.text) \in U
  OBVIOUS
<1> HIDE DEF back, U
<1>4. back \in Seq(U) /\ Len(back) = n
  BY <1>2, SeqDef, LenProperties
<1>5. front \in Seq(U) /\ Len(front) = m /\ m \in {0, 1} /\ (m = 1 => front[1] = BufferedMessage(c.text))
  <2> DEFINE x == BufferedMessage(c.text)
  <2>1. x \in U
    BY <1>3
  <2> HIDE DEF x
  <2>2. <<>> \in Seq(U) /\ Len(<<>>) = 0 /\ <<x>> \in Seq(U) /\ Len(<<x>>) = 1 /\ <<x>>[1] = x
    BY <2>1, EmptySeq
  <2> QED
    BY <2>2 DEF x
<1> HIDE DEF front
<1>6. /\ Len(front \o back) = m + n
      /\ \A p \in 1 .. m + n : (front \o back)[p] = IF p <= m THEN front[p] ELSE back[p - m]
  BY <1>4, <1>5, ConcatProperties, SMTT(30)
<1>7. m = 1 => 1 \in 1 .. m + n
  BY <1>5
<1>8. \A i \in 1 .. n : m + i \in 1 .. m + n /\ ~(m + i <= m) /\ (m + i) - m = i
  BY <1>5
<1> QED
  BY <1>1, <1>2, <1>5, <1>6, <1>7, <1>8

LEMMA MessageShown ==
  Shown(ClosedMessage) = Shown(BufferedMessage(s.message.text))
<1>1. 0 < FirstRandom
  BY StreamConstants
<1> QED
  BY <1>1 DEF Shown, ClosedMessage, MessageItem, BufferedMessage

LEMMA ToolShown ==
  ASSUME NEW tool, NEW ds, NEW k, ToolSpells(tool, ds, k)
  PROVE  Shown(ClosedTool(tool)) = Shown(BufferedCall(CallAt(ds, k)))
<1>1. tool.name = NameOf(ds, k) /\ tool.arguments = ArgumentsOf(ds, k) /\ Known(tool.call) = LastCall(ds, k)
  BY DEF ToolSpells
<1> DEFINE name == NameOf(ds, k)
           arguments == ArgumentsOf(ds, k)
           last == LastCall(ds, k)
<1>2. /\ Shown(ClosedTool(tool))
           = [kind |-> "function_call", name |-> tool.name, content |-> tool.arguments,
              call |-> Known(tool.call)]
      /\ Shown(BufferedCall(CallAt(ds, k)))
           = [kind |-> "function_call", name |-> name, content |-> arguments, call |-> Known(last)]
  BY DEF Shown, ClosedTool, CallItem, BufferedCall, CallAt, LastCall, Known
<1>3. Known(Known(tool.call)) = Known(tool.call)
  BY StreamConstants DEF Known
<1> QED
  BY <1>1, <1>2, <1>3

LEMMA FinishMatches ==
  ASSUME NEW c, Agrees(c, s), s.started, heard \in Seq(Chunks), Spells(s, heard),
         NEW b, b.status = StatusOf(s.finish), b.output = FinalOutput(Outputs)
  PROVE  Matches(b)
<1> DEFINE ds == DeltasOf(heard)
           I == IndexesOf(ds)
           comp == Completion(heard)
           text == TextOf(heard)
           n == Cardinality(I)
           out == FinalOutput(Outputs)
           items == Buffered(comp)
<1>1. /\ s.finish = ReasonOf(heard) /\ SpellsText(s, text)
      /\ DOMAIN s.tools = I /\ \A k \in I : ToolSpells(s.tools[k], ds, k)
  BY DEF Spells, SpellsCalls
<1>2. Lists(Outputs, s.count) /\ InOrder(Outputs)
  BY FinishLegal
<1>3. I \in SUBSET Int /\ IsFiniteSet(I) /\ s.count \in Nat
  BY <1>1 DEF Agrees, StateType
<1>4. n \in Nat /\ \A i \in 1 .. n : Ascending(I)[i] \in I
  <2> HIDE DEF I
  <2> QED
    BY <1>3, AscendingListsAll
<1>5. /\ comp.text = text /\ comp.finish = ReasonOf(heard)
      /\ DOMAIN comp.calls = 1 .. n /\ Len(comp.calls) = n
      /\ \A i \in 1 .. n : comp.calls[i] = CallAt(ds, Ascending(I)[i])
  BY <1>4, CompletionParts
<1>6. Len(Tools) = n /\ \A i \in 1 .. n : Tools[i] = s.tools[Ascending(I)[i]]
  <2>1. Tools = [i \in 1 .. n |-> s.tools[Ascending(I)[i]]]
    BY <1>1 DEF Tools
  <2>2. DOMAIN Tools = 1 .. Len(Tools) /\ Len(Tools) \in Nat
    BY ToolsListed
  <2>3. DOMAIN Tools = 1 .. n /\ \A i \in 1 .. n : Tools[i] = s.tools[Ascending(I)[i]]
    BY <2>1
  <2> HIDE DEF n
  <2>4. Len(Tools) = n
    <3>1. \A x, y \in Nat : 1 .. x = 1 .. y => x = y
      <4> TAKE x, y \in Nat
      <4> HAVE 1 .. x = 1 .. y
      <4>1. CASE x < y
        <5>1. y \in 1 .. y /\ y \notin 1 .. x
          BY <4>1
        <5> QED
          BY <5>1
      <4>2. CASE y < x
        <5>1. x \in 1 .. x /\ x \notin 1 .. y
          BY <4>2
        <5> QED
          BY <5>1
      <4> QED
        BY <4>1, <4>2
    <3> QED
      BY <1>4, <2>2, <2>3, <3>1, Zenon
  <2> QED
    BY <2>3, <2>4
<1>7. s.count = Before + n /\ Before \in {0, 1}
  BY <1>2, <1>6 DEF InOrder, Before
<1>8. Sorted(Outputs, s.count, out)
  BY <1>2, <1>3, SortedByIndex
<1>9. out \in Seq(Items) /\ Len(out) = s.count
  <2>1. out \in Seq(Items) /\ DOMAIN out = 1 .. s.count
    BY <1>8 DEF Sorted
  <2> QED
    BY <1>3, <2>1, LenProperties
<1>10. comp.calls = <<>> <=> n = 0
  <2>1. ASSUME comp.calls = <<>> PROVE n = 0
    BY <1>5, <2>1
  <2>2. ASSUME n = 0 PROVE comp.calls = <<>>
    <3>1. comp.calls \in Seq(Int)
      <4>1. 1 .. n = {}
        BY <2>2
      <4>2. comp.calls = [i \in 1 .. Cardinality(I) |-> CallAt(ds, Ascending(I)[i])]
        BY Zenon DEF Completion, IndexesOf, CallAt
      <4>3. comp.calls \in [1 .. n -> Int]
        BY <4>1, <4>2
      <4> HIDE DEF comp, n
      <4> QED
        BY <1>4, <4>3, SeqDef
    <3> QED
      BY <1>5, <2>2, <3>1, EmptySeq
  <2> QED
    BY <2>1, <2>2
<1>11. text = <<>> <=> s.message = None
  BY <1>1 DEF SpellsText
<1> HIDE DEF comp, out, n, I, ds, text
<1>12. b.status = StatusOf(comp.finish)
  BY <1>1, <1>5
<1>13. CASE comp.text = <<>> /\ comp.calls = <<>>
  <2>1. s.count = 0
    BY <1>5, <1>7, <1>10, <1>11, <1>13 DEF Before
  <2>2. out = <<>>
    BY <1>9, <2>1, EmptySeq
  <2> QED
    BY <1>12, <1>13, <2>2 DEF Matches, comp, out
<1>14. CASE ~(comp.text = <<>> /\ comp.calls = <<>>)
  <2> DEFINE m == IF comp.text = <<>> /\ comp.calls # <<>> THEN 0 ELSE 1
  <2>1. m = Before
    BY <1>5, <1>11, <1>14 DEF Before
  <2>2. /\ Len(items) = m + n
        /\ m = 1 => items[1] = BufferedMessage(comp.text)
        /\ \A i \in 1 .. n : items[m + i] = BufferedCall(comp.calls[i])
    BY <1>4, <1>5, BufferedParts, SMTT(30)
  <2> HIDE DEF m, items
  <2>3. ASSUME NEW p \in 1 .. s.count PROVE Shown(Outputs[p].item) = Shown(items[p])
    <3>1. CASE p <= Before
      <4>1. p = 1 /\ Before = 1 /\ s.message # None
        BY <1>7, <3>1 DEF Before
      <4>2. Outputs[p].item = ClosedMessage
        BY <1>2, <4>1 DEF InOrder
      <4>3. items[p] = BufferedMessage(s.message.text)
        BY <1>1, <1>5, <2>1, <2>2, <4>1 DEF SpellsText
      <4> QED
        BY <4>2, <4>3, MessageShown
    <3>2. CASE ~(p <= Before)
      <4> DEFINE i == p - Before
                 k == Ascending(I)[i]
      <4>1. i \in 1 .. n /\ Before + i = p
        BY <1>4, <1>7, <3>2
      <4>2. Tools[i] = s.tools[k] /\ comp.calls[i] = CallAt(ds, k) /\ k \in I
        BY <1>4, <1>5, <1>6, <4>1
      <4>3. Outputs[Before + i].item = ClosedTool(Tools[i])
        BY <1>2, <1>6, <4>1 DEF InOrder
      <4>4. items[Before + i] = BufferedCall(comp.calls[i])
        BY <2>1, <2>2, <4>1
      <4> HIDE DEF i, k
      <4>5. ToolSpells(s.tools[k], ds, k)
        BY <1>1, <4>2
      <4> QED
        BY <4>1, <4>2, <4>3, <4>4, <4>5, ToolShown
    <3> QED
      BY <1>7, <3>1, <3>2
  <2>4. PICK place \in [1 .. s.count -> 1 .. s.count] :
          IsInjective(place) /\ \A i \in 1 .. s.count : out[i] = Outputs[place[i]].item
    BY <1>8 DEF Sorted
  <2>5. \A i \in 1 .. s.count : Shown(out[i]) = Shown(items[place[i]])
    BY <2>3, <2>4
  <2>6. Len(items) = s.count
    BY <1>7, <2>1, <2>2
  <2>7. SameItems(out, items)
    BY <1>9, <2>4, <2>5, <2>6, Zenon DEF SameItems
  <2> QED
    BY <1>12, <1>14, <2>7 DEF Matches, comp, out, items
<1> QED
  BY <1>13, <1>14

(* An answer in one piece has items of the right shape.                      *)
LEMMA IndexesTyped ==
  ASSUME NEW ds \in Seq(Deltas)
  PROVE  IsFiniteSet(IndexesOf(ds))
<1> DEFINE T == {l \in Seq(Deltas) : IsFiniteSet(IndexesOf(l))}
<1>1. <<>> \in T
  BY NothingHeard, EmptySeq, FS_EmptySet
<1>2. ASSUME NEW l \in Seq(Deltas), NEW d \in Deltas, l \in T PROVE Append(l, d) \in T
  <2>1. Append(l, d) \in Seq(Deltas)
    BY AppendProperties
  <2>2. IsFiniteSet(IndexesOf(l) \cup {d.index})
    BY <1>2, FS_AddElement
  <2> QED
    BY <2>1, <2>2, IndexesAppend
<1> HIDE DEF T
<1>3. Seq(Deltas) \subseteq T
  BY <1>1, <1>2, SeqClimb
<1> QED
  BY <1>3 DEF T

LEMMA CallTyped ==
  ASSUME NEW ds \in Seq(Deltas), NEW k
  PROVE  /\ CallAt(ds, k).call \in Nat /\ CallAt(ds, k).name \in Seq(Tokens)
         /\ CallAt(ds, k).arguments \in Seq(Tokens)
<1> DEFINE d == [index |-> 0, call |-> 0, name |-> <<>>, arguments |-> <<>>]
           list == CallsOf(ds, k)
           S == 0 .. FirstRandom - 1
<1>1. d \in Deltas
  BY StreamConstants, EmptySeq DEF Deltas
<1> HIDE DEF d
<1>2. NameOf(ds, k) \in Seq(Tokens) /\ ArgumentsOf(ds, k) \in Seq(Tokens) /\ list \in Seq(S)
  BY <1>1, NameAppend, ArgumentsAppend, CallsAppend
<1>3. \A x \in S : x \in Nat
  BY StreamConstants
<1> HIDE DEF list, S
<1>4. LastOr(list, 0) \in Nat
  <2>1. CASE list = <<>>
    BY <2>1 DEF LastOr
  <2>2. CASE list # <<>>
    <3>1. Len(list) \in 1 .. Len(list)
      <4>1. Len(list) \in Nat /\ Len(list) # 0
        BY <1>2, <2>2, LenProperties, EmptySeq
      <4> QED
        BY <4>1
    <3>2. list[Len(list)] \in S
      BY <1>2, <3>1, ElementOfSeq
    <3> QED
      BY <1>3, <2>2, <3>2 DEF LastOr, Last
  <2> QED
    BY <2>1, <2>2
<1> QED
  BY <1>2, <1>4 DEF CallAt, list

ItemKnown(x) ==
  /\ x.kind \in {"message", "function_call"} /\ x.call \in Nat
  /\ x.name \in Seq(Tokens) /\ x.content \in Seq(Tokens)

LEMMA NumberedTyped ==
  ASSUME NEW items, NEW n \in Nat, n = Len(items), \A i \in 1 .. n : ItemKnown(items[i])
  PROVE  Numbered(items) \in Seq(Items)
<1> DEFINE list == Numbered(items)
<1>1. FirstRandom \in Nat
  BY StreamConstants
<1>2. ASSUME NEW i \in 1 .. n PROVE list[i] \in Items
  <2> DEFINE x == items[i]
             call == IF x.kind = "function_call" /\ x.call = 0 THEN FirstRandom + 2 * i + 1 ELSE x.call
             id == FirstRandom + 2 * i
  <2>1. list[i] = [id |-> id, kind |-> x.kind, name |-> x.name, call |-> call,
                   content |-> x.content, stage |-> "closed"]
    BY DEF Numbered
  <2>2. id \in Nat /\ call \in Nat
    BY <1>1, <1>2 DEF ItemKnown
  <2>3. /\ x.kind \in {"message", "function_call"} /\ x.name \in Seq(Tokens)
        /\ x.content \in Seq(Tokens) /\ "closed" \in Stages
    BY <1>2 DEF ItemKnown, Stages
  <2> HIDE DEF x, call, id
  <2> QED
    BY <2>1, <2>2, <2>3 DEF Items
<1>3. list = [i \in 1 .. n |-> list[i]]
  BY DEF Numbered
<1> HIDE DEF list
<1>4. list \in [1 .. n -> Items]
  BY <1>2, <1>3
<1> QED
  BY <1>4, SeqDef DEF list

LEMMA BufferedTyped ==
  ASSUME NEW chunk \in Chunks
  PROVE  Numbered(Buffered(Completion(<<chunk>>))) \in Seq(Items)
<1> DEFINE chunks == <<chunk>>
           c == Completion(chunks)
           ds == DeltasOf(chunks)
           n == Cardinality(IndexesOf(ds))
           m == IF c.text = <<>> /\ c.calls # <<>> THEN 0 ELSE 1
           items == Buffered(c)
<1>1. chunks \in Seq(Chunks)
  OBVIOUS
<1> HIDE DEF chunks
<1>2. TextOf(chunks) \in Seq(Tokens) /\ ds \in Seq(Deltas)
  BY <1>1, TextAppend, DeltasAppend
<1>3. n \in Nat
  BY <1>2, IndexesTyped, FS_CardinalityType
<1>4. /\ c.text = TextOf(chunks) /\ DOMAIN c.calls = 1 .. n /\ Len(c.calls) = n
      /\ \A i \in 1 .. n : c.calls[i] = CallAt(ds, Ascending(IndexesOf(ds))[i])
  BY <1>3, CompletionParts
<1> HIDE DEF ds, c, n
<1>5. /\ Len(items) = m + n
      /\ m = 1 => items[1] = BufferedMessage(c.text)
      /\ \A i \in 1 .. n : items[m + i] = BufferedCall(c.calls[i])
  BY <1>3, <1>4, BufferedParts
<1>6. m \in {0, 1}
  OBVIOUS
<1> HIDE DEF m, items
<1>7. ItemKnown(BufferedMessage(c.text))
  <2>1. <<>> \in Seq(Tokens)
    BY EmptySeq
  <2> QED
    BY <1>2, <1>4, <2>1 DEF ItemKnown, BufferedMessage
<1>8. ASSUME NEW i \in 1 .. n PROVE ItemKnown(BufferedCall(c.calls[i]))
  <2>1. /\ c.calls[i].call \in Nat /\ c.calls[i].name \in Seq(Tokens)
        /\ c.calls[i].arguments \in Seq(Tokens)
    BY <1>2, <1>4, CallTyped
  <2> QED
    BY <2>1 DEF ItemKnown, BufferedCall
<1>9. ASSUME NEW p \in 1 .. m + n PROVE ItemKnown(items[p])
  <2>1. CASE p <= m
    <3>1. p = 1 /\ m = 1
      BY <1>6, <2>1
    <3> QED
      BY <1>5, <1>7, <3>1
  <2>2. CASE ~(p <= m)
    <3> DEFINE i == p - m
    <3>1. i \in 1 .. n /\ m + i = p
      BY <1>3, <1>6, <2>2
    <3> HIDE DEF i
    <3> QED
      BY <1>5, <1>8, <3>1
  <2> QED
    BY <1>3, <1>6, <2>1, <2>2
<1>10. m + n \in Nat
  BY <1>3, <1>6
<1> QED
  BY <1>5, <1>9, <1>10, NumberedTyped DEF items, c, chunks

-----------------------------------------------------------------------------
(* What the chunks told the converter is what the events tell.                     *)

Errors == {Blank, "no_chunk", "read", "write"}

TellInv ==
  /\ heard \in Seq(Chunks) /\ error \in Errors
  /\ StateType(s) /\ IndexesTaken(s) /\ sent \in Clients
  /\ streaming => Spells(s, heard)
  /\ phase = "finish" => \E b : Towards(b) /\ Matches(b)
  /\ phase = "over" /\ streaming /\ sent.status \in Finals => Matches(sent)

LEMMA FreshSpells == Spells(Fresh, <<>>)
<1>1. Fresh.message = None /\ Fresh.finish = Blank /\ Fresh.drawn = FirstRandom /\ DOMAIN Fresh.tools = {}
  <2>1. DOMAIN <<>> = {}
    OBVIOUS
  <2>2. /\ Fresh.message = None /\ Fresh.finish = Blank /\ Fresh.drawn = FirstRandom
        /\ Fresh.tools = <<>>
    BY Zenon DEF Fresh
  <2> QED
    BY <2>1, <2>2
<1>2. FirstRandom >= FirstRandom
  BY StreamConstants
<1>3. /\ TextOf(<<>>) = <<>> /\ ReasonOf(<<>>) = Blank /\ DeltasOf(<<>>) = <<>>
      /\ IndexesOf(<<>>) = {}
  BY NothingHeard
<1>4. SpellsText(Fresh, TextOf(<<>>))
  BY <1>1, <1>3 DEF SpellsText
<1>5. SpellsCalls(Fresh, DeltasOf(<<>>))
  BY <1>1, <1>3 DEF SpellsCalls
<1> QED
  BY <1>1, <1>2, <1>3, <1>4, <1>5 DEF Spells

LEMMA TellStart ==
  ASSUME ResponsesInit
  PROVE  TellInv
<1>1. s = Fresh /\ sent = Unseen /\ heard = <<>> /\ error = Blank /\ phase = "items"
  BY DEF ResponsesInit
<1>2. StateType(Fresh) /\ IndexesTaken(Fresh) /\ Unseen \in Clients
  BY UnseenAgrees DEF Agrees
<1>3. heard \in Seq(Chunks)
  BY <1>1, EmptySeq
<1> QED
  BY <1>1, <1>2, <1>3, FreshSpells DEF TellInv, Errors

(* A step that leaves the converter and the events alone.                    *)
LEMMA TellKept ==
  ASSUME TellInv, UNCHANGED <<s, sent, heard, streaming>>, error' \in Errors,
         phase' # "finish", phase' = "over" /\ streaming => sent.status \notin Finals
  PROVE  TellInv'
BY DEF TellInv, Matches

LEMMA BufferedClient ==
  ASSUME TellInv, AnswerBuffered
  PROVE  heard' \in Seq(Chunks) /\ sent' \in Clients /\ error' \in Errors
<1>1. \/ \E chunk \in Chunks :
            /\ heard' = <<chunk>>
            /\ sent' = LET c == Completion(<<chunk>>)
                       IN  [status |-> StatusOf(c.finish), items |-> <<>>,
                            output |-> Numbered(Buffered(c))]
            /\ UNCHANGED error
      \/ error' = "read" /\ UNCHANGED <<heard, sent>>
  BY Zenon DEF AnswerBuffered, delivery
<1>2. heard \in Seq(Chunks) /\ error \in Errors /\ sent \in Clients
  BY DEF TellInv
<1>3. CASE error' = "read" /\ UNCHANGED <<heard, sent>>
  BY <1>2, <1>3 DEF Errors
<1>4. ASSUME NEW chunk \in Chunks,
             heard' = <<chunk>>, UNCHANGED error,
             sent' = LET c == Completion(<<chunk>>)
                     IN  [status |-> StatusOf(c.finish), items |-> <<>>,
                          output |-> Numbered(Buffered(c))]
      PROVE  heard' \in Seq(Chunks) /\ sent' \in Clients /\ error' \in Errors
  <2> DEFINE c == Completion(<<chunk>>)
             st == StatusOf(c.finish)
             out == Numbered(Buffered(c))
  <2>1. out \in Seq(Items)
    BY BufferedTyped
  <2>2. st \in Statuses
    BY DEF StatusOf, Statuses
  <2>3. sent' = [status |-> st, items |-> <<>>, output |-> out]
    BY <1>4
  <2> HIDE DEF st, out
  <2>4. <<>> \in [0 .. 0 - 1 -> Items]
    <3>1. 0 .. 0 - 1 = {}
      OBVIOUS
    <3>2. <<>> \in [{} -> Items]
      OBVIOUS
    <3> QED
      BY <3>1, <3>2
  <2>5. [status |-> st, items |-> <<>>, output |-> out] \in Clients
    BY <2>1, <2>2, <2>4, ClientMade
  <2>6. heard' \in Seq(Chunks)
    BY <1>4
  <2> QED
    BY <1>2, <1>4, <2>3, <2>5, <2>6
<1> QED
  BY <1>1, <1>3, <1>4

LEMMA TellStep ==
  ASSUME StreamInv, StreamInv', TellInv, [ResponsesNext]_responsesVars
  PROVE  TellInv'
<1>1. CASE Convert
  <2>1. phase' \in {"items", "post", "refused"} /\ UNCHANGED <<s, sent, heard, streaming, error>>
    BY <1>1 DEF Convert, AddItem, EndItems, streamVars, delivery
  <2>2. error' \in Errors
    BY <2>1 DEF TellInv
  <2> QED
    BY <2>1, <2>2, TellKept
<1>2. CASE Post
  <2>1. phase' = "read" /\ UNCHANGED <<s, sent, heard, streaming, error>>
    BY <1>2 DEF Post, streamVars, delivery
  <2>2. error' \in Errors
    BY <2>1 DEF TellInv
  <2> QED
    BY <2>1, <2>2, TellKept
<1>3. CASE ReadChunk
  <2>1. PICK chunk \in Chunks : s' = Consume(chunk).s /\ heard' = Append(heard, chunk)
    BY <1>3 DEF ReadChunk
  <2>2. /\ phase = "read" /\ pending = <<>> /\ streaming /\ UNCHANGED <<phase, sent, streaming, error>>
    BY <1>3 DEF ReadChunk, Reading, delivery
  <2>3. PICK b : Script(sent, <<>>, b) /\ Agrees(b, s)
    BY <2>2 DEF StreamInv, Towards
  <2>4. sent = b
    BY <2>3, NothingToReplay
  <2>5. heard \in Seq(Chunks) /\ Spells(s, heard) /\ error \in Errors /\ sent \in Clients
    BY <2>2 DEF TellInv
  <2>6. Spells(s', heard')
    BY <2>1, <2>3, <2>5, ConsumeSpells
  <2>7. StateType(s') /\ IndexesTaken(s')
    BY <2>1, <2>3, ConsumeGood DEF Good, Agrees
  <2>8. heard' \in Seq(Chunks)
    BY <2>1, <2>5, AppendProperties
  <2> QED
    BY <2>2, <2>5, <2>6, <2>7, <2>8 DEF TellInv
<1>4. CASE EndOfStream
  <2>1. /\ phase = "read" /\ pending = <<>> /\ streaming /\ UNCHANGED <<s, sent, heard, streaming>>
        /\ error = Blank
    BY <1>4 DEF EndOfStream, Reading, StreamInv, delivery
  <2>2. PICK b : Script(sent, <<>>, b) /\ Agrees(b, s)
    BY <2>1 DEF StreamInv, Towards
  <2>3. sent = b
    BY <2>2, NothingToReplay
  <2>4. CASE s.started
    <3>1. pending' = FinishStream /\ phase' = "finish" /\ error' = error
      BY <1>4, <2>4 DEF EndOfStream
    <3>2. PICK d : /\ Script(sent, FinishStream, d)
                   /\ d.status = StatusOf(s.finish) /\ d.output = FinalOutput(Outputs)
      BY <2>2, <2>3, <2>4, FinishLegal
    <3>3. heard \in Seq(Chunks) /\ Spells(s, heard)
      BY <2>1 DEF TellInv
    <3>4. Matches(d)
      BY <2>2, <2>4, <3>2, <3>3, FinishMatches
    <3>5. Matches(d)'
      BY <2>1, <3>4 DEF Matches
    <3>6. Towards(d)'
      BY <2>1, <3>1, <3>2 DEF Towards
    <3>7. phase' # "over"
      BY <3>1
    <3> QED
      BY <2>1, <3>1, <3>5, <3>6, <3>7 DEF TellInv
  <2>5. CASE ~s.started
    <3>1. phase' = "over" /\ error' = "no_chunk"
      BY <1>4, <2>5 DEF EndOfStream
    <3>2. sent.status \notin Finals
      BY <2>2, <2>3 DEF Agrees, Finals
    <3>3. error' \in Errors
      BY <3>1 DEF Errors
    <3> QED
      BY <2>1, <3>1, <3>2, <3>3, TellKept
  <2> QED
    BY <2>4, <2>5
<1>5. CASE BreakStream
  <2>1. /\ streaming /\ UNCHANGED <<s, sent, heard, streaming>> /\ phase' = "over" /\ error' = "read"
    BY <1>5 DEF BreakStream, Reading, delivery
  <2>2. sent.status \notin Finals
    BY <2>1, BlankIsNoError DEF StreamInv
  <2>3. error' \in Errors
    BY <2>1 DEF Errors
  <2> QED
    BY <2>1, <2>2, <2>3, TellKept
<1>6. CASE Write
  <2>1. /\ pending # <<>> /\ sent' = Replay(sent, Head(pending)) /\ pending' = Tail(pending)
        /\ phase' = (IF phase = "finish" /\ Len(pending) = 1 THEN "over" ELSE phase)
        /\ UNCHANGED <<s, heard, streaming, error>>
    BY <1>6 DEF Write
  <2>2. streaming /\ phase \in {"read", "finish"}
    BY <2>1 DEF StreamInv, Early
  <2>3. ASSUME NEW b, Towards(b) PROVE sent' \in Clients /\ Script(sent', pending', b)
    <3>1. Script(sent, pending, b)
      BY <2>3 DEF Towards
    <3>2. Legal(sent, Head(pending), sent') /\ Script(sent', pending', b)
      BY <2>1, <3>1, FirstEvent
    <3> QED
      BY <3>2 DEF Legal
  <2>4. CASE phase = "read"
    <3>1. PICK b : Towards(b)
      BY <2>2, <2>4 DEF StreamInv
    <3>2. sent' \in Clients
      BY <2>3, <3>1
    <3>3. phase' = "read"
      BY <2>1, <2>4
    <3> QED
      BY <2>1, <3>2, <3>3 DEF TellInv
  <2>5. CASE phase = "finish"
    <3>1. PICK b : Towards(b) /\ Matches(b)
      BY <2>5 DEF TellInv
    <3>2. sent' \in Clients /\ Script(sent', pending', b)
      BY <2>3, <3>1
    <3>3. Matches(b)'
      BY <2>1, <3>1 DEF Matches
    <3>4. CASE phase' = "over"
      <4>1. pending' = <<>>
        BY <3>4 DEF StreamInv
      <4>2. sent' = b
        BY <3>2, <4>1, NothingToReplay
      <4>3. Matches(sent)'
        BY <2>1, <3>1, <4>2 DEF Matches
      <4> QED
        BY <2>1, <3>2, <3>4, <4>3 DEF TellInv
    <3>5. CASE phase' = "finish"
      <4>1. Towards(b)'
        BY <3>2 DEF Towards
      <4>2. (\E d : Towards(d) /\ Matches(d))'
        BY <3>3, <4>1
      <4> QED
        BY <2>1, <3>2, <3>5, <4>2 DEF TellInv
    <3> QED
      BY <2>1, <2>5, <3>4, <3>5
  <2> QED
    BY <2>2, <2>4, <2>5
<1>7. CASE WriteFails
  <2>1. /\ error' = "write" /\ phase' = "over" /\ UNCHANGED <<s, sent, heard, streaming>>
    BY <1>7 DEF WriteFails, delivery
  <2>2. streaming => sent.status \notin Finals
    BY <2>1, BlankIsNoError DEF StreamInv
  <2>3. error' \in Errors
    BY <2>1 DEF Errors
  <2> QED
    BY <2>1, <2>2, <2>3, TellKept
<1>8. CASE AnswerBuffered
  <2>1. ~streaming /\ phase' = "over" /\ UNCHANGED <<s, streaming>>
    BY <1>8 DEF AnswerBuffered, Reading
  <2>2. heard' \in Seq(Chunks) /\ sent' \in Clients /\ error' \in Errors
    BY <1>8, BufferedClient
  <2> QED
    BY <2>1, <2>2 DEF TellInv
<1>9. CASE UNCHANGED responsesVars
  BY <1>9 DEF responsesVars, TellInv, Towards, Matches
<1> QED
  BY <1>1, <1>2, <1>3, <1>4, <1>5, <1>6, <1>7, <1>8, <1>9 DEF ResponsesNext

LEMMA TellHolds == ResponsesSpec => [](StreamInv /\ TellInv)
<1>1. ResponsesInit => TellInv
  BY TellStart
<1>2. StreamInv /\ StreamInv' /\ TellInv /\ [ResponsesNext]_responsesVars => TellInv'
  BY TellStep
<1> QED
  BY <1>1, <1>2, StreamHolds, PTL DEF ResponsesSpec

(* A client that saw the end of a stream saw what the stream told it.        *)
LEMMA EndTold ==
  ASSUME StreamInv, DeliverInv, TellInv
  PROVE  SameAsBuffered
<1> SUFFICES ASSUME streaming, client.status \in Finals PROVE Matches(client)
  BY DEF SameAsBuffered, Matches
<1>0. client = sent /\ sent.status \in Finals
  BY DEF DeliverInv
<1>1. phase \notin {"items", "post", "refused"}
  BY <1>0 DEF StreamInv, Early, Unseen, Finals
<1>2. pending = <<>>
  <2> SUFFICES ASSUME pending # <<>> PROVE FALSE
    OBVIOUS
  <2>1. PICK b : Script(sent, pending, b)
    BY <1>1 DEF StreamInv, Towards
  <2> QED
    BY <1>0, <2>1, FirstEvent, NotEnded
<1>3. phase # "read"
  <2> SUFFICES ASSUME phase = "read" PROVE FALSE
    OBVIOUS
  <2>1. PICK b : Script(sent, <<>>, b) /\ Agrees(b, s)
    BY <1>2 DEF StreamInv, Towards
  <2>2. sent = b
    BY <2>1, NothingToReplay
  <2> QED
    BY <1>0, <2>1, <2>2 DEF Agrees, Finals
<1>4. phase = "over"
  BY <1>1, <1>2, <1>3 DEF StreamInv
<1> QED
  BY <1>0, <1>4 DEF TellInv

(* A stream that ends as a stream tells the client what the answer in one    *)
(* piece would have told it, for any chunks and any number of them           *)
(* (responses_compat.go:360-396 and 548-722).                                *)
THEOREM StreamTellsAll == ResponsesSpec => []SameAsBuffered
<1>1. StreamInv /\ DeliverInv /\ TellInv => SameAsBuffered
  BY EndTold
<1> QED
  BY <1>1, DeliverHolds, TellHolds, PTL

LEMMA IndexesCounted ==
  ASSUME StateType(s), IndexesTaken(s)
  PROVE  {s.tools[i].index : i \in DOMAIN s.tools}
           \cup (IF s.message = None THEN {} ELSE {s.message.index}) = 0 .. s.count - 1
BY DEF IndexesTaken

(* What arrives was written, or is what had arrived before.                  *)
ClientInv == client \in Clients

LEMMA ClientTyped == ResponsesSpec => []ClientInv
<1>1. ResponsesInit => ClientInv
  BY UnseenAgrees DEF ResponsesInit, ClientInv
<1>2. ASSUME [ResponsesNext]_responsesVars PROVE client' = client \/ client' = sent'
  BY <1>2 DEF ResponsesNext, Convert, streamVars, delivery, Post, ReadChunk, EndOfStream, BreakStream, Write,
       WriteFails, AnswerBuffered, Deliver, responsesVars
<1>3. ASSUME ClientInv, [ResponsesNext]_responsesVars, TellInv' PROVE ClientInv'
  <2>1. client' = client \/ client' = sent'
    BY <1>2, <1>3
  <2>2. sent' \in Clients'
    BY <1>3 DEF TellInv
  <2>3. Clients' = Clients
    BY DEF Clients, Statuses
  <2> QED
    BY <1>3, <2>1, <2>2, <2>3 DEF ClientInv
<1> QED
  BY <1>1, <1>3, TellHolds, PTL DEF ResponsesSpec

(* The type invariant of the layer, for any request and any chunks: the      *)
(* messages have roles that the chat API knows, the outputs of a stream take *)
(* consecutive indexes, and what the client is told is well-formed           *)
(* (responses_compat.go:176-239 and 548-722).                                *)
THEOREM ResponsesTyped == ResponsesSpec => []ResponsesTypeOK
<1>1. ASSUME StreamInv, DeliverInv, TellInv, InputInv, ClientInv
      PROVE  ResponsesTypeOK
  <2>1. phase \in {"items", "post", "read", "finish", "over", "refused"} /\ streaming \in BOOLEAN
    BY <1>1 DEF StreamInv
  <2>2. /\ given \in Seq(InputItems \cup {InstructionItem(i) : i \in Instructions})
        /\ messages \in Seq(MessageType) /\ calls \in Seq(Nat)
    BY <1>1 DEF InputInv, GivenType
  <2>3. /\ heard \in Seq(Chunks) /\ error \in {Blank, "no_chunk", "read", "write"}
        /\ StateType(s) /\ IndexesTaken(s) /\ sent \in Clients
    BY <1>1 DEF TellInv, Errors
  <2>4. s.started \in BOOLEAN
    BY <2>3 DEF StateType
  <2>5. DOMAIN s.tools \subseteq Int
    BY <2>3 DEF StateType
  <2>6. pending # <<>> => phase \in {"read", "finish"}
    BY <1>1 DEF StreamInv, Early
  <2>7. \A seen \in Clients :
          /\ seen.status \in {"none", "created", "in_progress"} \cup Finals
          /\ \A i \in DOMAIN seen.items : seen.items[i] \in Items
          /\ seen.output \in Seq(Items)
    BY ClientShape DEF Statuses, Finals
  <2>8. /\ \A seen \in {sent, client} :
             /\ seen.status \in {"none", "created", "in_progress"} \cup Finals
             /\ \A i \in DOMAIN seen.items : seen.items[i] \in Items
             /\ seen.output \in Seq(Items)
        /\ cut \in BOOLEAN
    BY <1>1, <2>3, <2>7 DEF DeliverInv, ClientInv
  <2>9. {s.tools[i].index : i \in DOMAIN s.tools}
          \cup (IF s.message = None THEN {} ELSE {s.message.index}) = 0 .. s.count - 1
    BY <2>3, IndexesCounted
  <2> QED
    BY <2>1, <2>2, <2>3, <2>4, <2>5, <2>6, <2>8, <2>9, Zenon DEF ResponsesTypeOK
<1>2. ResponsesSpec => []InputInv
  BY InputStart, InputStep, PTL DEF ResponsesSpec
<1> QED
  BY <1>1, <1>2, DeliverHolds, TellHolds, ClientTyped, PTL
=============================================================================
