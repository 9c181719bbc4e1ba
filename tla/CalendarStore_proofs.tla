------------------------- MODULE CalendarStore_proofs -------------------------
(***************************************************************************)
(* Proofs about CalendarStore: the types, that committed lines have their  *)
(* files, that what was committed stays, that nobody overlaps with another *)
(* unasked, and that it implements Calendar.                               *)
(*                                                                         *)
(* All of them rest on what .index.tmp holds between the step that writes  *)
(* it and the rename: since the lock is held, it is still what the         *)
(* operation would write from the index as it is (JobOK), and that is the  *)
(* old lines of the other events and one line of its own (Amended).        *)
(***************************************************************************)
EXTENDS CalendarStore, SequenceTheorems, WellFoundedInduction, NaturalsInduction,
        TLAPS

-----------------------------------------------------------------------------
(* The inductive invariants.                                               *)

\* One process has the lock.
Lone == \A p, q \in holders : p = q

\* p has committed its event, and has yet to forget it.
Done(p) == At(p, "unlink") /\ Op(p) = "commit"

\* A handle is of an event of its own, which has no line unless it is booked.
HandleOK(p) ==
  handle[p] # None =>
    /\ handle[p].id \in used
    /\ handle[p].old \in used \cup {None}
    /\ handle[p].old # handle[p].id
    /\ \A q \in Procs : handle[q] # None /\ handle[q].id = handle[p].id => q = p
    /\ ~handle[p].booked /\ ~Done(p) => handle[p].id \notin Ids(index)

\* The steps of each operation.
AtOp(p) ==
  /\ At(p, "file") => Op(p) = "commit"
  /\ At(p, "broken") => Op(p) = "cleanup"
  /\ At(p, "unlink") => Op(p) \in {"commit", "delete", "destroy"}
  /\ At(p, "scan") => Op(p) = "cleanup"

\* What was written to .index.tmp is what would be written now.
JobOK(p) ==
  /\ AtOp(p)
  /\ job[p] # None =>
       /\ Op(p) # "cleanup" => job[p].id \in used
       /\ Saving(p) => /\ handle[p] # None /\ handle[p].id = job[p].id
                       /\ job[p].times \in Times
       /\ (At(p, "file") \/ At(p, "index")) /\ Op(p) # "cleanup" =>
            ~Refused(p) /\ job[p].newindex = Draft(p) /\ job[p].noted = Doomed(p)
       /\ At(p, "index") /\ Op(p) = "cleanup" => job[p].noted = Ids(job[p].newindex)
       /\ Op(p) = "cleanup" => ToSet(job[p].newindex) \subseteq ToSet(index)

TypeInv ==
  /\ TypeOK /\ Lone /\ Ids(index) \subseteq used
  /\ \A p \in Procs : HandleOK(p) /\ JobOK(p)

\* A booking is of its process until that has committed it.
BookingOK(p) ==
  handle[p] # None =>
    /\ handle[p].booked => \A r \in ToSet(index) : r.id = handle[p].id =>
                              r.booked /\ origin[r.id] = handle[p].old
    /\ ~Done(p) => handle[p].id \notin placed

\* What each rename and unlink finds done, or finds that nobody needs.
StepOK(p) ==
  /\ At(p, "index") /\ Op(p) = "commit" => job[p].id \in files
  /\ At(p, "index") /\ Op(p) = "cleanup" =>
       \A r \in ToSet(index) : r.booked \/ r.id \notin files \/ Expired(r)
                                  \/ r \in ToSet(job[p].newindex)
  /\ At(p, "unlink") => job[p].noted \cap (Ids(index) \cup placed) = {}
  /\ At(p, "scan") => job[p].noted = Ids(index)

-----------------------------------------------------------------------------
(* The recursive function that Select is defined by exists.                *)

\* Every set of numbers has a least element.
LEMMA LeastNumber ==
  ASSUME NEW T \in SUBSET Nat, T # {}
  PROVE  \E n \in T : \A k \in T : n <= k
<1>1. IsWellFoundedOn(OpToRel(<, Nat), Nat) BY NatLessThanWellFounded
<1>2. PICK n \in T : \A k \in T : ~ (<<k, n>> \in OpToRel(<, Nat))
      BY <1>1, WFMin
<1>3. \A k \in T : ~ (k < n) BY <1>2 DEF OpToRel
<1> QED BY <1>3

\* What is picked from a line and those before it.
Picks(lines, keep, h, n) ==
  IF n = 0 THEN <<>>
  ELSE IF lines[n] \in keep THEN Append(h[n - 1], lines[n])
  ELSE h[n - 1]

\* There is such a function.
LEMMA PicksExist ==
  ASSUME NEW S, NEW lines \in Seq(S), NEW keep
  PROVE  \E h \in [0..Len(lines) -> Seq(S)] :
           \A n \in 0..Len(lines) : h[n] = Picks(lines, keep, h, n)
<1> DEFINE N == Len(lines)
           Good(k) == \E h \in [0..N -> Seq(S)] : \A n \in 0..N :
                        n <= k => h[n] = Picks(lines, keep, h, n)
           Bad == {k \in Nat : ~ Good(k)}
<1>0. N \in Nat /\ \A n \in 1..N : lines[n] \in S OBVIOUS
<1> HIDE DEF N
<1>1. Good(0)
  <2> DEFINE z == [n \in 0..N |-> <<>>]
  <2>1. z \in [0..N -> Seq(S)] /\ \A n \in 0..N : z[n] = <<>> OBVIOUS
  <2> HIDE DEF z
  <2>2. \A n \in 0..N : n <= 0 => z[n] = Picks(lines, keep, z, n)
        BY <1>0, <2>1 DEF Picks
  <2> QED BY <2>1, <2>2
<1>2. ASSUME NEW k \in Nat, Good(k) PROVE Good(k + 1)
  <2>1. PICK h \in [0..N -> Seq(S)] : \A n \in 0..N :
               n <= k => h[n] = Picks(lines, keep, h, n)
        BY <1>2
  <2>2. ASSUME NEW n \in 0..N PROVE Picks(lines, keep, h, n) \in Seq(S)
    <3>1. CASE n = 0 BY <3>1 DEF Picks
    <3>2. CASE n # 0
      <4>1. n \in 1..N /\ n - 1 \in 0..N BY <1>0, <3>2
      <4>2. h[n - 1] \in Seq(S) /\ lines[n] \in S BY <1>0, <4>1
      <4> QED BY <3>2, <4>2 DEF Picks
    <3> QED BY <3>1, <3>2
  <2> DEFINE g == [n \in 0..N |-> IF n <= k THEN h[n] ELSE Picks(lines, keep, h, n)]
  <2>3. /\ g \in [0..N -> Seq(S)]
        /\ \A n \in 0..N : g[n] = IF n <= k THEN h[n] ELSE Picks(lines, keep, h, n)
        BY <2>2
  <2> HIDE DEF g
  <2>4. ASSUME NEW n \in 0..N, n <= k + 1 PROVE g[n] = Picks(lines, keep, g, n)
    <3>1. g[n] = Picks(lines, keep, h, n) BY <2>1, <2>3
    <3>2. CASE n = 0 BY <3>1, <3>2 DEF Picks
    <3>3. CASE n # 0
      <4>1. n - 1 \in 0..N /\ n - 1 <= k BY <1>0, <2>4, <3>3
      <4>2. g[n - 1] = h[n - 1] BY <2>3, <4>1
      <4> QED BY <3>1, <4>2 DEF Picks
    <3> QED BY <3>2, <3>3
  <2> QED BY <2>3, <2>4
<1>3. Bad = {}
  <2> SUFFICES ASSUME Bad # {} PROVE FALSE OBVIOUS
  <2>1. PICK n \in Bad : \A k \in Bad : n <= k BY LeastNumber
  <2>2. n \in Nat /\ n # 0 BY <1>1
  <2> HIDE DEF Good
  <2>3. n - 1 \in Nat /\ n - 1 \notin Bad
    <3>1. n - 1 \in Nat /\ ~ (n <= n - 1) BY <2>2
    <3> HIDE DEF Bad
    <3> QED BY <2>1, <3>1
  <2>4. Good(n - 1) BY <2>3
  <2>5. Good((n - 1) + 1) BY <1>2, <2>3, <2>4
  <2>6. (n - 1) + 1 = n OBVIOUS
  <2> QED BY <2>5, <2>6
<1>4. Good(N) BY <1>0, <1>3
<1>5. PICK h \in [0..N -> Seq(S)] : \A n \in 0..N :
             n <= N => h[n] = Picks(lines, keep, h, n)
      BY <1>4
<1>6. \A n \in 0..N : h[n] = Picks(lines, keep, h, n) BY <1>0, <1>5
<1> QED BY <1>6 DEF N

\* Select is the last value of such a function.
LEMMA SelectIs ==
  ASSUME NEW S, NEW lines \in Seq(S), NEW keep
  PROVE  \E h \in [0..Len(lines) -> Seq(S)] :
           /\ \A n \in 0..Len(lines) : h[n] = Picks(lines, keep, h, n)
           /\ Select(lines, keep) = h[Len(lines)]
<1> DEFINE Adds(h) == h = [n \in 0..Len(lines) |->
             IF n = 0 THEN <<>>
             ELSE IF lines[n] \in keep THEN Append(h[n - 1], lines[n])
             ELSE h[n - 1]]
           It == CHOOSE h : Adds(h)
<1>1. Select(lines, keep) = It[Len(lines)] BY DEF Select
<1>2. PICK h \in [0..Len(lines) -> Seq(S)] :
             \A n \in 0..Len(lines) : h[n] = Picks(lines, keep, h, n)
      BY PicksExist
<1>3. Adds(h)
  <2>1. h = [n \in 0..Len(lines) |-> h[n]] OBVIOUS
  <2> QED BY <1>2, <2>1 DEF Picks
<1>4. Adds(It)
  <2> HIDE DEF Adds
  <2> QED BY <1>3, Zenon
<1>5. \A n \in 0..Len(lines) : It[n] = Picks(lines, keep, It, n)
  <2> HIDE DEF It
  <2> QED BY <1>4 DEF Picks
<1>6. It \in [0..Len(lines) -> Seq(S)]
  <2> HIDE DEF It
  <2>0. Len(lines) \in Nat /\ \A n \in 1..Len(lines) : lines[n] \in S OBVIOUS
  <2> DEFINE Bad == {n \in 0..Len(lines) : It[n] \notin Seq(S)}
  <2>1. Bad = {}
    <3> SUFFICES ASSUME Bad # {} PROVE FALSE OBVIOUS
    <3>0. Bad \subseteq Nat BY <2>0
    <3>1. PICK n \in Bad : \A k \in Bad : n <= k
      <4> HIDE DEF Bad
      <4> QED BY <3>0, LeastNumber
    <3>2. n \in 0..Len(lines) /\ It[n] \notin Seq(S) OBVIOUS
    <3>3. It[n] = Picks(lines, keep, It, n) BY <1>5, <3>2
    <3>4. CASE n = 0
      <4>1. It[n] = <<>> BY <3>3, <3>4 DEF Picks
      <4>2. <<>> \in Seq(S) OBVIOUS
      <4> QED BY <3>2, <4>1, <4>2
    <3>5. CASE n # 0
      <4>1. n - 1 \in 0..Len(lines) /\ n \in 1..Len(lines) /\ ~ (n <= n - 1)
            BY <2>0, <3>2, <3>5
      <4>2. It[n - 1] \in Seq(S) /\ lines[n] \in S BY <2>0, <3>1, <4>1
      <4> HIDE DEF Bad
      <4>3. CASE lines[n] \in keep
        <5>1. It[n] = Append(It[n - 1], lines[n]) BY <3>3, <3>5, <4>3 DEF Picks
        <5>2. Append(It[n - 1], lines[n]) \in Seq(S) BY <4>2, AppendProperties
        <5> QED BY <3>2, <5>1, <5>2
      <4>4. CASE lines[n] \notin keep
        <5>1. It[n] = It[n - 1] BY <3>3, <3>5, <4>4 DEF Picks
        <5> QED BY <3>2, <4>2, <5>1
      <4> QED BY <4>3, <4>4
    <3> QED BY <3>4, <3>5
  <2>2. It = [n \in 0..Len(lines) |-> It[n]] BY <1>4
  <2> QED BY <2>1, <2>2
<1> QED BY <1>1, <1>5, <1>6

-----------------------------------------------------------------------------
(* Lines of an index.                                                      *)

\* The lines of an index, and what they are.
LEMMA IndexLines ==
  ASSUME NEW lines, IsIndex(lines)
  PROVE  /\ lines \in Seq(Lines) /\ Len(lines) \in Nat
         /\ DOMAIN lines = 1..Len(lines)
         /\ ToSet(lines) = {lines[i] : i \in 1..Len(lines)}
         /\ \A r \in ToSet(lines) : r \in Lines
         /\ Ids(lines) = {r.id : r \in ToSet(lines)}
         /\ \A r, o \in ToSet(lines) : r.id = o.id => r = o
<1>1. lines \in Seq(Lines) BY DEF IsIndex
<1>2. Len(lines) \in Nat /\ DOMAIN lines = 1..Len(lines) BY <1>1
<1>3. ToSet(lines) = {lines[i] : i \in 1..Len(lines)} BY <1>2 DEF ToSet
<1>4. \A i \in 1..Len(lines) : lines[i] \in Lines BY <1>1
<1>5. Ids(lines) = {r.id : r \in ToSet(lines)} BY <1>2, <1>3 DEF Ids
<1>6. \A r, o \in ToSet(lines) : r.id = o.id => r = o BY <1>2, <1>3 DEF IsIndex
<1> QED BY <1>1, <1>2, <1>3, <1>4, <1>5, <1>6

\* The line of an event is the only one with its id.
LEMMA LineIs ==
  ASSUME NEW lines, IsIndex(lines), NEW e, Has(lines, e)
  PROVE  /\ Line(lines, e) \in ToSet(lines) /\ Line(lines, e).id = e
         /\ Line(lines, e) \in Lines
         /\ \A r \in ToSet(lines) : r.id = e => r = Line(lines, e)
<1>1. PICK r \in ToSet(lines) : r.id = e BY IndexLines DEF Has
<1>2. Line(lines, e) \in ToSet(lines) /\ Line(lines, e).id = e BY <1>1 DEF Line
<1> QED BY <1>2, IndexLines

\* What Select takes from an index is an index.
LEMMA SelectIndex ==
  ASSUME NEW lines, IsIndex(lines), NEW keep
  PROVE  /\ IsIndex(Select(lines, keep))
         /\ ToSet(Select(lines, keep)) = ToSet(lines) \cap keep
<1>1. lines \in Seq(Lines) BY DEF IsIndex
<1> DEFINE N == Len(lines)
<1>2. N \in Nat /\ \A n \in 1..N : lines[n] \in Lines BY <1>1
<1>3. PICK h \in [0..N -> Seq(Lines)] :
             /\ \A n \in 0..N : h[n] = Picks(lines, keep, h, n)
             /\ Select(lines, keep) = h[N]
      BY <1>1, SelectIs
<1>4. \A i, j \in 1..N : lines[i].id = lines[j].id => i = j
      BY IndexLines DEF IsIndex
<1> DEFINE From(q, n) == \A i \in 1..Len(q) : \E k \in 1..n :
                            q[i] = lines[k] /\ lines[k] \in keep
           All(q, n) == \A k \in 1..n : lines[k] \in keep =>
                            \E i \in 1..Len(q) : q[i] = lines[k]
           Once(q) == \A i, j \in 1..Len(q) : q[i].id = q[j].id => i = j
           Good(n) == From(h[n], n) /\ All(h[n], n) /\ Once(h[n])
           Bad == {n \in 0..N : ~ Good(n)}
<1> HIDE DEF N
<1>5. ASSUME NEW n \in 0..N, n # 0, Good(n - 1) PROVE Good(n)
  <2>1. n - 1 \in 0..N /\ n \in 1..N BY <1>2, <1>5
  <2> DEFINE q == h[n - 1]
  <2>2. q \in Seq(Lines) /\ Len(q) \in Nat BY <2>1
  <2>3. h[n] = IF lines[n] \in keep THEN Append(q, lines[n]) ELSE q
        BY <1>3, <1>5 DEF Picks
  <2>4. CASE lines[n] \notin keep
    <3>1. h[n] = q BY <2>3, <2>4
    <3>2. From(q, n)
      <4>1. \A k \in 1..(n - 1) : k \in 1..n BY <2>1
      <4> QED BY <1>5, <4>1
    <3>3. All(q, n)
      <4>1. \A k \in 1..n : k \in 1..(n - 1) \/ k = n BY <2>1
      <4> QED BY <1>5, <2>4, <4>1
    <3>4. Once(q) BY <1>5
    <3> HIDE DEF q, From, All, Once
    <3> QED BY <3>1, <3>2, <3>3, <3>4
  <2>5. CASE lines[n] \in keep
    <3> DEFINE s == Append(q, lines[n])
    <3>0. h[n] = s BY <2>3, <2>5
    <3>1. /\ s \in Seq(Lines) /\ Len(s) = Len(q) + 1
          /\ \A i \in 1..Len(q) : s[i] = q[i]
          /\ s[Len(q) + 1] = lines[n]
          BY <1>2, <2>1, <2>2, AppendProperties
    <3>2. \A i \in 1..Len(s) : i \in 1..Len(q) \/ i = Len(q) + 1 BY <2>2, <3>1
    <3>3. 1..Len(q) \subseteq 1..Len(s) /\ Len(q) + 1 \in 1..Len(s)
          BY <2>2, <3>1
    <3>4. /\ \A k \in 1..(n - 1) : k \in 1..n /\ k \in 1..N /\ k # n
          /\ \A k \in 1..n : k \in 1..(n - 1) \/ k = n
          /\ n \in 1..n
          BY <1>2, <2>1
    <3>5. From(q, n - 1) /\ All(q, n - 1) /\ Once(q) BY <1>5
    <3> HIDE DEF s, q
    <3>6. From(s, n)
      <4> SUFFICES ASSUME NEW i \in 1..Len(s)
                   PROVE  \E k \in 1..n : s[i] = lines[k] /\ lines[k] \in keep
          OBVIOUS
      <4>1. CASE i \in 1..Len(q) BY <3>1, <3>4, <3>5, <4>1
      <4>2. CASE i = Len(q) + 1 BY <2>5, <3>1, <3>4, <4>2
      <4> QED BY <3>2, <4>1, <4>2
    <3>7. All(s, n)
      <4> SUFFICES ASSUME NEW k \in 1..n, lines[k] \in keep
                   PROVE  \E i \in 1..Len(s) : s[i] = lines[k]
          OBVIOUS
      <4>1. CASE k \in 1..(n - 1) BY <3>1, <3>3, <3>5, <4>1
      <4>2. CASE k = n BY <3>1, <3>3, <4>2
      <4> QED BY <3>4, <4>1, <4>2
    <3>8. Once(s)
      <4>1. ASSUME NEW i \in 1..Len(q) PROVE s[i].id # lines[n].id
        <5>1. PICK k \in 1..(n - 1) : q[i] = lines[k] BY <3>5
        <5>2. lines[k].id # lines[n].id BY <1>4, <2>1, <3>4
        <5> QED BY <3>1, <5>1, <5>2
      <4> SUFFICES ASSUME NEW i \in 1..Len(s), NEW j \in 1..Len(s),
                          s[i].id = s[j].id
                   PROVE  i = j
          OBVIOUS
      <4>2. CASE i \in 1..Len(q) /\ j \in 1..Len(q) BY <3>1, <3>5, <4>2
      <4> QED BY <3>1, <3>2, <4>1, <4>2
    <3> QED BY <3>0, <3>6, <3>7, <3>8
  <2> QED BY <2>4, <2>5
<1>6. Good(0)
  <2>1. 0 \in 0..N /\ h[0] = <<>> BY <1>2, <1>3 DEF Picks
  <2>2. Len(h[0]) = 0 BY <2>1
  <2> QED BY <2>2
<1>7. Bad = {}
  <2> SUFFICES ASSUME Bad # {} PROVE FALSE OBVIOUS
  <2>0. Bad \subseteq Nat BY <1>2
  <2>1. PICK n \in Bad : \A k \in Bad : n <= k
    <3> HIDE DEF Bad
    <3> QED BY <2>0, LeastNumber
  <2> HIDE DEF Good
  <2>2. n \in 0..N /\ ~ Good(n) OBVIOUS
  <2>3. n # 0 BY <1>6, <2>2
  <2>4. n - 1 \in 0..N /\ ~ (n <= n - 1) BY <1>2, <2>2, <2>3
  <2>5. Good(n - 1) BY <2>1, <2>4
  <2> QED BY <1>5, <2>2, <2>3, <2>5
<1>8. Good(N)
  <2>1. N \in 0..N BY <1>2
  <2> HIDE DEF Good
  <2> QED BY <1>7, <2>1
<1> DEFINE q == Select(lines, keep)
<1>9. q \in Seq(Lines)
  <2>1. N \in 0..N BY <1>2
  <2> QED BY <1>3, <2>1
<1>10. From(q, N) /\ All(q, N) /\ Once(q) BY <1>3, <1>8
<1> HIDE DEF q
<1>11. DOMAIN q = 1..Len(q) BY <1>9
<1>12. IsIndex(q) BY <1>9, <1>10, <1>11 DEF IsIndex
<1>13. ToSet(q) = ToSet(lines) \cap keep
  <2>1. /\ ToSet(q) = {q[i] : i \in 1..Len(q)}
        /\ ToSet(lines) = {lines[i] : i \in 1..N}
        BY <1>12, IndexLines DEF N
  <2> HIDE DEF N
  <2>2. ASSUME NEW r \in ToSet(q) PROVE r \in ToSet(lines) /\ r \in keep
    <3>1. PICK i \in 1..Len(q) : r = q[i] BY <2>1
    <3>2. PICK k \in 1..N : q[i] = lines[k] /\ lines[k] \in keep BY <1>10
    <3> QED BY <2>1, <3>1, <3>2
  <2>3. ASSUME NEW r \in ToSet(lines), r \in keep PROVE r \in ToSet(q)
    <3>1. PICK k \in 1..N : r = lines[k] BY <2>1
    <3>2. PICK i \in 1..Len(q) : q[i] = lines[k] BY <1>10, <2>3, <3>1
    <3> QED BY <2>1, <3>1, <3>2
  <2> QED BY <2>2, <2>3
<1> QED BY <1>12, <1>13 DEF q

\* Without leaves out the lines of some events, and no other.
LEMMA WithoutIndex ==
  ASSUME NEW lines, IsIndex(lines), NEW ids
  PROVE  /\ IsIndex(Without(lines, ids))
         /\ ToSet(Without(lines, ids)) = {r \in ToSet(lines) : r.id \notin ids}
<1> DEFINE keep == {r \in ToSet(lines) : r.id \notin ids}
<1>1. Without(lines, ids) = Select(lines, keep) BY DEF Without
<1>2. keep \subseteq ToSet(lines) OBVIOUS
<1>3. ToSet(lines) \cap keep = keep BY <1>2
<1> HIDE DEF keep
<1>4. IsIndex(Select(lines, keep)) /\ ToSet(Select(lines, keep)) = keep
      BY <1>3, SelectIndex
<1> QED BY <1>1, <1>4 DEF keep

\* A line may be put in place of that with its id, ...
LEMMA ReplacedIndex ==
  ASSUME NEW lines, IsIndex(lines), NEW r \in Lines
  PROVE  /\ IsIndex(Replaced(lines, r))
         /\ ToSet(Replaced(lines, r)) =
              {IF q.id = r.id THEN r ELSE q : q \in ToSet(lines)}
<1> DEFINE s == Replaced(lines, r)
           N == Len(lines)
<1>1. /\ lines \in Seq(Lines) /\ N \in Nat /\ DOMAIN lines = 1..N
      /\ ToSet(lines) = {lines[i] : i \in 1..N}
      /\ \A i \in 1..N : lines[i] \in Lines
      BY IndexLines
<1>2. s = [i \in 1..N |-> IF lines[i].id = r.id THEN r ELSE lines[i]]
      BY <1>1 DEF Replaced
<1> HIDE DEF N, s
<1>3. s \in [1..N -> Lines] BY <1>1, <1>2
<1>4. s \in Seq(Lines) /\ DOMAIN s = 1..N BY <1>1, <1>3, SeqDef
<1>5. \A i \in 1..N : s[i].id = lines[i].id BY <1>2
<1>6. IsIndex(s) BY <1>1, <1>4, <1>5 DEF IsIndex
<1>7. ToSet(s) = {s[i] : i \in 1..N} BY <1>4 DEF ToSet
<1>8. ToSet(s) = {IF q.id = r.id THEN r ELSE q : q \in ToSet(lines)}
      BY <1>1, <1>2, <1>7
<1> QED BY <1>6, <1>8 DEF s

\* ... and one of another event at the end.
LEMMA AppendIndex ==
  ASSUME NEW lines, IsIndex(lines), NEW r \in Lines, r.id \notin Ids(lines)
  PROVE  /\ IsIndex(Append(lines, r))
         /\ ToSet(Append(lines, r)) = ToSet(lines) \cup {r}
<1> DEFINE s == Append(lines, r)
           N == Len(lines)
<1>1. /\ lines \in Seq(Lines) /\ N \in Nat /\ DOMAIN lines = 1..N
      /\ ToSet(lines) = {lines[i] : i \in 1..N}
      /\ \A i, j \in 1..N : lines[i].id = lines[j].id => i = j
      BY IndexLines DEF IsIndex
<1>2. /\ s \in Seq(Lines) /\ Len(s) = N + 1 /\ DOMAIN s = 1..(N + 1)
      /\ \A i \in 1..N : s[i] = lines[i]
      /\ s[N + 1] = r
      BY <1>1, AppendProperties
<1>3. \A i \in 1..N : lines[i].id # r.id BY <1>1 DEF Ids
<1> HIDE DEF s, N
<1>4. \A i \in 1..(N + 1) : i \in 1..N \/ i = N + 1 BY <1>1
<1>5. 1..N \subseteq 1..(N + 1) /\ N + 1 \in 1..(N + 1) BY <1>1
<1>6. IsIndex(s) BY <1>1, <1>2, <1>3, <1>4 DEF IsIndex
<1>7. ToSet(s) = {s[i] : i \in 1..(N + 1)} BY <1>2 DEF ToSet
<1>8. ToSet(s) = ToSet(lines) \cup {r} BY <1>1, <1>2, <1>4, <1>5, <1>7
<1> QED BY <1>6, <1>8 DEF s

\* A part of an index is an index.
LEMMA PrefixIndex ==
  ASSUME NEW lines, IsIndex(lines), NEW n \in 0..Len(lines)
  PROVE  /\ IsIndex(SubSeq(lines, 1, n))
         /\ ToSet(SubSeq(lines, 1, n)) \subseteq ToSet(lines)
<1> DEFINE s == SubSeq(lines, 1, n)
           N == Len(lines)
<1>1. /\ lines \in Seq(Lines) /\ N \in Nat /\ DOMAIN lines = 1..N
      /\ ToSet(lines) = {lines[i] : i \in 1..N}
      /\ \A i, j \in 1..N : lines[i].id = lines[j].id => i = j
      /\ \A i \in 1..N : lines[i] \in Lines
      BY IndexLines DEF IsIndex
<1>2. n \in Nat /\ n <= N /\ 1..n \subseteq 1..N BY <1>1
<1>3. s = [i \in 1..n |-> lines[i]]
  <2>1. s = [i \in 1..(1 + n - 1) |-> lines[i + 1 - 1]]
        BY <1>1, <1>2, SubSeqProperties
  <2> QED BY <1>1, <1>2
<1> HIDE DEF s, N
<1>4. s \in Seq(Lines) /\ DOMAIN s = 1..n /\ \A i \in 1..n : s[i] = lines[i]
  <2>1. s \in [1..n -> Lines] BY <1>1, <1>2, <1>3
  <2> QED BY <1>2, <1>3, <2>1, SeqDef
<1>5. IsIndex(s) BY <1>1, <1>2, <1>4 DEF IsIndex
<1>6. ToSet(s) = {s[i] : i \in 1..n} BY <1>4 DEF ToSet
<1>7. ToSet(s) \subseteq ToSet(lines) BY <1>1, <1>2, <1>4, <1>6
<1> QED BY <1>5, <1>7 DEF s

-----------------------------------------------------------------------------
(* What an operation writes to .index.tmp.                                 *)

\* An operation at work on an event: its job and its handle.
LEMMA JobIs ==
  ASSUME TypeInv, NEW p \in Procs, job[p] # None
  PROVE  /\ job[p] \in Jobs
         /\ Op(p) # "cleanup" => job[p].id \in used /\ job[p].id \in Events
         /\ Saving(p) =>
              /\ handle[p] \in Handles /\ handle[p] # None
              /\ handle[p].id = job[p].id
              /\ handle[p].old # handle[p].id
              /\ job[p].times \in Times
              /\ ~handle[p].booked /\ job[p].step # "unlink" =>
                   handle[p].id \notin Ids(index)
<1>1. job[p] \in Jobs /\ JobOK(p) /\ HandleOK(p) /\ used \subseteq Events
      /\ handle[p] \in Handles \cup {None}
      BY DEF TypeInv, TypeOK
<1>2. Op(p) # "cleanup" => job[p].id \in used BY <1>1 DEF JobOK
<1>3. Saving(p) => /\ handle[p] # None /\ handle[p].id = job[p].id
                   /\ job[p].times \in Times
      BY <1>1 DEF JobOK
<1>4. job[p].step # "unlink" => ~Done(p) BY DEF Done, At
<1> QED BY <1>1, <1>2, <1>3, <1>4 DEF HandleOK

\* The line of an operation that saves an event.
LEMMA NewLineIs ==
  ASSUME TypeInv, NEW p \in Procs, job[p] # None, Saving(p)
  PROVE  /\ NewLine(p) \in Lines /\ NewLine(p).id = job[p].id
         /\ NewLine(p).times = job[p].times
         /\ NewLine(p).booked = Booking(p)
<1>1. /\ handle[p] \in Handles /\ handle[p].id = job[p].id
      /\ job[p].times \in Times
      BY JobIs
<1>2. IsIndex(index) BY DEF TypeInv, TypeOK
<1>3. handle[p].id \in Events BY <1>1 DEF Handles
<1>4. Booking(p) \in BOOLEAN BY DEF Booking
<1>5. (Has(index, handle[p].old) /\ Line(index, handle[p].old).cancelled) \in BOOLEAN
  <2>1. CASE Has(index, handle[p].old)
    <3>1. Line(index, handle[p].old) \in Lines BY <1>2, <2>1, LineIs
    <3> QED BY <2>1, <3>1 DEF Lines
  <2>2. CASE ~Has(index, handle[p].old) BY <2>2
  <2> QED BY <2>1, <2>2
<1> DEFINE c == Has(index, handle[p].old) /\ Line(index, handle[p].old).cancelled
<1>6. NewLine(p) = [id |-> handle[p].id, times |-> job[p].times,
                    booked |-> Booking(p), cancelled |-> c, pendel |-> None]
      BY DEF NewLine
<1>7. c \in BOOLEAN BY <1>5
<1> HIDE DEF c
<1> QED BY <1>1, <1>3, <1>4, <1>6, <1>7 DEF Lines

\* A line of the old index and one of the new that say the same.
Alike(q, r) ==
  /\ q.id = r.id /\ q.times = r.times
  /\ q.booked = r.booked /\ q.cancelled = r.cancelled

\* The line that a commit leaves for its event.
Final(p) ==
  IF Own(p) = {} THEN NewLine(p)
  ELSE [Line(index, handle[p].id) EXCEPT !.booked = FALSE]

\* The events whose lines an operation changes, and the line it writes.
Touched(p) ==
  {job[p].id} \cup (IF Op(p) = "commit" THEN {handle[p].old} ELSE {})

Written(p) ==
  CASE Op(p) = "book" -> {NewLine(p)}
    [] Op(p) = "commit" -> {Final(p)}
    [] Op(p) \in {"delete", "destroy"} -> {}
    [] OTHER -> {[Line(index, job[p].id) EXCEPT !.cancelled = (Op(p) = "cancel")]}

Amended(p, lines) ==
  /\ IsIndex(lines)
  /\ Written(p) \subseteq ToSet(lines)
  /\ \A r \in Written(p) : r \in Lines /\ r.id = job[p].id
  /\ \A r \in ToSet(lines) : r \in Written(p) \/
       \E q \in ToSet(index) : q.id \notin Touched(p) /\ Alike(q, r)
  /\ \A q \in ToSet(index) : q.id \notin Touched(p) =>
       \E r \in ToSet(lines) : Alike(q, r)

\* The line of an earlier booking is the only one that is in the way.
LEMMA OwnIs ==
  ASSUME TypeInv, NEW p \in Procs, job[p] # None, Saving(p),
         job[p].step # "unlink", ~Vanished(p)
  PROVE  /\ Own(p) = {} => ~Has(index, job[p].id)
         /\ Own(p) # {} => Has(index, job[p].id) /\ handle[p].booked
                             /\ Own(p) = {job[p].id}
         /\ \A r \in ToSet(index) : r.id \notin Own(p) <=> r.id # job[p].id
<1>1. /\ handle[p] \in Handles /\ handle[p].id = job[p].id
      /\ ~handle[p].booked => handle[p].id \notin Ids(index)
      BY JobIs
<1>2. IsIndex(index) BY DEF TypeInv, TypeOK
<1>3. \A r \in ToSet(index) : r.id \in Ids(index) BY <1>2, IndexLines
<1>4. handle[p].booked => Own(p) # {} BY DEF Vanished
<1>5. Own(p) # {} => Has(index, job[p].id) /\ handle[p].booked
                       /\ Own(p) = {job[p].id}
      BY <1>1 DEF Own
<1>6. Own(p) = {} => ~Has(index, job[p].id) BY <1>1, <1>4 DEF Has
<1>7. \A r \in ToSet(index) : r.id \notin Own(p) <=> r.id # job[p].id
      BY <1>3, <1>5, <1>6 DEF Has
<1> QED BY <1>5, <1>6, <1>7

\* Booking writes its own line, and marks that of the event to be replaced.
\* (docommitevent)
LEMMA BookedIs ==
  ASSUME TypeInv, NEW p \in Procs, job[p] # None, Op(p) = "book",
         job[p].step # "unlink", ~Vanished(p)
  PROVE  Amended(p, Booked(p))
<1> DEFINE e == job[p].id
           Mark(r) == IF r.id = handle[p].old /\ r.pendel = None
                      THEN [r EXCEPT !.pendel = handle[p].id] ELSE r
           others == Without(index, Own(p))
           marked == [i \in DOMAIN others |-> Mark(others[i])]
<1>0. Saving(p) BY DEF Saving
<1>1. IsIndex(index) BY DEF TypeInv, TypeOK
<1>2. handle[p] \in Handles /\ handle[p].id = e BY <1>0, JobIs
<1>3. /\ IsIndex(others)
      /\ ToSet(others) = {r \in ToSet(index) : r.id # e}
  <2>1. /\ IsIndex(others)
        /\ ToSet(others) = {r \in ToSet(index) : r.id \notin Own(p)}
        BY <1>1, WithoutIndex
  <2> HIDE DEF others
  <2> QED BY <1>0, <2>1, OwnIs
<1>4. \A r \in Lines : Mark(r) \in Lines /\ Alike(r, Mark(r))
  <2> SUFFICES ASSUME NEW r \in Lines PROVE Mark(r) \in Lines /\ Alike(r, Mark(r))
      OBVIOUS
  <2>1. handle[p].id \in Events BY <1>2 DEF Handles
  <2>2. [r EXCEPT !.pendel = handle[p].id] \in Lines
        /\ Alike(r, [r EXCEPT !.pendel = handle[p].id])
        BY <2>1 DEF Lines, Alike
  <2>3. Alike(r, r) BY DEF Alike
  <2> QED BY <2>2, <2>3
<1>5. Booked(p) = Append(marked, NewLine(p)) BY DEF Booked
<1> HIDE DEF Mark, others
<1> DEFINE N == Len(others)
<1>6. /\ others \in Seq(Lines) /\ N \in Nat /\ DOMAIN others = 1..N
      /\ ToSet(others) = {others[i] : i \in 1..N}
      /\ \A i \in 1..N : others[i] \in Lines
      /\ \A i, j \in 1..N : others[i].id = others[j].id => i = j
      BY <1>3, IndexLines DEF IsIndex
<1> HIDE DEF N, marked
<1>7. /\ marked \in Seq(Lines) /\ DOMAIN marked = 1..N
      /\ \A i \in 1..N : marked[i] = Mark(others[i]) /\ Alike(others[i], marked[i])
  <2>1. marked = [i \in 1..N |-> Mark(others[i])] BY <1>6 DEF marked
  <2>2. marked \in [1..N -> Lines] BY <1>4, <1>6, <2>1
  <2> QED BY <1>4, <1>6, <2>1, <2>2, SeqDef
<1>8. IsIndex(marked)
  <2>1. \A i \in 1..N : marked[i].id = others[i].id BY <1>7 DEF Alike
  <2> QED BY <1>6, <1>7, <2>1 DEF IsIndex
<1>9. ToSet(marked) = {marked[i] : i \in 1..N} BY <1>7 DEF ToSet
<1>10. \A r \in ToSet(marked) : \E q \in ToSet(others) : Alike(q, r)
       BY <1>6, <1>7, <1>9
<1>11. \A q \in ToSet(others) : \E r \in ToSet(marked) : Alike(q, r)
       BY <1>6, <1>7, <1>9
<1>12. NewLine(p) \in Lines /\ NewLine(p).id = e BY <1>0, NewLineIs
<1>13. e \notin Ids(marked)
  <2>1. Ids(marked) = {r.id : r \in ToSet(marked)} BY <1>8, IndexLines
  <2> QED BY <1>3, <1>10, <2>1 DEF Alike
<1>14. /\ IsIndex(Booked(p))
       /\ ToSet(Booked(p)) = ToSet(marked) \cup {NewLine(p)}
       BY <1>5, <1>8, <1>12, <1>13, AppendIndex
<1>15. Touched(p) = {e} /\ Written(p) = {NewLine(p)} BY DEF Touched, Written
<1> HIDE DEF e
<1> QED BY <1>3, <1>10, <1>11, <1>12, <1>14, <1>15 DEF Amended, e

\* Committing writes its own line, and drops that of the event it replaces.
\* (docommitevent)
LEMMA CommittedIs ==
  ASSUME TypeInv, NEW p \in Procs, job[p] # None, Op(p) = "commit",
         job[p].step # "unlink", ~Vanished(p)
  PROVE  Amended(p, Committed(p))
<1> DEFINE e == job[p].id
           old == handle[p].old
           others == Without(index, {old})
           own == [Line(index, e) EXCEPT !.booked = FALSE]
<1>0. Saving(p) BY DEF Saving
<1>1. IsIndex(index) BY DEF TypeInv, TypeOK
<1>2. handle[p] \in Handles /\ handle[p].id = e /\ old # e BY <1>0, JobIs
<1>3. IsIndex(others) /\ ToSet(others) = {r \in ToSet(index) : r.id \notin {old}}
      BY <1>1, WithoutIndex
<1>4. NewLine(p) \in Lines /\ NewLine(p).id = e BY <1>0, NewLineIs
<1>5. Touched(p) = {e, old} /\ Written(p) = {Final(p)} BY DEF Touched, Written
<1>6. Committed(p) = IF Own(p) = {} THEN Append(others, NewLine(p))
                     ELSE Replaced(others, own)
      BY <1>2 DEF Committed
<1>7. Final(p) = IF Own(p) = {} THEN NewLine(p) ELSE own BY <1>2 DEF Final
<1>8. \A q : Alike(q, q) BY DEF Alike
<1>9. CASE Own(p) = {}
  <2>1. e \notin Ids(index) BY <1>0, <1>9, OwnIs DEF Has
  <2>2. \A q \in ToSet(index) : q.id # e BY <1>1, <2>1, IndexLines
  <2> HIDE DEF others
  <2>3. Ids(others) = {r.id : r \in ToSet(others)} BY <1>3, IndexLines
  <2>4. e \notin Ids(others) BY <1>3, <2>2, <2>3
  <2> HIDE DEF e, old
  <2>5. /\ IsIndex(Committed(p))
        /\ ToSet(Committed(p)) = ToSet(others) \cup {NewLine(p)}
        BY <1>3, <1>4, <1>6, <1>9, <2>4, AppendIndex
  <2>6. Final(p) = NewLine(p) BY <1>7, <1>9
  <2> QED BY <1>3, <1>4, <1>5, <1>8, <2>2, <2>5, <2>6 DEF Amended, e
<1>10. CASE Own(p) # {}
  <2>1. Has(index, e) BY <1>0, <1>10, OwnIs
  <2>2. /\ Line(index, e) \in ToSet(index) /\ Line(index, e).id = e
        /\ Line(index, e) \in Lines
        BY <1>1, <2>1, LineIs
  <2>3. own \in Lines /\ own.id = e BY <2>2 DEF Lines
  <2>4. Line(index, e) \in ToSet(others) BY <1>2, <1>3, <2>2
  <2> HIDE DEF others, own, e, old
  <2>5. /\ IsIndex(Committed(p))
        /\ ToSet(Committed(p)) =
             {IF q.id = own.id THEN own ELSE q : q \in ToSet(others)}
        BY <1>3, <1>6, <1>10, <2>3, ReplacedIndex
  <2>6. Final(p) = own BY <1>7, <1>10
  <2>7. own \in ToSet(Committed(p)) BY <2>2, <2>3, <2>4, <2>5
  <2>8. \A r \in ToSet(Committed(p)) :
          r = own \/ \E q \in ToSet(index) : q.id \notin {e, old} /\ Alike(q, r)
        BY <1>3, <1>8, <2>3, <2>5
  <2>9. \A q \in ToSet(index) : q.id \notin {e, old} =>
          \E r \in ToSet(Committed(p)) : Alike(q, r)
        BY <1>3, <1>8, <2>3, <2>5
  <2> QED BY <1>5, <2>3, <2>5, <2>6, <2>7, <2>8, <2>9 DEF Amended, e
<1> QED BY <1>9, <1>10

\* What an operation writes to .index.tmp: its own line, and those of the
\* other events as they were.  (docommitevent, cancelevent, deleteevent)
LEMMA DraftIs ==
  ASSUME TypeInv, NEW p \in Procs, job[p] # None, Op(p) # "cleanup",
         job[p].step # "unlink", ~Refused(p)
  PROVE  Amended(p, Draft(p))
<1> DEFINE e == job[p].id
<1>1. IsIndex(index) BY DEF TypeInv, TypeOK
<1>2. \A q : Alike(q, q) BY DEF Alike
<1>3. Op(p) \in AllOps BY JobIs DEF Jobs, Op
<1>4. CASE Op(p) = "book"
  <2>1. ~Vanished(p) BY <1>4 DEF Refused, Saving
  <2> QED BY <1>4, <2>1, BookedIs DEF Draft
<1>5. CASE Op(p) = "commit"
  <2>1. ~Vanished(p) BY <1>5 DEF Refused, Saving
  <2> QED BY <1>5, <2>1, CommittedIs DEF Draft
<1>6. CASE Op(p) \in {"delete", "destroy"}
  <2>1. Draft(p) = Without(index, {e}) BY <1>6 DEF Draft
  <2>2. Touched(p) = {e} /\ Written(p) = {} BY <1>6 DEF Touched, Written
  <2>3. /\ IsIndex(Draft(p))
        /\ ToSet(Draft(p)) = {r \in ToSet(index) : r.id \notin {e}}
        BY <1>1, <2>1, WithoutIndex
  <2> QED BY <1>2, <2>2, <2>3 DEF Amended
<1>7. CASE Op(p) \in {"cancel", "uncancel"}
  <2> DEFINE new == [Line(index, e) EXCEPT !.cancelled = (Op(p) = "cancel")]
  <2>1. Has(index, e) BY <1>7 DEF Refused, Saving
  <2>2. Draft(p) = Replaced(index, new) BY <1>7, <2>1 DEF Draft
  <2>3. /\ Line(index, e) \in ToSet(index) /\ Line(index, e).id = e
        /\ Line(index, e) \in Lines
        BY <1>1, <2>1, LineIs
  <2>4. new \in Lines /\ new.id = e BY <2>3 DEF Lines
  <2>5. Touched(p) = {e} /\ Written(p) = {new} BY <1>7 DEF Touched, Written
  <2> HIDE DEF new, e
  <2>6. /\ IsIndex(Draft(p))
        /\ ToSet(Draft(p)) = {IF q.id = new.id THEN new ELSE q : q \in ToSet(index)}
        BY <1>1, <2>2, <2>4, ReplacedIndex
  <2>7. new \in ToSet(Draft(p)) BY <2>3, <2>4, <2>6
  <2>8. \A r \in ToSet(Draft(p)) :
          r = new \/ \E q \in ToSet(index) : q.id \notin {e} /\ Alike(q, r)
        BY <1>2, <2>4, <2>6
  <2>9. \A q \in ToSet(index) : q.id \notin {e} =>
          \E r \in ToSet(Draft(p)) : Alike(q, r)
        BY <1>2, <2>4, <2>6
  <2> QED BY <2>4, <2>5, <2>6, <2>7, <2>8, <2>9 DEF Amended, e
<1> QED BY <1>3, <1>4, <1>5, <1>6, <1>7 DEF AllOps

\* While the index, the arguments and the handle of an operation stay, so does
\* what it writes.
LEMMA SameDraft ==
  ASSUME NEW p \in Procs, index' = index,
         job'[p].op = job[p].op, job'[p].id = job[p].id,
         job'[p].times = job[p].times, job'[p].over = job[p].over,
         handle'[p].id = handle[p].id, handle'[p].old = handle[p].old,
         handle'[p].booked = handle[p].booked
  PROVE  /\ Refused(p)' = Refused(p)
         /\ Draft(p)' = Draft(p)
         /\ Doomed(p)' = Doomed(p)
<1>1. /\ Op(p)' = Op(p) /\ Saving(p)' = Saving(p) /\ Booking(p)' = Booking(p)
      /\ Looks(p)' = Looks(p)
      BY DEF Op, Saving, Booking, Looks
<1>2. \A i, e : Has(i, e)' = Has(i, e) /\ Line(i, e)' = Line(i, e)
      BY DEF Has, Line
<1>3. Own(p)' = Own(p) BY DEF Own
<1>4. Vanished(p)' = Vanished(p) BY <1>3 DEF Vanished
<1>5. Locked(p)' = Locked(p) BY <1>1 DEF Locked
<1>6. Conflicts(p)' = Conflicts(p) BY <1>1, <1>3 DEF Conflicts
<1>7. NewLine(p)' = NewLine(p) BY <1>1 DEF NewLine
<1>8. InTheWay(p)' = InTheWay(p) BY <1>1 DEF InTheWay
<1>9. Refused(p)' = Refused(p) BY <1>1, <1>4, <1>5, <1>6, <1>8 DEF Refused
<1>10. Booked(p)' = Booked(p) BY <1>3, <1>7 DEF Booked
<1>11. Committed(p)' = Committed(p) BY <1>3, <1>7 DEF Committed
<1>12. Draft(p)' = Draft(p) BY <1>1, <1>10, <1>11 DEF Draft
<1>13. Doomed(p)' = Doomed(p) BY <1>1 DEF Doomed
<1> QED BY <1>9, <1>12, <1>13

-----------------------------------------------------------------------------
(* Type correctness.                                                       *)

\* Whoever works has the lock, and nobody else works.
LEMMA Alone ==
  ASSUME TypeInv, NEW p \in Procs, job[p] # None
  PROVE  /\ holders = {p}
         /\ \A q \in Procs : q # p => job[q] = None
BY DEF TypeInv, TypeOK, Lone

\* A process that does nothing has nothing to keep.
LEMMA IdleIs ==
  ASSUME NEW p \in Procs, job'[p] = None
  PROVE  JobOK(p)' /\ ~Done(p)'
BY DEF JobOK, AtOp, At, Idle, Done

\* No new handle: what is known of them remains.
LEMMA HandlesSame ==
  ASSUME TypeInv, used \subseteq used',
         \A q \in Procs : handle'[q] # None =>
           /\ handle[q] # None
           /\ handle'[q].id = handle[q].id /\ handle'[q].old = handle[q].old
           /\ ~handle'[q].booked /\ ~Done(q)' => handle'[q].id \notin Ids(index')
  PROVE  \A q \in Procs : HandleOK(q)'
<1> SUFFICES ASSUME NEW q \in Procs, handle'[q] # None
             PROVE  /\ handle'[q].id \in used'
                    /\ handle'[q].old \in used' \cup {None}
                    /\ handle'[q].old # handle'[q].id
                    /\ \A o \in Procs : handle'[o] # None
                         /\ handle'[o].id = handle'[q].id => o = q
                    /\ ~handle'[q].booked /\ ~Done(q)' =>
                         handle'[q].id \notin Ids(index')
    BY DEF HandleOK, Ids
<1>1. HandleOK(q) /\ handle[q] # None BY DEF TypeInv
<1>2. \A o \in Procs : handle[o] # None /\ handle[o].id = handle[q].id => o = q
      BY <1>1 DEF HandleOK
<1>3. \A o \in Procs : handle'[o] # None /\ handle'[o].id = handle'[q].id => o = q
      BY <1>2
<1>4. /\ handle[q].id \in used /\ handle[q].old \in used \cup {None}
      /\ handle[q].old # handle[q].id
      BY <1>1 DEF HandleOK
<1> QED BY <1>3, <1>4

\* The same, when the index stays too and nobody gives up a booking.
LEMMA HandlesStay ==
  ASSUME TypeInv, used \subseteq used', index' = index,
         \A q \in Procs : handle'[q] # None =>
           /\ handle[q] # None
           /\ handle'[q].id = handle[q].id /\ handle'[q].old = handle[q].old
           /\ handle'[q].booked = handle[q].booked
           /\ ~Done(q)' => ~Done(q)
  PROVE  \A q \in Procs : HandleOK(q)'
<1>1. \A q \in Procs : handle[q] # None /\ ~handle[q].booked /\ ~Done(q) =>
                         handle[q].id \notin Ids(index)
      BY DEF TypeInv, HandleOK
<1>2. Ids(index') = Ids(index) OBVIOUS
<1>3. \A q \in Procs : handle'[q] # None =>
           /\ handle[q] # None
           /\ handle'[q].id = handle[q].id /\ handle'[q].old = handle[q].old
           /\ ~handle'[q].booked /\ ~Done(q)' => handle'[q].id \notin Ids(index')
      BY <1>1, <1>2
<1> QED BY <1>3, HandlesSame

\* After release_dotlock nobody works.
LEMMA FinishIs ==
  ASSUME TypeInv, NEW p \in Procs, job[p] # None, Finish(p)
  PROVE  /\ holders' = {} /\ Lone'
         /\ job' \in [Procs -> Jobs \cup {None}]
         /\ \A q \in Procs : job'[q] = None /\ JobOK(q)' /\ ~Done(q)'
         /\ holders' = {q \in Procs : job'[q] # None}
<1>1. holders' = {} /\ job' = [job EXCEPT ![p] = None] BY DEF Finish, Leave
<1>2. job \in [Procs -> Jobs \cup {None}] BY DEF TypeInv, TypeOK
<1>3. job' \in [Procs -> Jobs \cup {None}] /\ \A q \in Procs : job'[q] = None
      BY <1>1, <1>2, Alone
<1>4. \A q \in Procs : JobOK(q)' /\ ~Done(q)' BY <1>3, IdleIs
<1> QED BY <1>1, <1>3, <1>4 DEF Lone

\* One step of the operation of p.
LEMMA WorkIs ==
  ASSUME TypeInv, NEW p \in Procs, job[p] # None, holders' = holders,
         NEW j \in Jobs, j # None, IsIndex(j.newindex),
         job' = [job EXCEPT ![p] = j]
  PROVE  /\ Lone'
         /\ job' \in [Procs -> Jobs \cup {None}]
         /\ job'[p] = j
         /\ \A q \in Procs : job'[q] # None => IsIndex(job'[q].newindex)
         /\ \A q \in Procs \ {p} : job[q] = None /\ job'[q] = None
                                     /\ JobOK(q)' /\ ~Done(q)' /\ ~Done(q)
         /\ holders' = {q \in Procs : job'[q] # None}
<1>1. job \in [Procs -> Jobs \cup {None}] BY DEF TypeInv, TypeOK
<1>2. /\ job' \in [Procs -> Jobs \cup {None}] /\ job'[p] = j
      /\ \A q \in Procs \ {p} : job[q] = None /\ job'[q] = None
      BY <1>1, Alone
<1>3. \A q \in Procs \ {p} : JobOK(q)' /\ ~Done(q)' /\ ~Done(q)
      BY <1>2, IdleIs DEF Done, At, Idle
<1>4. Lone' BY Alone DEF Lone
<1>5. holders' = {q \in Procs : job'[q] # None} BY <1>2, Alone
<1> QED BY <1>2, <1>3, <1>4, <1>5

\* An operation has got the lock, and nothing else has happened.
Started(p, op, e, times) ==
  /\ Lone'
  /\ job' \in [Procs -> Jobs \cup {None}]
  /\ holders' = {q \in Procs : job'[q] # None}
  /\ job'[p] # None
  /\ job'[p].op = op /\ job'[p].id = e /\ job'[p].times = times
  /\ job'[p].step = "rewrite" /\ ToSet(job'[p].newindex) = {}
  /\ IsIndex(job'[p].newindex)
  /\ \A q \in Procs \ {p} : job'[q] = None /\ JobOK(q)'
  /\ \A q \in Procs : ~Done(q) /\ ~Done(q)'
  /\ ops' \in 0..MaxOps
  /\ UNCHANGED <<index, files, past, origin, placed, overridden, missed, whole>>

\* That is what Start does.
LEMMA StartIs ==
  ASSUME TypeInv, NEW p \in Procs, NEW op, NEW e \in Events \cup {None},
         NEW times \in SUBSET Slots, NEW over \in BOOLEAN,
         Start(p, op, e, times, over)
  PROVE  Started(p, op, e, times)
<1> DEFINE j == [op |-> op, id |-> e, times |-> times, over |-> over,
                 step |-> "rewrite", newindex |-> <<>>, noted |-> {}]
<1>1. /\ op \in Ops /\ holders = {} /\ holders' = {p}
      /\ job' = [job EXCEPT ![p] = j]
      /\ ops < MaxOps /\ ops' = ops + 1
      BY DEF Start, Take
<1>2. j \in Jobs
  <2>1. <<>> \in Seq(Lines) OBVIOUS
  <2>2. op \in AllOps BY <1>1, OpsAssumption
  <2> QED BY <2>1, <2>2 DEF Jobs, Steps
<1>3. job \in [Procs -> Jobs \cup {None}] /\ ops \in 0..MaxOps
      /\ \A q \in Procs : job[q] = None
      BY <1>1 DEF TypeInv, TypeOK
<1>4. /\ j.op = op /\ j.id = e /\ j.times = times /\ j.step = "rewrite"
      /\ j.newindex = <<>>
      OBVIOUS
<1> HIDE DEF j
<1>5. job' \in [Procs -> Jobs \cup {None}] /\ job'[p] = j
      /\ \A q \in Procs \ {p} : job'[q] = None
      BY <1>1, <1>2, <1>3
<1>6. j # None BY <1>2, NoneAssumption
<1>7. holders' = {q \in Procs : job'[q] # None} BY <1>1, <1>5, <1>6
<1>8. Lone' BY <1>1 DEF Lone
<1>9. \A q \in Procs \ {p} : JobOK(q)' BY <1>5, IdleIs
<1>10. \A q \in Procs : ~Done(q) BY <1>3 DEF Done, At, Idle
<1>11. \A q \in Procs : ~Done(q)'
  <2>1. ~Done(p)' BY <1>4, <1>5 DEF Done, At
  <2> QED BY <1>5, <2>1 DEF Done, At, Idle
<1>12. ToSet(j.newindex) = {} /\ IsIndex(j.newindex)
  <2>1. <<>> \in Seq(Lines) /\ DOMAIN <<>> = {} OBVIOUS
  <2> QED BY <1>4, <2>1 DEF IsIndex, ToSet
<1>13. ops' \in 0..MaxOps BY <1>1, <1>3, BoundsAssumption
<1>14. UNCHANGED <<index, files, past, origin, placed, overridden, missed, whole>>
       BY DEF Start, store
<1> QED BY <1>4, <1>5, <1>6, <1>7, <1>8, <1>9, <1>10, <1>11, <1>12, <1>13, <1>14
    DEF Started

\* The empty calendar is of its type.
LEMMA TypeInit == Init => TypeInv
<1> SUFFICES ASSUME Init PROVE TypeInv OBVIOUS
<1>1. IsIndex(index) /\ Ids(index) = {}
  <2>1. index = <<>> /\ <<>> \in Seq(Lines) /\ DOMAIN <<>> = {} BY DEF Init
  <2> QED BY <2>1 DEF IsIndex, Ids
<1>2. TypeOK BY <1>1, BoundsAssumption DEF Init, MutexInit, TypeOK
<1>3. \A p \in Procs : HandleOK(p) /\ JobOK(p)
      BY DEF Init, HandleOK, JobOK, AtOp, At, Idle
<1> QED BY <1>1, <1>2, <1>3 DEF TypeInv, Lone, Init, MutexInit

\* What an operation that begins has to keep.
LEMMA JobBegins ==
  ASSUME NEW p \in Procs, job'[p] # None, job'[p].step = "rewrite",
         ToSet(job'[p].newindex) = {},
         job'[p].op # "cleanup" => job'[p].id \in used',
         job'[p].op \in {"book", "commit"} =>
           handle'[p] # None /\ handle'[p].id = job'[p].id /\ job'[p].times \in Times
  PROVE  JobOK(p)'
BY DEF JobOK, AtOp, At, Idle, Op, Saving

\* A new handle has an id that no line and no other handle has.
LEMMA StartNewType ==
  ASSUME TypeInv, NEW p \in Procs, StartNew(p)
  PROVE  TypeInv'
<1>1. PICK e \in Events \ used, old \in used \cup {None},
           op \in {"book", "commit"}, times \in Times, over \in BOOLEAN :
             /\ Start(p, op, e, times, over)
             /\ handle' = [handle EXCEPT ![p] =
                  [id |-> e, old |-> old, booked |-> FALSE, saved |-> FALSE]]
             /\ used' = used \cup {e}
      BY DEF StartNew, Save
<1> DEFINE h == [id |-> e, old |-> old, booked |-> FALSE, saved |-> FALSE]
<1>2. times \in SUBSET Slots BY TimesAssumption DEF Slots
<1>3. TypeOK /\ used \subseteq Events BY DEF TypeInv, TypeOK
<1>4. h \in Handles /\ h # None
  <2>1. old \in Events \cup {None} BY <1>3
  <2>2. h \in Handles BY <2>1 DEF Handles
  <2> HIDE DEF h
  <2> QED BY <2>2, NoneAssumption
<1>5. /\ h.id = e /\ h.old = old /\ h.booked = FALSE
      /\ handle' = [handle EXCEPT ![p] = h]
      BY <1>1
<1> HIDE DEF h
<1>6. Started(p, op, e, times)
  <2>1. e \in Events \cup {None} OBVIOUS
  <2> QED BY <1>1, <1>2, <2>1, StartIs
<1>7. handle' \in [Procs -> Handles \cup {None}] /\ handle'[p] = h
      /\ \A q \in Procs \ {p} : handle'[q] = handle[q]
      BY <1>3, <1>4, <1>5 DEF TypeOK
<1>8. TypeOK' BY <1>1, <1>3, <1>6, <1>7 DEF Started, TypeOK, IsIndex
<1>9. JobOK(p)' BY <1>1, <1>4, <1>5, <1>6, <1>7, JobBegins DEF Started
<1>10. Ids(index') = Ids(index) /\ Ids(index) \subseteq used
       BY <1>6 DEF TypeInv, Started
<1>11. \A q \in Procs : handle[q] # None =>
         /\ handle[q].id \in used /\ handle[q].old \in used \cup {None}
         /\ handle[q].old # handle[q].id
         /\ ~handle[q].booked => handle[q].id \notin Ids(index)
         /\ \A o \in Procs : handle[o] # None /\ handle[o].id = handle[q].id => o = q
       BY <1>6 DEF TypeInv, HandleOK, Started
<1>12. old # e BY <1>1, EventsAssumption
<1>13. ASSUME NEW q \in Procs PROVE HandleOK(q)'
  <2>1. CASE q = p
    <3>1. \A o \in Procs : handle'[o] # None /\ handle'[o].id = e => o = p
          BY <1>1, <1>7, <1>11
    <3>2. e \notin Ids(index') BY <1>1, <1>10
    <3>3. e \in used' /\ old \in used' \cup {None} BY <1>1
    <3> QED BY <1>5, <1>7, <1>12, <2>1, <3>1, <3>2, <3>3 DEF HandleOK
  <2>2. CASE q # p
    <3>1. handle'[q] = handle[q] BY <1>7, <2>2
    <3>2. ASSUME handle[q] # None, NEW o \in Procs,
                 handle'[o] # None, handle'[o].id = handle[q].id
          PROVE  o = q
      <4>1. CASE o = p BY <1>1, <1>5, <1>7, <1>11, <3>2, <4>1
      <4>2. CASE o # p BY <1>7, <1>11, <3>2, <4>2
      <4> QED BY <4>1, <4>2
    <3>3. handle[q] # None =>
            /\ handle[q].id \in used' /\ handle[q].old \in used' \cup {None}
            /\ handle[q].old # handle[q].id
            /\ ~handle[q].booked => handle[q].id \notin Ids(index')
          BY <1>1, <1>10, <1>11
    <3> QED BY <3>1, <3>2, <3>3 DEF HandleOK
  <2> QED BY <2>1, <2>2
<1>14. Ids(index') \subseteq used' BY <1>1, <1>10
<1> QED BY <1>6, <1>8, <1>9, <1>13, <1>14 DEF TypeInv, Ids, Started

\* The other operations begin with what there is.
LEMMA StartSameType ==
  ASSUME TypeInv, NEW p \in Procs,
         StartSave(p) \/ StartChange(p) \/ StartCleanup(p) \/ StartDestroy(p)
  PROVE  TypeInv'
<1>1. PICK op \in AllOps, e \in Events \cup {None}, times \in SUBSET Slots,
           over \in BOOLEAN :
        /\ Start(p, op, e, times, over)
        /\ op # "cleanup" => e \in used
        /\ op \in {"book", "commit"} =>
             handle[p] # None /\ handle[p].id = e /\ times \in Times
  <2>1. TypeOK /\ HandleOK(p) BY DEF TypeInv
  <2>2. handle[p] # None => handle[p].id \in used BY <2>1 DEF HandleOK
  <2>3. used \subseteq Events BY <2>1 DEF TypeOK
  <2>4. CASE StartSave(p)
    <3>1. PICK op \in {"book", "commit"}, times \in Times, over \in BOOLEAN :
             Start(p, op, handle[p].id, times, over)
          BY <2>4 DEF StartSave, Save
    <3>2. times \in SUBSET Slots BY TimesAssumption DEF Slots
    <3>3. handle[p] # None BY <2>4 DEF StartSave
    <3>4. op \in AllOps /\ handle[p].id \in Events \cup {None}
          BY <2>2, <2>3, <3>3 DEF AllOps
    <3> QED BY <2>2, <3>1, <3>2, <3>3, <3>4
  <2>5. CASE StartChange(p)
    <3>1. PICK op \in {"cancel", "uncancel", "delete"}, e \in used,
               over \in BOOLEAN : Start(p, op, e, {}, over)
          BY <2>5 DEF StartChange
    <3>2. op \in AllOps /\ e \in Events \cup {None} /\ {} \in SUBSET Slots
          BY <2>3 DEF AllOps
    <3> QED BY <3>1, <3>2
  <2>6. CASE StartCleanup(p)
    <3>1. Start(p, "cleanup", None, {}, FALSE) BY <2>6 DEF StartCleanup
    <3>2. /\ "cleanup" \in AllOps /\ None \in Events \cup {None}
          /\ {} \in SUBSET Slots /\ FALSE \in BOOLEAN
          BY DEF AllOps
    <3> QED BY <3>1, <3>2
  <2>7. CASE StartDestroy(p)
    <3>1. handle[p] # None /\ Start(p, "destroy", handle[p].id, {}, FALSE)
          BY <2>7 DEF StartDestroy
    <3>2. /\ "destroy" \in AllOps /\ handle[p].id \in Events \cup {None}
          /\ {} \in SUBSET Slots /\ FALSE \in BOOLEAN
          BY <2>2, <2>3, <3>1 DEF AllOps
    <3> QED BY <2>2, <3>1, <3>2
  <2> QED BY <2>4, <2>5, <2>6, <2>7
<1>2. used' = used /\ handle' = handle
  <2>1. TypeOK BY DEF TypeInv
  <2>2. StartSave(p) => used' = used /\ handle' = handle
        BY <2>1 DEF StartSave, Save, TypeOK
  <2> QED BY <2>2 DEF StartChange, StartCleanup, StartDestroy
<1>3. TypeOK BY DEF TypeInv
<1>4. Started(p, op, e, times)
      BY <1>1, StartIs
<1>5. TypeOK' BY <1>2, <1>3, <1>4 DEF Started, TypeOK, IsIndex
<1>6. JobOK(p)' BY <1>1, <1>2, <1>4, JobBegins DEF Started
<1>7. \A q \in Procs : HandleOK(q)' BY <1>2, <1>4, HandlesStay DEF Started
<1>8. Ids(index') \subseteq used' BY <1>2, <1>4 DEF TypeInv, Started
<1> QED BY <1>4, <1>5, <1>6, <1>7, <1>8 DEF TypeInv, Ids, Started

\* A new step of an operation whose arguments stay.
LEMMA StepIs ==
  ASSUME TypeInv, NEW p \in Procs, job[p] # None, holders' = holders,
         NEW s \in Steps, NEW lines, IsIndex(lines), NEW noted \in SUBSET Events,
         job' = [job EXCEPT ![p].newindex = lines, ![p].noted = noted, ![p].step = s]
  PROVE  /\ Lone'
         /\ job' \in [Procs -> Jobs \cup {None}]
         /\ \A q \in Procs : job'[q] # None => IsIndex(job'[q].newindex)
         /\ \A q \in Procs \ {p} : job[q] = None /\ job'[q] = None
                                     /\ JobOK(q)' /\ ~Done(q)' /\ ~Done(q)
         /\ holders' = {q \in Procs : job'[q] # None}
         /\ job'[p] # None /\ job'[p].step = s
         /\ job'[p].newindex = lines /\ job'[p].noted = noted
         /\ job'[p].op = job[p].op /\ job'[p].id = job[p].id
         /\ job'[p].times = job[p].times /\ job'[p].over = job[p].over
<1> DEFINE j == [job[p] EXCEPT !.newindex = lines, !.noted = noted, !.step = s]
<1>1. job[p] \in Jobs BY JobIs
<1>2. lines \in Seq(Lines) BY DEF IsIndex
<1>3. j \in Jobs BY <1>1, <1>2 DEF Jobs
<1>4. /\ j.step = s /\ j.newindex = lines /\ j.noted = noted
      /\ j.op = job[p].op /\ j.id = job[p].id
      /\ j.times = job[p].times /\ j.over = job[p].over
      BY <1>1 DEF Jobs
<1>5. job' = [job EXCEPT ![p] = j]
  <2>1. job \in [Procs -> Jobs \cup {None}] BY DEF TypeInv, TypeOK
  <2> QED BY <2>1
<1> HIDE DEF j
<1>6. j # None /\ IsIndex(j.newindex) BY <1>3, <1>4, NoneAssumption
<1>7. /\ Lone'
      /\ job' \in [Procs -> Jobs \cup {None}]
      /\ job'[p] = j
      /\ \A q \in Procs : job'[q] # None => IsIndex(job'[q].newindex)
      /\ \A q \in Procs \ {p} : job[q] = None /\ job'[q] = None
                                  /\ JobOK(q)' /\ ~Done(q)' /\ ~Done(q)
      /\ holders' = {q \in Procs : job'[q] # None}
      BY <1>3, <1>5, <1>6, WorkIs
<1> QED BY <1>4, <1>6, <1>7

\* An operation on an event writes .index.tmp.
LEMMA RewriteType ==
  ASSUME TypeInv, NEW p \in Procs, Rewrite(p)
  PROVE  TypeInv'
<1> DEFINE s == IF Op(p) = "commit" THEN "file" ELSE "index"
<1>1. /\ job[p] # None /\ job[p].step = "rewrite" /\ Op(p) # "cleanup" /\ ~Refused(p)
      /\ job' = [job EXCEPT ![p].newindex = Draft(p), ![p].noted = Doomed(p),
                            ![p].step = s]
      /\ UNCHANGED <<holders, store, past, handle, ops, history>>
      BY DEF Rewrite, At, Idle
<1>2. IsIndex(Draft(p)) BY <1>1, DraftIs DEF Amended
<1>3. TypeOK /\ JobOK(p) BY DEF TypeInv
<1>4. Doomed(p) \in SUBSET Events
  <2>1. \A r \in ToSet(index) : r \in Lines BY <1>3, IndexLines DEF TypeOK
  <2>2. Ids(index) = {r.id : r \in ToSet(index)} BY <1>3, IndexLines DEF TypeOK
  <2>3. Ids(index) \subseteq Events BY <2>1, <2>2 DEF Lines
  <2>4. Doomed(p) \subseteq Ids(index) BY DEF Doomed
  <2> QED BY <2>3, <2>4
<1>5. s \in Steps BY DEF Steps
<1>6. (s = "file" => Op(p) = "commit") /\ s \in {"file", "index"} OBVIOUS
<1> HIDE DEF s
<1>7. /\ Lone'
      /\ job' \in [Procs -> Jobs \cup {None}]
      /\ \A q \in Procs : job'[q] # None => IsIndex(job'[q].newindex)
      /\ \A q \in Procs \ {p} : job[q] = None /\ job'[q] = None
                                  /\ JobOK(q)' /\ ~Done(q)' /\ ~Done(q)
      /\ holders' = {q \in Procs : job'[q] # None}
      /\ job'[p] # None /\ job'[p].step = s
      /\ job'[p].newindex = Draft(p) /\ job'[p].noted = Doomed(p)
      /\ job'[p].op = job[p].op /\ job'[p].id = job[p].id
      /\ job'[p].times = job[p].times /\ job'[p].over = job[p].over
      BY <1>1, <1>2, <1>4, <1>5, StepIs
<1>8. TypeOK' BY <1>1, <1>3, <1>7 DEF TypeOK, IsIndex, store, history
<1>9. Refused(p)' = Refused(p) /\ Draft(p)' = Draft(p) /\ Doomed(p)' = Doomed(p)
      BY <1>1, <1>7, SameDraft DEF store
<1>10. JobOK(p)'
  <2>1. Op(p)' = Op(p) /\ Saving(p)' = Saving(p) BY <1>7 DEF Op, Saving
  <2>2. AtOp(p)' BY <1>6, <1>7, <2>1 DEF AtOp, At
  <2>3. job'[p].id \in used' BY <1>1, <1>3, <1>7 DEF JobOK, history
  <2>4. Saving(p)' => /\ handle'[p] # None /\ handle'[p].id = job'[p].id
                      /\ job'[p].times \in Times
        BY <1>1, <1>3, <1>7, <2>1 DEF JobOK
  <2> QED BY <1>1, <1>7, <1>9, <2>1, <2>2, <2>3, <2>4 DEF JobOK
<1>11. ~Done(p) /\ ~Done(p)' BY <1>1, <1>6, <1>7 DEF Done, At
<1>12. \A q \in Procs : HandleOK(q)'
       BY <1>1, <1>7, <1>11, HandlesStay DEF store, history
<1> QED BY <1>1, <1>3, <1>7, <1>8, <1>10, <1>12 DEF TypeInv, Ids, store, history

\* What cleanup keeps is an index, and part of the old one.
LEMMA SweptIs ==
  ASSUME TypeInv, NEW kept \in Swept
  PROVE  IsIndex(kept) /\ ToSet(kept) \subseteq ToSet(index)
<1>1. IsIndex(index) BY DEF TypeInv, TypeOK
<1>2. PICK aged : kept = Select(index, {r \in ToSet(index) : Keeps(r, aged)})
      BY DEF Swept
<1> DEFINE keep == {r \in ToSet(index) : Keeps(r, aged)}
<1>3. keep \subseteq ToSet(index) /\ kept = Select(index, keep) BY <1>2
<1> HIDE DEF keep
<1> QED BY <1>1, <1>3, SelectIndex

\* cleanup writes .index.tmp, whole or in part.
LEMMA SweepType ==
  ASSUME TypeInv, NEW p \in Procs, Sweep(p) \/ SweepFails(p)
  PROVE  TypeInv'
<1>1. TypeOK /\ JobOK(p) BY DEF TypeInv
<1>2. job[p] # None /\ job[p].step = "rewrite" /\ Op(p) = "cleanup"
      BY DEF Sweep, SweepFails, At, Idle
<1>3. PICK s \in {"index", "broken"}, lines \in Seq(Lines), noted \in SUBSET Events :
        /\ job' = [job EXCEPT ![p].newindex = lines, ![p].noted = noted, ![p].step = s]
        /\ IsIndex(lines) /\ ToSet(lines) \subseteq ToSet(index)
        /\ s = "index" => noted = Ids(lines)
  <2>1. CASE Sweep(p)
    <3>1. PICK kept \in Swept :
            job' = [job EXCEPT ![p].newindex = kept, ![p].noted = Ids(kept),
                               ![p].step = "index"]
          BY <2>1 DEF Sweep
    <3>2. IsIndex(kept) /\ ToSet(kept) \subseteq ToSet(index) BY SweptIs
    <3>3. Ids(kept) \in SUBSET Events BY <3>2, IndexLines DEF Lines
    <3>4. kept \in Seq(Lines) BY <3>2 DEF IsIndex
    <3> QED BY <3>1, <3>2, <3>3, <3>4
  <2>2. CASE SweepFails(p)
    <3>1. PICK kept \in Swept : \E n \in 0..Len(kept) :
            job' = [job EXCEPT ![p].newindex = SubSeq(kept, 1, n),
                               ![p].step = "broken"]
          BY <2>2 DEF SweepFails
    <3>2. PICK n \in 0..Len(kept) :
            job' = [job EXCEPT ![p].newindex = SubSeq(kept, 1, n),
                               ![p].step = "broken"]
          BY <3>1
    <3>3. IsIndex(kept) /\ ToSet(kept) \subseteq ToSet(index) BY SweptIs
    <3>4. IsIndex(SubSeq(kept, 1, n)) /\ ToSet(SubSeq(kept, 1, n)) \subseteq ToSet(kept)
          BY <3>3, PrefixIndex
    <3> DEFINE lines == SubSeq(kept, 1, n)
    <3>5. IsIndex(lines) /\ ToSet(lines) \subseteq ToSet(index) BY <3>3, <3>4
    <3>6. job' = [job EXCEPT ![p].newindex = lines, ![p].step = "broken"] BY <3>2
    <3> HIDE DEF lines
    <3>7. job[p] \in Jobs /\ job \in [Procs -> Jobs \cup {None}]
          BY <1>1, <1>2, JobIs DEF TypeOK
    <3>8. job[p].noted \in SUBSET Events BY <3>7 DEF Jobs
    <3>9. job' = [job EXCEPT ![p].newindex = lines, ![p].noted = job[p].noted,
                             ![p].step = "broken"]
      <4>1. [job[p] EXCEPT !.newindex = lines, !.step = "broken"]
            = [job[p] EXCEPT !.newindex = lines, !.noted = job[p].noted, !.step = "broken"]
            BY <3>7 DEF Jobs
      <4> QED BY <3>6, <3>7, <4>1
    <3>10. lines \in Seq(Lines) BY <3>5 DEF IsIndex
    <3> QED BY <3>5, <3>8, <3>9, <3>10
  <2> QED BY <2>1, <2>2
<1>4. UNCHANGED <<holders, store, past, handle, ops, history>>
      BY DEF Sweep, SweepFails
<1>5. s \in Steps BY DEF Steps
<1>6. /\ Lone'
      /\ job' \in [Procs -> Jobs \cup {None}]
      /\ \A q \in Procs : job'[q] # None => IsIndex(job'[q].newindex)
      /\ \A q \in Procs \ {p} : job[q] = None /\ job'[q] = None
                                  /\ JobOK(q)' /\ ~Done(q)' /\ ~Done(q)
      /\ holders' = {q \in Procs : job'[q] # None}
      /\ job'[p] # None /\ job'[p].step = s
      /\ job'[p].newindex = lines /\ job'[p].noted = noted
      /\ job'[p].op = job[p].op /\ job'[p].id = job[p].id
      /\ job'[p].times = job[p].times /\ job'[p].over = job[p].over
      BY <1>2, <1>3, <1>4, <1>5, StepIs
<1>7. TypeOK' BY <1>1, <1>4, <1>6 DEF TypeOK, IsIndex, store, history
<1>8. JobOK(p)'
  <2>1. Op(p)' = "cleanup" /\ ~Saving(p)' BY <1>2, <1>6 DEF Op, Saving
  <2>2. AtOp(p)' BY <1>6, <2>1 DEF AtOp, At
  <2>3. ToSet(job'[p].newindex) \subseteq ToSet(index') BY <1>3, <1>4, <1>6 DEF store
  <2>4. At(p, "index")' => job'[p].noted = Ids(job'[p].newindex) BY <1>3, <1>6 DEF At
  <2> QED BY <2>1, <2>2, <2>3, <2>4 DEF JobOK, ToSet, Ids
<1>9. ~Done(p) /\ ~Done(p)' BY <1>2, <1>6 DEF Done, At
<1>10. \A q \in Procs : HandleOK(q)'
       BY <1>4, <1>6, <1>9, HandlesStay DEF store, history
<1> QED BY <1>1, <1>4, <1>6, <1>7, <1>8, <1>10 DEF TypeInv, Ids, store, history

\* A handle that was given up is given up by its process alone.
LEMMA GiveUpType ==
  ASSUME TypeInv, NEW p \in Procs, GiveUp(p)
  PROVE  TypeInv'
<1>1. /\ job[p] # None /\ job[p].step = "rewrite" /\ Op(p) # "cleanup"
      /\ Finish(p) /\ UNCHANGED <<store, past, ops, history>>
      BY DEF GiveUp, At, Idle
<1>2. TypeOK BY DEF TypeInv
<1>3. /\ holders' = {} /\ Lone'
      /\ job' \in [Procs -> Jobs \cup {None}]
      /\ \A q \in Procs : job'[q] = None /\ JobOK(q)' /\ ~Done(q)'
      /\ holders' = {q \in Procs : job'[q] # None}
      BY <1>1, FinishIs
<1>4. \A q \in Procs : ~Done(q)
  <2>1. \A q \in Procs : q # p => job[q] = None BY <1>1, Alone
  <2> QED BY <1>1, <2>1 DEF Done, At, Idle
<1>5. CASE /\ Saving(p) /\ Vanished(p)
           /\ handle' = [handle EXCEPT ![p].booked = FALSE]
  <2> DEFINE h == [handle[p] EXCEPT !.booked = FALSE]
  <2>1. handle' = [handle EXCEPT ![p] = h]
    <3>1. handle \in [Procs -> Handles \cup {None}] BY <1>2 DEF TypeOK
    <3> QED BY <1>5, <3>1
  <2>2. handle[p] \in Handles /\ handle[p] # None BY <1>1, <1>5, JobIs
  <2>3. h \in Handles /\ h.id = handle[p].id /\ h.old = handle[p].old
        BY <2>2 DEF Handles
  <2> HIDE DEF h
  <2>4. /\ handle' \in [Procs -> Handles \cup {None}]
        /\ handle'[p] = h /\ \A q \in Procs \ {p} : handle'[q] = handle[q]
        BY <1>2, <2>1, <2>3 DEF TypeOK
  <2>5. handle[p].id \notin Ids(index)
    <3>1. handle[p].booked /\ Own(p) = {} BY <1>5 DEF Vanished
    <3> QED BY <3>1 DEF Own, Has
  <2>6. \A q \in Procs : handle'[q] # None =>
           /\ handle[q] # None
           /\ handle'[q].id = handle[q].id /\ handle'[q].old = handle[q].old
           /\ ~handle'[q].booked /\ ~Done(q)' => handle'[q].id \notin Ids(index')
    <3>1. \A q \in Procs : handle[q] # None /\ ~handle[q].booked =>
                             handle[q].id \notin Ids(index)
          BY <1>4 DEF TypeInv, HandleOK
    <3>2. Ids(index') = Ids(index) BY <1>1 DEF store
    <3> QED BY <2>2, <2>3, <2>4, <2>5, <3>1, <3>2
  <2>7. \A q \in Procs : HandleOK(q)' BY <1>1, <2>6, HandlesSame DEF history
  <2>8. TypeOK' BY <1>1, <1>2, <1>3, <2>4 DEF TypeOK, IsIndex, store, history
  <2> QED BY <1>1, <1>3, <2>7, <2>8 DEF TypeInv, Ids, store, history
<1>6. CASE Forget(p, {"destroy"})
  <2>1. handle' = handle \/ handle' = [handle EXCEPT ![p] = None]
        BY <1>6 DEF Forget
  <2>2. /\ handle' \in [Procs -> Handles \cup {None}]
        /\ \A q \in Procs : handle'[q] # None => handle'[q] = handle[q]
        BY <1>2, <2>1 DEF TypeOK
  <2>3. \A q \in Procs : HandleOK(q)'
        BY <1>1, <1>4, <2>2, HandlesStay DEF store, history
  <2>4. TypeOK' BY <1>1, <1>2, <1>3, <2>2 DEF TypeOK, IsIndex, store, history
  <2> QED BY <1>1, <1>3, <2>3, <2>4 DEF TypeInv, Ids, store, history
<1> QED BY <1>5, <1>6 DEF GiveUp

\* p lets its handle go, or keeps it, and is done.
LEMMA EndType ==
  ASSUME TypeInv, NEW p \in Procs, job[p] # None, Finish(p),
         UNCHANGED <<index, past, ops, used, origin, placed, overridden, missed>>,
         files' \subseteq Events, whole' \in BOOLEAN,
         \/ handle' = handle /\ ~Done(p)
         \/ handle' = [handle EXCEPT ![p] = None]
  PROVE  TypeInv'
<1>2. TypeOK BY DEF TypeInv
<1>3. /\ holders' = {} /\ Lone'
      /\ job' \in [Procs -> Jobs \cup {None}]
      /\ \A q \in Procs : job'[q] = None /\ JobOK(q)' /\ ~Done(q)'
      /\ holders' = {q \in Procs : job'[q] # None}
      BY FinishIs
<1>4. \A q \in Procs \ {p} : ~Done(q)
  <2>1. \A q \in Procs : q # p => job[q] = None BY Alone
  <2> QED BY <2>1 DEF Done, At, Idle
<1>5. /\ handle' \in [Procs -> Handles \cup {None}]
      /\ \A q \in Procs : handle'[q] # None => handle'[q] = handle[q] /\ ~Done(q)
      BY <1>2, <1>4 DEF TypeOK
<1>6. \A q \in Procs : HandleOK(q)' BY <1>5, HandlesStay
<1>7. TypeOK' BY <1>2, <1>3, <1>5 DEF TypeOK, IsIndex
<1> QED BY <1>3, <1>6, <1>7 DEF TypeInv, Ids

\* A rename fails.
LEMMA RenameFailsType ==
  ASSUME TypeInv, NEW p \in Procs, RenameFails(p)
  PROVE  TypeInv'
<1>1. /\ job[p] # None /\ Finish(p) /\ ~Done(p)
      /\ UNCHANGED <<store, past, ops, history>>
      BY DEF RenameFails, At, Idle, Done
<1>2. handle' = handle \/ handle' = [handle EXCEPT ![p] = None]
      BY DEF RenameFails, Forget
<1>3. files' \subseteq Events /\ whole' \in BOOLEAN
      BY <1>1 DEF TypeInv, TypeOK, store, history
<1> QED BY <1>1, <1>2, <1>3, EndType DEF store, history

\* The file of the old event is unlinked.
LEMMA UnlinkOldType ==
  ASSUME TypeInv, NEW p \in Procs, UnlinkOld(p)
  PROVE  TypeInv'
<1>1. /\ job[p] # None /\ Finish(p)
      /\ files' = files \ job[p].noted
      /\ UNCHANGED <<index, past, ops, history>>
      BY DEF UnlinkOld, At, Idle
<1>2. \/ handle' = handle /\ ~Done(p)
      \/ handle' = [handle EXCEPT ![p] = None]
      BY DEF UnlinkOld, Forget, Done
<1>3. files' \subseteq Events /\ whole' \in BOOLEAN
      BY <1>1 DEF TypeInv, TypeOK, history
<1> QED BY <1>1, <1>2, <1>3, EndType DEF history

\* A part of the index takes its place.
LEMMA InstallBrokenType ==
  ASSUME TypeInv, NEW p \in Procs, InstallBroken(p)
  PROVE  TypeInv'
<1>1. /\ job[p] # None /\ job[p].step = "broken" /\ Finish(p)
      /\ index' = job[p].newindex /\ whole' = FALSE
      /\ UNCHANGED <<files, past, handle, ops, used, origin, placed,
                     overridden, missed>>
      BY DEF InstallBroken, At, Idle
<1>2. TypeOK /\ JobOK(p) BY DEF TypeInv
<1>3. /\ holders' = {} /\ Lone'
      /\ job' \in [Procs -> Jobs \cup {None}]
      /\ \A q \in Procs : job'[q] = None /\ JobOK(q)' /\ ~Done(q)'
      /\ holders' = {q \in Procs : job'[q] # None}
      BY <1>1, FinishIs
<1>4. Op(p) = "cleanup" BY <1>1, <1>2 DEF JobOK, AtOp, At, Idle
<1>5. IsIndex(index') /\ ToSet(index') \subseteq ToSet(index)
      BY <1>1, <1>2, <1>4 DEF JobOK, TypeOK
<1>6. Ids(index') \subseteq Ids(index)
  <2>1. Ids(index') = {r.id : r \in ToSet(index')} BY <1>5, IndexLines
  <2>2. Ids(index) = {r.id : r \in ToSet(index)} BY <1>2, IndexLines DEF TypeOK
  <2> QED BY <1>5, <2>1, <2>2
<1>7. \A q \in Procs : ~Done(q)
  <2>1. \A q \in Procs : q # p => job[q] = None BY <1>1, Alone
  <2> QED BY <1>1, <2>1 DEF Done, At, Idle
<1>8. \A q \in Procs : handle[q] # None /\ ~handle[q].booked =>
                         handle[q].id \notin Ids(index)
      BY <1>7 DEF TypeInv, HandleOK
<1>9. \A q \in Procs : HandleOK(q)' BY <1>1, <1>6, <1>8, HandlesSame
<1>10. TypeOK' BY <1>1, <1>2, <1>3, <1>5 DEF TypeOK, IsIndex
<1>11. Ids(index') \subseteq used' BY <1>1, <1>6 DEF TypeInv
<1> QED BY <1>3, <1>9, <1>10, <1>11 DEF TypeInv, Ids

\* One step further in an operation whose lines stay.
LEMMA ProceedIs ==
  ASSUME TypeInv, NEW p \in Procs, job[p] # None, NEW s \in Steps, Proceed(p, s)
  PROVE  /\ Lone' /\ holders' = holders
         /\ job' \in [Procs -> Jobs \cup {None}]
         /\ \A q \in Procs : job'[q] # None => IsIndex(job'[q].newindex)
         /\ \A q \in Procs \ {p} : job[q] = None /\ job'[q] = None
                                     /\ JobOK(q)' /\ ~Done(q)' /\ ~Done(q)
         /\ holders' = {q \in Procs : job'[q] # None}
         /\ job'[p] # None /\ job'[p].step = s
         /\ job'[p].newindex = job[p].newindex /\ job'[p].noted = job[p].noted
         /\ job'[p].op = job[p].op /\ job'[p].id = job[p].id
         /\ job'[p].times = job[p].times /\ job'[p].over = job[p].over
<1> DEFINE j == [job[p] EXCEPT !.step = s]
<1>1. job[p] \in Jobs BY JobIs
<1>2. job \in [Procs -> Jobs \cup {None}] /\ IsIndex(job[p].newindex)
      BY DEF TypeInv, TypeOK
<1>3. /\ j \in Jobs /\ j.step = s
      /\ j.newindex = job[p].newindex /\ j.noted = job[p].noted
      /\ j.op = job[p].op /\ j.id = job[p].id
      /\ j.times = job[p].times /\ j.over = job[p].over
      BY <1>1 DEF Jobs
<1>4. job' = [job EXCEPT ![p] = j] /\ holders' = holders BY <1>2 DEF Proceed
<1> HIDE DEF j
<1>5. j # None /\ IsIndex(j.newindex) BY <1>2, <1>3, NoneAssumption
<1>6. /\ Lone'
      /\ job' \in [Procs -> Jobs \cup {None}]
      /\ job'[p] = j
      /\ \A q \in Procs : job'[q] # None => IsIndex(job'[q].newindex)
      /\ \A q \in Procs \ {p} : job[q] = None /\ job'[q] = None
                                  /\ JobOK(q)' /\ ~Done(q)' /\ ~Done(q)
      /\ holders' = {q \in Procs : job'[q] # None}
      BY <1>3, <1>4, <1>5, WorkIs
<1> QED BY <1>3, <1>4, <1>5, <1>6

\* The file of an event gets its name.
LEMMA NameFileType ==
  ASSUME TypeInv, NEW p \in Procs, NameFile(p)
  PROVE  TypeInv'
<1>1. /\ job[p] # None /\ job[p].step = "file"
      /\ files' = files \cup {handle[p].id}
      /\ handle' = [handle EXCEPT ![p].saved = TRUE]
      /\ Proceed(p, "index")
      /\ UNCHANGED <<index, past, ops, history>>
      BY DEF NameFile, At, Idle
<1>2. TypeOK /\ JobOK(p) BY DEF TypeInv
<1>3. Op(p) = "commit" /\ Saving(p)
      BY <1>1, <1>2 DEF JobOK, AtOp, At, Idle, Saving
<1>4. /\ Lone' /\ holders' = holders
      /\ job' \in [Procs -> Jobs \cup {None}]
      /\ \A q \in Procs : job'[q] # None => IsIndex(job'[q].newindex)
      /\ \A q \in Procs \ {p} : job[q] = None /\ job'[q] = None
                                  /\ JobOK(q)' /\ ~Done(q)' /\ ~Done(q)
      /\ holders' = {q \in Procs : job'[q] # None}
      /\ job'[p] # None /\ job'[p].step = "index"
      /\ job'[p].newindex = job[p].newindex /\ job'[p].noted = job[p].noted
      /\ job'[p].op = job[p].op /\ job'[p].id = job[p].id
      /\ job'[p].times = job[p].times /\ job'[p].over = job[p].over
  <2>1. "index" \in Steps BY DEF Steps
  <2> QED BY <1>1, <2>1, ProceedIs
<1> DEFINE h == [handle[p] EXCEPT !.saved = TRUE]
<1>5. handle[p] \in Handles /\ handle[p] # None BY <1>1, <1>3, JobIs
<1>6. handle' = [handle EXCEPT ![p] = h] BY <1>1, <1>2 DEF TypeOK
<1>7. /\ h \in Handles /\ h.id = handle[p].id /\ h.old = handle[p].old
      /\ h.booked = handle[p].booked
      BY <1>5 DEF Handles
<1> HIDE DEF h
<1>8. h # None BY <1>7, NoneAssumption
<1>9. /\ handle' \in [Procs -> Handles \cup {None}] /\ handle'[p] = h
      /\ \A q \in Procs \ {p} : handle'[q] = handle[q]
      BY <1>2, <1>6, <1>7 DEF TypeOK
<1>10. ~Done(p) /\ ~Done(p)' BY <1>1, <1>4 DEF Done, At
<1>11. \A q \in Procs : handle'[q] # None =>
           /\ handle[q] # None
           /\ handle'[q].id = handle[q].id /\ handle'[q].old = handle[q].old
           /\ handle'[q].booked = handle[q].booked
           /\ ~Done(q)' => ~Done(q)
       BY <1>4, <1>5, <1>7, <1>9, <1>10
<1>12. \A q \in Procs : HandleOK(q)' BY <1>1, <1>11, HandlesStay DEF history
<1>13. handle[p].id \in Events BY <1>5 DEF Handles
<1>14. TypeOK' BY <1>1, <1>2, <1>4, <1>9, <1>13 DEF TypeOK, IsIndex, history
<1>15. Refused(p)' = Refused(p) /\ Draft(p)' = Draft(p) /\ Doomed(p)' = Doomed(p)
       BY <1>1, <1>4, <1>7, <1>9, SameDraft
<1>16. JobOK(p)'
  <2>1. Op(p)' = "commit" /\ Saving(p)' BY <1>3, <1>4 DEF Op, Saving
  <2>2. AtOp(p)' BY <1>4, <2>1 DEF AtOp, At
  <2>3. job'[p].id \in used' BY <1>1, <1>2, <1>3, <1>4 DEF JobOK, history
  <2>4. /\ handle'[p] # None /\ handle'[p].id = job'[p].id
        /\ job'[p].times \in Times
        BY <1>1, <1>2, <1>3, <1>4, <1>7, <1>8, <1>9 DEF JobOK
  <2>5. ~Refused(p) /\ job[p].newindex = Draft(p) /\ job[p].noted = Doomed(p)
        BY <1>1, <1>2, <1>3 DEF JobOK, At, Idle
  <2> QED BY <1>4, <1>15, <2>1, <2>2, <2>3, <2>4, <2>5 DEF JobOK
<1> QED BY <1>1, <1>2, <1>4, <1>12, <1>14, <1>16 DEF TypeInv, Ids, history

\* cleanup unlinks what is in no line.
LEMMA ScanType ==
  ASSUME TypeInv, NEW p \in Procs, Scan(p)
  PROVE  TypeInv'
<1>1. /\ job[p] # None /\ job[p].step = "scan"
      /\ UNCHANGED <<index, past, handle, ops, history>>
      /\ files' \subseteq files
      BY DEF Scan, At, Idle
<1>2. TypeOK /\ JobOK(p) BY DEF TypeInv
<1>3. ~Done(p) /\ Op(p) = "cleanup"
      BY <1>1, <1>2 DEF Done, At, Idle, JobOK, AtOp
<1>4. files' \subseteq Events /\ whole' \in BOOLEAN
      BY <1>1, <1>2 DEF TypeOK, history
<1>5. CASE Finish(p) BY <1>1, <1>3, <1>4, <1>5, EndType DEF history
<1>6. CASE Proceed(p, "scan")
  <2>0. "scan" \in Steps BY DEF Steps
  <2>1. /\ Lone' /\ holders' = holders
        /\ job' \in [Procs -> Jobs \cup {None}]
        /\ \A q \in Procs : job'[q] # None => IsIndex(job'[q].newindex)
        /\ \A q \in Procs \ {p} : job[q] = None /\ job'[q] = None
                                    /\ JobOK(q)' /\ ~Done(q)' /\ ~Done(q)
        /\ holders' = {q \in Procs : job'[q] # None}
        /\ job'[p] # None /\ job'[p].step = "scan"
        /\ job'[p].newindex = job[p].newindex /\ job'[p].noted = job[p].noted
        /\ job'[p].op = job[p].op /\ job'[p].id = job[p].id
        /\ job'[p].times = job[p].times /\ job'[p].over = job[p].over
        BY <1>1, <1>6, <2>0, ProceedIs
  <2>2. \A q \in Procs : HandleOK(q)' BY <1>1, <1>3, <2>1, HandlesStay DEF history
  <2>3. Op(p)' = "cleanup" /\ ~Saving(p)' BY <1>3, <2>1 DEF Op, Saving
  <2>4. JobOK(p)'
        BY <1>1, <1>2, <1>3, <2>1, <2>3 DEF JobOK, AtOp, At, Idle, ToSet
  <2>5. TypeOK' BY <1>1, <1>2, <1>4, <2>1 DEF TypeOK, IsIndex, history
  <2> QED BY <1>1, <1>2, <2>1, <2>2, <2>4, <2>5 DEF TypeInv, Ids, history
<1> QED BY <1>5, <1>6 DEF Scan

\* Nothing changes for q.
LEMMA JobStays ==
  ASSUME TypeInv, NEW q \in Procs, job'[q] = job[q], handle'[q] = handle[q],
         index' = index, used' = used
  PROVE  JobOK(q)' /\ Done(q)' = Done(q)
<1>1. Refused(q)' = Refused(q) /\ Draft(q)' = Draft(q) /\ Doomed(q)' = Doomed(q)
      BY SameDraft
<1>2. JobOK(q) BY DEF TypeInv
<1>3. /\ Op(q)' = Op(q) /\ Saving(q)' = Saving(q)
      /\ \A s : At(q, s)' = At(q, s)
      BY DEF Op, Saving, At, Idle
<1>4. AtOp(q)' BY <1>2, <1>3 DEF AtOp, JobOK
<1>5. JobOK(q)' BY <1>1, <1>2, <1>3, <1>4 DEF JobOK, Ids, ToSet
<1> QED BY <1>3, <1>5 DEF Done

\* Time passes.
LEMMA TickType ==
  ASSUME TypeInv, Tick \/ UNCHANGED vars
  PROVE  TypeInv'
<1>1. UNCHANGED <<holders, store, handle, job, ops, history>>
      BY DEF Tick, vars, store, history
<1>2. TypeOK BY DEF TypeInv
<1>3. past' \in 0..MaxSlot
      BY <1>2, BoundsAssumption DEF Tick, vars, TypeOK
<1>4. TypeOK' BY <1>1, <1>2, <1>3 DEF TypeOK, IsIndex, store, history
<1>5. \A q \in Procs : JobOK(q)' /\ Done(q)' = Done(q)
      BY <1>1, JobStays DEF store, history
<1>6. \A q \in Procs : HandleOK(q)' BY <1>1, <1>5, HandlesStay DEF store, history
<1> QED BY <1>1, <1>4, <1>5, <1>6 DEF TypeInv, Lone, Ids, store, history

\* A process dies.
LEMMA KillType ==
  ASSUME TypeInv, NEW p \in Procs, Kill(p)
  PROVE  TypeInv'
<1>1. /\ holders' = holders \ {p}
      /\ handle' = [handle EXCEPT ![p] = None]
      /\ job' = [job EXCEPT ![p] = None]
      /\ UNCHANGED <<store, past, ops, history>>
      BY DEF Kill
<1>2. TypeOK BY DEF TypeInv
<1>3. /\ handle' \in [Procs -> Handles \cup {None}] /\ handle'[p] = None
      /\ job' \in [Procs -> Jobs \cup {None}] /\ job'[p] = None
      /\ \A q \in Procs \ {p} : handle'[q] = handle[q] /\ job'[q] = job[q]
      BY <1>1, <1>2 DEF TypeOK
<1>4. TypeOK' BY <1>1, <1>2, <1>3 DEF TypeOK, IsIndex, store, history
<1>5. \A q \in Procs : JobOK(q)'
      BY <1>1, <1>3, IdleIs, JobStays DEF store, history
<1>6. \A q \in Procs \ {p} : Done(q)' = Done(q)
      BY <1>1, <1>3, JobStays DEF store, history
<1>7. \A q \in Procs : HandleOK(q)'
      BY <1>1, <1>3, <1>6, HandlesStay DEF store, history
<1>8. Lone' BY <1>1 DEF TypeInv, Lone
<1> QED BY <1>1, <1>4, <1>5, <1>7, <1>8 DEF TypeInv, Ids, store, history

\* The new index that an operation on an event is about to install.
LEMMA NewIndexIs ==
  ASSUME TypeInv, NEW p \in Procs, job[p] # None, job[p].step = "index",
         Op(p) # "cleanup"
  PROVE  /\ ~Refused(p) /\ Amended(p, job[p].newindex)
         /\ job[p].noted = Doomed(p)
         /\ ~Saving(p) => Has(index, job[p].id)
<1>1. JobOK(p) BY DEF TypeInv
<1>2. ~Refused(p) /\ job[p].newindex = Draft(p) /\ job[p].noted = Doomed(p)
      BY <1>1 DEF JobOK, At, Idle
<1>3. Amended(p, Draft(p)) BY <1>2, DraftIs
<1>4. ~Saving(p) => Has(index, job[p].id) BY <1>2 DEF Refused
<1> QED BY <1>2, <1>3, <1>4

\* It has a line for no event but those of the old, and the one that is saved.
LEMMA NewIds ==
  ASSUME TypeInv, NEW p \in Procs, job[p] # None, job[p].step = "index"
  PROVE  /\ IsIndex(job[p].newindex)
         /\ \A e \in Ids(job[p].newindex) :
              e \in Ids(index) \/ (Saving(p) /\ e = job[p].id)
<1>1. TypeOK /\ JobOK(p) BY DEF TypeInv
<1>2. IsIndex(index) /\ IsIndex(job[p].newindex) BY <1>1 DEF TypeOK
<1> DEFINE new == job[p].newindex
<1>3. Ids(new) = {r.id : r \in ToSet(new)} /\ Ids(index) = {r.id : r \in ToSet(index)}
      BY <1>2, IndexLines
<1>4. CASE Op(p) = "cleanup"
  <2>1. ToSet(new) \subseteq ToSet(index) BY <1>1, <1>4 DEF JobOK
  <2> QED BY <1>2, <1>3, <2>1
<1>5. CASE Op(p) # "cleanup"
  <2>1. Amended(p, new) /\ (~Saving(p) => Has(index, job[p].id)) BY <1>5, NewIndexIs
  <2> HIDE DEF new
  <2>2. \A r \in ToSet(new) : r.id = job[p].id \/ \E q \in ToSet(index) : q.id = r.id
        BY <2>1 DEF Amended, Alike
  <2> QED BY <1>2, <1>3, <2>1, <2>2 DEF Has, new
<1> QED BY <1>4, <1>5

\* The operation that installs is over, or goes on to unlink or to scan.
LEMMA AfterIs ==
  ASSUME TypeInv, NEW p \in Procs, job[p] # None, AfterInstall(p)
  PROVE  /\ Op(p) = "cleanup" => Proceed(p, "scan")
         /\ Op(p) \in {"commit", "delete", "destroy"} => Proceed(p, "unlink")
         /\ Op(p) \in {"book", "cancel", "uncancel"} => Finish(p)
         /\ Lone'
         /\ job' \in [Procs -> Jobs \cup {None}]
         /\ \A q \in Procs : job'[q] # None => IsIndex(job'[q].newindex)
         /\ \A q \in Procs \ {p} : job[q] = None /\ job'[q] = None
                                     /\ JobOK(q)' /\ ~Done(q)' /\ ~Done(q)
         /\ holders' = {q \in Procs : job'[q] # None}
         /\ job'[p] # None =>
              /\ Op(p) \in {"cleanup", "commit", "delete", "destroy"}
              /\ job'[p].step = IF Op(p) = "cleanup" THEN "scan" ELSE "unlink"
              /\ job'[p].newindex = job[p].newindex /\ job'[p].noted = job[p].noted
              /\ job'[p].op = job[p].op /\ job'[p].id = job[p].id
              /\ job'[p].times = job[p].times
<1>1. Op(p) \in AllOps BY JobIs DEF Jobs, Op
<1>2. \A q \in Procs \ {p} : job[q] = None /\ ~Done(q)
      BY Alone DEF Done, At, Idle
<1>3. "scan" \in Steps /\ "unlink" \in Steps BY DEF Steps
<1>4. CASE Op(p) = "cleanup"
  <2>1. Proceed(p, "scan") BY <1>4 DEF AfterInstall
  <2> QED BY <1>2, <1>3, <1>4, <2>1, ProceedIs
<1>5. CASE Op(p) \in {"commit", "delete", "destroy"}
  <2>1. Proceed(p, "unlink") BY <1>5 DEF AfterInstall
  <2> QED BY <1>2, <1>3, <1>5, <2>1, ProceedIs
<1>6. CASE Op(p) \in {"book", "cancel", "uncancel"}
  <2>1. Finish(p) BY <1>6 DEF AfterInstall
  <2> QED BY <1>2, <1>6, <2>1, FinishIs
<1> QED BY <1>1, <1>4, <1>5, <1>6 DEF AllOps

\* The new index takes the place of the old.
LEMMA InstallType ==
  ASSUME TypeInv, NEW p \in Procs, Install(p)
  PROVE  TypeInv'
<1>1. /\ job[p] # None /\ job[p].step = "index"
      /\ index' = job[p].newindex
      /\ handle' = CASE Op(p) = "book" -> [handle EXCEPT ![p].booked = TRUE]
                     [] Op(p) = "commit" -> [handle EXCEPT ![p].booked = FALSE]
                     [] OTHER -> handle
      /\ AfterInstall(p) /\ Promise(p)
      /\ UNCHANGED <<files, past, ops>>
      BY DEF Install, At, Idle
<1>2. TypeOK /\ JobOK(p) BY DEF TypeInv
<1>3. /\ IsIndex(index')
      /\ \A e \in Ids(index') : e \in Ids(index) \/ (Saving(p) /\ e = job[p].id)
      BY <1>1, NewIds
<1>4. /\ Lone'
      /\ job' \in [Procs -> Jobs \cup {None}]
      /\ \A q \in Procs : job'[q] # None => IsIndex(job'[q].newindex)
      /\ \A q \in Procs \ {p} : job[q] = None /\ job'[q] = None
                                  /\ JobOK(q)' /\ ~Done(q)' /\ ~Done(q)
      /\ holders' = {q \in Procs : job'[q] # None}
      /\ job'[p] # None =>
           /\ Op(p) \in {"cleanup", "commit", "delete", "destroy"}
           /\ job'[p].step = IF Op(p) = "cleanup" THEN "scan" ELSE "unlink"
           /\ job'[p].newindex = job[p].newindex /\ job'[p].noted = job[p].noted
           /\ job'[p].op = job[p].op /\ job'[p].id = job[p].id
           /\ job'[p].times = job[p].times
      BY <1>1, AfterIs
<1>5. Op(p) # "cleanup" => job[p].id \in used /\ job[p].id \in Events BY <1>1, JobIs
<1>6. Saving(p) => /\ handle[p] \in Handles /\ handle[p] # None
                   /\ handle[p].id = job[p].id
                   /\ job[p].times \in Times
      BY <1>1, JobIs
<1>7. used' = used /\ whole' = whole BY <1>1 DEF Promise
<1>8. placed' \subseteq used' /\ overridden' \subseteq used' /\ missed' \subseteq used'
  <2>1. placed' \subseteq placed \cup (IF Op(p) = "commit" THEN {job[p].id} ELSE {})
        BY <1>1 DEF Promise
  <2>2. overridden' \subseteq overridden \cup (IF Looks(p) THEN {job[p].id} ELSE {})
        BY <1>1 DEF Promise
  <2>3. missed' \subseteq missed \cup (IF Op(p) = "uncancel" THEN {job[p].id} ELSE {})
        BY <1>1 DEF Promise
  <2>4. Looks(p) => Op(p) # "cleanup" BY DEF Looks, Booking, Saving
  <2> QED BY <1>2, <1>5, <1>7, <2>1, <2>2, <2>3, <2>4 DEF TypeOK
<1>9. origin' \in [Events -> Events \cup {None}]
  <2>1. \/ origin' = origin
        \/ Op(p) = "book" /\ origin' = [origin EXCEPT ![job[p].id] = handle[p].old]
        \/ origin' = [origin EXCEPT ![job[p].id] = None]
        BY <1>1 DEF Promise
  <2>2. Op(p) = "book" => handle[p].old \in Events \cup {None}
        BY <1>6 DEF Saving, Handles
  <2> QED BY <1>2, <2>1, <2>2 DEF TypeOK
<1>10. /\ handle' \in [Procs -> Handles \cup {None}]
       /\ \A q \in Procs \ {p} : handle'[q] = handle[q]
       /\ ~Saving(p) => handle'[p] = handle[p]
       /\ Saving(p) => /\ handle'[p] # None
                       /\ handle'[p].id = handle[p].id /\ handle'[p].old = handle[p].old
                       /\ handle'[p].booked = Booking(p)
  <2>1. handle \in [Procs -> Handles \cup {None}] BY <1>2 DEF TypeOK
  <2>2. CASE Saving(p)
    <3> DEFINE h == [handle[p] EXCEPT !.booked = Booking(p)]
    <3>1. handle' = [handle EXCEPT ![p] = h]
      <4>1. Op(p) = "book" \/ Op(p) = "commit" BY <2>2 DEF Saving
      <4>2. CASE Op(p) = "book"
        <5>1. Booking(p) = TRUE BY <4>2 DEF Booking
        <5>2. handle' = [handle EXCEPT ![p].booked = TRUE] BY <1>1, <4>2
        <5> QED BY <2>1, <5>1, <5>2
      <4>3. CASE Op(p) = "commit"
        <5>1. Booking(p) = FALSE BY <4>3 DEF Booking
        <5>2. handle' = [handle EXCEPT ![p].booked = FALSE] BY <1>1, <4>3
        <5> QED BY <2>1, <5>1, <5>2
      <4> QED BY <4>1, <4>2, <4>3
    <3>2. /\ h \in Handles /\ h.id = handle[p].id /\ h.old = handle[p].old
          /\ h.booked = Booking(p)
          BY <1>6, <2>2 DEF Handles, Booking
    <3> HIDE DEF h
    <3>3. h # None BY <3>2, NoneAssumption
    <3> QED BY <2>1, <2>2, <3>1, <3>2, <3>3
  <2>3. CASE ~Saving(p)
    <3>1. handle' = handle BY <1>1, <2>3 DEF Saving
    <3> QED BY <2>1, <2>3, <3>1
  <2> QED BY <2>2, <2>3
<1>11. TypeOK' BY <1>1, <1>2, <1>3, <1>4, <1>7, <1>8, <1>9, <1>10 DEF TypeOK, IsIndex
<1>12. ~Done(p) BY <1>1 DEF Done, At
<1>13. \A q \in Procs : handle'[q] # None =>
           /\ handle[q] # None
           /\ handle'[q].id = handle[q].id /\ handle'[q].old = handle[q].old
           /\ ~handle'[q].booked /\ ~Done(q)' => handle'[q].id \notin Ids(index')
  <2> SUFFICES ASSUME NEW q \in Procs, handle'[q] # None
               PROVE  /\ handle[q] # None
                      /\ handle'[q].id = handle[q].id /\ handle'[q].old = handle[q].old
                      /\ ~handle'[q].booked /\ ~Done(q)' =>
                           handle'[q].id \notin Ids(index')
      OBVIOUS
  <2>1. \A o \in Procs : handle[o] # None =>
          /\ ~handle[o].booked /\ ~Done(o) => handle[o].id \notin Ids(index)
          /\ \A z \in Procs : handle[z] # None /\ handle[z].id = handle[o].id => z = o
        BY DEF TypeInv, HandleOK
  <2>2. CASE q # p
    <3>1. handle'[q] = handle[q] BY <1>10, <2>2
    <3>2. Saving(p) => handle[q].id # job[p].id BY <1>6, <2>1, <2>2, <3>1
    <3> QED BY <1>3, <1>4, <2>1, <2>2, <3>1, <3>2
  <2>3. CASE q = p /\ ~Saving(p) BY <1>3, <1>10, <1>12, <2>1, <2>3
  <2>4. CASE q = p /\ Saving(p)
    <3>1. CASE Op(p) = "book" BY <1>6, <1>10, <2>4, <3>1 DEF Booking
    <3>2. CASE Op(p) = "commit"
      <4>1. Proceed(p, "unlink") BY <1>1, <3>2, AfterIs
      <4>2. job'[p] # None
        <5>1. "unlink" \in Steps BY DEF Steps
        <5> QED BY <1>1, <4>1, <5>1, ProceedIs
      <4>3. Done(p)' BY <1>4, <3>2, <4>2 DEF Done, At, Idle, Op
      <4> QED BY <1>6, <1>10, <2>4, <4>3
    <3> QED BY <2>4, <3>1, <3>2 DEF Saving
  <2> QED BY <2>2, <2>3, <2>4
<1>14. \A q \in Procs : HandleOK(q)' BY <1>7, <1>13, HandlesSame
<1>15. JobOK(p)'
  <2>1. CASE job'[p] = None BY <2>1, IdleIs
  <2>2. CASE job'[p] # None
    <3>1. Op(p)' = Op(p) /\ Saving(p)' = Saving(p) BY <1>4, <2>2 DEF Op, Saving
    <3>2. AtOp(p)' BY <1>4, <2>2, <3>1 DEF AtOp, At
    <3>3. ~At(p, "index")' /\ ~At(p, "file")' BY <1>4, <2>2 DEF At
    <3>4. Saving(p)' => /\ handle'[p] # None /\ handle'[p].id = job'[p].id
                        /\ job'[p].times \in Times
          BY <1>4, <1>6, <1>10, <2>2, <3>1
    <3>5. Op(p)' # "cleanup" => job'[p].id \in used' BY <1>4, <1>5, <1>7, <2>2, <3>1
    <3>6. ToSet(job'[p].newindex) \subseteq ToSet(index') BY <1>1, <1>4, <2>2
    <3> QED BY <3>1, <3>2, <3>3, <3>4, <3>5, <3>6 DEF JobOK, ToSet
  <2> QED BY <2>1, <2>2
<1>16. Ids(index') \subseteq used' BY <1>3, <1>5, <1>7 DEF TypeInv, Saving
<1> QED BY <1>4, <1>11, <1>14, <1>15, <1>16 DEF TypeInv, Ids

\* Every step preserves the types.
LEMMA TypeStep == TypeInv /\ [Next]_vars => TypeInv'
<1> SUFFICES ASSUME TypeInv, [Next]_vars PROVE TypeInv' OBVIOUS
<1>1. CASE Tick \/ UNCHANGED vars BY <1>1, TickType
<1>2. ASSUME NEW p \in Procs, Begin(p) PROVE TypeInv'
      BY <1>2, StartNewType, StartSameType DEF Begin
<1>3. ASSUME NEW p \in Procs, Work(p) PROVE TypeInv'
      BY <1>3, RewriteType, GiveUpType, SweepType, NameFileType, InstallType,
         InstallBrokenType, RenameFailsType, UnlinkOldType, ScanType DEF Work
<1>4. ASSUME NEW p \in Procs, Kill(p) PROVE TypeInv' BY <1>4, KillType
<1> QED BY <1>1, <1>2, <1>3, <1>4 DEF Next

\* The types, the handles and the operations under way are as TypeInv says.
THEOREM TypeTheorem == Spec => []TypeInv
<1> QED BY TypeInit, TypeStep, PTL DEF Spec

\* Every variable of the calendar has its type, and no index, old or new, has two
\* lines for one event.  (docommitevent, cleanup)
THEOREM TypeCorrect == Spec => []TypeOK
<1>1. TypeInv => TypeOK BY DEF TypeInv
<1> QED BY <1>1, TypeTheorem, PTL

-----------------------------------------------------------------------------
(* Lines, files and promises.                                              *)

\* LinesHaveFiles and CommittedStays, of the set of lines.
FilesOK == \A r \in ToSet(index) : r.booked \/ r.id \in files

PlacedOK ==
  whole => \A e \in placed :
    e \in files /\ \E r \in ToSet(index) : r.id = e /\ ~r.booked

KeptInv ==
  /\ TypeInv /\ FilesOK /\ PlacedOK
  /\ \A p \in Procs : BookingOK(p) /\ StepOK(p)

\* A process that does nothing is at no step.
LEMMA IdleStep ==
  ASSUME NEW p \in Procs, job'[p] = None
  PROVE  StepOK(p)'
BY DEF StepOK, At, Idle

\* Nothing happens to the calendar, but that files appear.
LEMMA StoreStays ==
  ASSUME KeptInv, TypeInv', UNCHANGED <<index, origin, placed, whole>>,
         files \subseteq files',
         \A q \in Procs : handle'[q] # None =>
           \/ ~handle'[q].booked /\ handle'[q].id \notin placed
           \/ /\ handle[q] # None
              /\ handle'[q].id = handle[q].id /\ handle'[q].old = handle[q].old
              /\ handle'[q].booked => handle[q].booked
              /\ ~Done(q)' => ~Done(q),
         \A q \in Procs : StepOK(q)'
  PROVE  KeptInv'
<1>1. FilesOK' BY DEF KeptInv, FilesOK, ToSet
<1>2. PlacedOK' BY DEF KeptInv, PlacedOK, ToSet
<1>3. ASSUME NEW q \in Procs PROVE BookingOK(q)'
  <2>1. BookingOK(q) BY DEF KeptInv
  <2>2. ToSet(index)' = ToSet(index) BY DEF ToSet
  <2> QED BY <2>1, <2>2 DEF BookingOK
<1> QED BY <1>1, <1>2, <1>3 DEF KeptInv

\* The empty calendar lacks nothing.
LEMMA KeptInit == Init => KeptInv
<1> SUFFICES ASSUME Init PROVE KeptInv OBVIOUS
<1>1. ToSet(index) = {}
  <2>1. index = <<>> /\ DOMAIN <<>> = {} BY DEF Init
  <2> QED BY <2>1 DEF ToSet
<1>2. FilesOK /\ PlacedOK BY <1>1 DEF Init, FilesOK, PlacedOK
<1>3. \A p \in Procs : BookingOK(p) /\ StepOK(p)
      BY DEF Init, BookingOK, StepOK, At, Idle
<1> QED BY <1>2, <1>3, TypeInit DEF KeptInv

\* Beginning an operation touches nothing.
LEMMA BeginKept ==
  ASSUME KeptInv, NEW p \in Procs, Begin(p), TypeInv'
  PROVE  KeptInv'
<1>1. TypeInv /\ TypeOK BY DEF KeptInv, TypeInv
<1>2. /\ UNCHANGED <<index, files, origin, placed, whole>>
      /\ \A q \in Procs \ {p} : job'[q] = job[q]
      /\ job[p] = None /\ job'[p] # None /\ job'[p].step = "rewrite"
      /\ holders = {}
  <2> DEFINE Lead == \E op \in AllOps, e \in Events \cup {None},
                        times \in SUBSET Slots, over \in BOOLEAN :
                       Start(p, op, e, times, over)
  <2>1. Lead
    <3>1. CASE StartNew(p) \/ StartSave(p)
      <4>1. PICK e \in Events, op \in {"book", "commit"}, times \in Times,
                 over \in BOOLEAN : Start(p, op, e, times, over)
        <5>1. CASE StartNew(p)
          <6>1. PICK e \in Events \ used, old \in used \cup {None} :
                  Save(p, [id |-> e, old |-> old, booked |-> FALSE, saved |-> FALSE])
                BY <5>1 DEF StartNew
          <6> DEFINE h == [id |-> e, old |-> old, booked |-> FALSE, saved |-> FALSE]
          <6>2. h.id = e /\ Save(p, h) BY <6>1
          <6> HIDE DEF h
          <6> QED BY <6>2 DEF Save
        <5>2. CASE StartSave(p)
          <6>1. handle[p] \in Handles BY <1>1, <5>2 DEF StartSave, TypeOK
          <6>2. handle[p].id \in Events BY <6>1 DEF Handles
          <6> QED BY <5>2, <6>2 DEF StartSave, Save
        <5> QED BY <3>1, <5>1, <5>2
      <4>2. op \in AllOps /\ times \in SUBSET Slots
            BY TimesAssumption DEF AllOps, Slots
      <4> QED BY <4>1, <4>2
    <3>2. CASE StartChange(p)
      <4>1. PICK op \in {"cancel", "uncancel", "delete"}, e \in used,
                 over \in BOOLEAN : Start(p, op, e, {}, over)
            BY <3>2 DEF StartChange
      <4>2. op \in AllOps /\ e \in Events /\ {} \in SUBSET Slots
            BY <1>1 DEF AllOps, TypeOK
      <4> QED BY <4>1, <4>2
    <3>3. CASE StartCleanup(p)
      <4>1. /\ "cleanup" \in AllOps /\ {} \in SUBSET Slots /\ FALSE \in BOOLEAN
            /\ None \in Events \cup {None}
            BY DEF AllOps
      <4> QED BY <3>3, <4>1 DEF StartCleanup
    <3>4. CASE StartDestroy(p)
      <4>1. handle[p] \in Handles BY <1>1, <3>4 DEF StartDestroy, TypeOK
      <4>2. handle[p].id \in Events BY <4>1 DEF Handles
      <4>3. "destroy" \in AllOps /\ {} \in SUBSET Slots /\ FALSE \in BOOLEAN
            BY DEF AllOps
      <4> QED BY <3>4, <4>2, <4>3 DEF StartDestroy
    <3> QED BY <3>1, <3>2, <3>3, <3>4 DEF Begin
  <2>2. PICK op \in AllOps, e \in Events \cup {None}, times \in SUBSET Slots,
             over \in BOOLEAN : Start(p, op, e, times, over)
        BY <2>1
  <2>3. Started(p, op, e, times) BY <1>1, <2>2, StartIs
  <2>4. job[p] = None /\ holders = {} BY <2>2 DEF Start, Idle, Take
  <2>5. \A q \in Procs \ {p} : job'[q] = job[q]
        BY <1>1, <2>3, <2>4 DEF Started, TypeOK
  <2> QED BY <2>3, <2>4, <2>5 DEF Started
<1>3. \A q \in Procs : handle'[q] # None =>
        \/ ~handle'[q].booked /\ handle'[q].id \notin placed
        \/ handle'[q] = handle[q]
  <2>1. CASE StartNew(p)
    <3>1. PICK e \in Events \ used, old \in used \cup {None} :
            Save(p, [id |-> e, old |-> old, booked |-> FALSE, saved |-> FALSE])
          BY <2>1 DEF StartNew
    <3> DEFINE h == [id |-> e, old |-> old, booked |-> FALSE, saved |-> FALSE]
    <3>2. h.id = e /\ ~h.booked /\ handle' = [handle EXCEPT ![p] = h]
          BY <3>1 DEF Save
    <3> HIDE DEF h
    <3>3. e \notin placed BY <1>1 DEF TypeOK
    <3> QED BY <1>1, <3>2, <3>3 DEF TypeOK
  <2>2. CASE StartSave(p) BY <1>1, <2>2 DEF StartSave, Save, TypeOK
  <2>3. CASE StartChange(p) \/ StartCleanup(p) \/ StartDestroy(p)
        BY <2>3 DEF StartChange, StartCleanup, StartDestroy
  <2> QED BY <2>1, <2>2, <2>3 DEF Begin
<1>4. \A q \in Procs : ~Done(q)
  <2>1. \A q \in Procs : job[q] = None BY <1>1, <1>2 DEF TypeOK
  <2> QED BY <2>1 DEF Done, At, Idle
<1>5. \A q \in Procs : StepOK(q)'
  <2>1. StepOK(p)' BY <1>2 DEF StepOK, At
  <2>2. \A q \in Procs \ {p} : job'[q] = None BY <1>1, <1>2 DEF TypeOK
  <2> QED BY <2>1, <2>2, IdleStep
<1> QED BY <1>2, <1>3, <1>4, <1>5, StoreStays

\* An operation that is not at a step that StepOK speaks of.
LEMMA FreeStep ==
  ASSUME NEW p \in Procs,
         job'[p] = None \/ job'[p].step \in {"rewrite", "file", "broken"}
  PROVE  StepOK(p)'
BY DEF StepOK, At, Idle

\* The steps that change the memory of the process alone, up to NameFile.
LEMMA WorkKept ==
  ASSUME KeptInv, NEW p \in Procs, TypeInv',
         Rewrite(p) \/ GiveUp(p) \/ Sweep(p) \/ SweepFails(p) \/ NameFile(p)
           \/ RenameFails(p)
  PROVE  KeptInv'
<1>1. TypeInv /\ TypeOK /\ job[p] # None /\ ~Done(p)
      BY DEF KeptInv, TypeInv, Rewrite, GiveUp, Sweep, SweepFails, NameFile,
             RenameFails, At, Idle, Done
<1>2. UNCHANGED <<index, origin, placed, whole>> /\ files \subseteq files'
      BY DEF Rewrite, GiveUp, Sweep, SweepFails, NameFile, RenameFails,
             store, history
<1>3. \A q \in Procs \ {p} : job[q] = None /\ ~Done(q)
      BY <1>1, Alone DEF Done, At, Idle
<1>4. job \in [Procs -> Jobs \cup {None}] /\ job[p] \in Jobs
      /\ handle \in [Procs -> Handles \cup {None}]
      BY <1>1, JobIs DEF TypeOK
<1>5. \A q \in Procs : handle'[q] # None =>
        /\ handle[q] # None
        /\ handle'[q].id = handle[q].id /\ handle'[q].old = handle[q].old
        /\ handle'[q].booked => handle[q].booked
  <2>1. CASE Rewrite(p) \/ Sweep(p) \/ SweepFails(p)
        BY <2>1 DEF Rewrite, Sweep, SweepFails
  <2>2. CASE handle' = handle \/ handle' = [handle EXCEPT ![p] = None]
        BY <1>4, <2>2
  <2>3. CASE Saving(p) /\ handle' = [handle EXCEPT ![p].booked = FALSE]
    <3>1. handle[p] \in Handles /\ handle[p] # None BY <1>1, <2>3, JobIs
    <3> QED BY <1>4, <2>3, <3>1 DEF Handles
  <2>4. CASE NameFile(p)
    <3>1. handle' = [handle EXCEPT ![p].saved = TRUE] BY <2>4 DEF NameFile
    <3>2. JobOK(p) BY <1>1 DEF TypeInv
    <3>3. Saving(p) BY <1>1, <2>4, <3>2 DEF NameFile, JobOK, AtOp, Saving
    <3>4. handle[p] \in Handles /\ handle[p] # None BY <1>1, <3>3, JobIs
    <3> QED BY <1>4, <3>1, <3>4 DEF Handles
  <2> QED BY <2>1, <2>2, <2>3, <2>4 DEF GiveUp, RenameFails, Forget
<1>6. \A q \in Procs \ {p} : job'[q] = None
  <2>1. CASE GiveUp(p) \/ RenameFails(p)
        BY <1>1, <2>1, FinishIs DEF GiveUp, RenameFails
  <2>2. CASE NameFile(p) BY <1>3, <1>4, <2>2 DEF NameFile, Proceed
  <2>3. CASE Rewrite(p) BY <1>3, <1>4, <2>3 DEF Rewrite
  <2>4. CASE Sweep(p) BY <1>3, <1>4, <2>4 DEF Sweep
  <2>5. CASE SweepFails(p) BY <1>3, <1>4, <2>5 DEF SweepFails
  <2> QED BY <2>1, <2>2, <2>3, <2>4, <2>5
<1>7. StepOK(p)'
  <2>1. CASE GiveUp(p) \/ RenameFails(p)
    <3>1. job'[p] = None BY <1>1, <2>1, FinishIs DEF GiveUp, RenameFails
    <3> QED BY <3>1, IdleStep
  <2>2. CASE NameFile(p)
    <3>1. JobOK(p) BY <1>1 DEF TypeInv
    <3>2. Op(p) = "commit" /\ Saving(p)
          BY <2>2, <3>1 DEF NameFile, JobOK, AtOp, Saving
    <3>3. job[p].id \in files' BY <1>1, <2>2, <3>2, JobIs DEF NameFile
    <3>4. job'[p].step = "index" /\ job'[p].id = job[p].id /\ job'[p].op = job[p].op
          BY <1>4, <2>2 DEF NameFile, Proceed, Jobs
    <3> QED BY <3>2, <3>3, <3>4 DEF StepOK, At, Op
  <2>3. CASE Rewrite(p)
    <3>1. job'[p].op = job[p].op
          /\ job'[p].step = IF Op(p) = "commit" THEN "file" ELSE "index"
          BY <1>4, <2>3 DEF Rewrite, Jobs
    <3>2. Op(p)' = Op(p) /\ Op(p) # "cleanup" BY <2>3, <3>1 DEF Op, Rewrite
    <3> QED BY <3>1, <3>2 DEF StepOK, At
  <2>4. CASE Sweep(p)
    <3>1. PICK kept \in Swept :
            job' = [job EXCEPT ![p].newindex = kept, ![p].noted = Ids(kept),
                               ![p].step = "index"]
          BY <2>4 DEF Sweep
    <3>2. job'[p].op = job[p].op /\ job'[p].step = "index" /\ job'[p].newindex = kept
          BY <1>4, <3>1 DEF Jobs
    <3>3. Op(p)' = Op(p) /\ Op(p) = "cleanup" BY <2>4, <3>2 DEF Op, Sweep
    <3>4. PICK aged : kept = Select(index, {r \in ToSet(index) : Keeps(r, aged)})
          BY DEF Swept
    <3> DEFINE keep == {r \in ToSet(index) : Keeps(r, aged)}
    <3>5. ToSet(kept) = ToSet(index) \cap keep
      <4>1. IsIndex(index) /\ kept = Select(index, keep) BY <1>1, <3>4 DEF TypeOK
      <4> HIDE DEF keep
      <4> QED BY <4>1, SelectIndex
    <3>6. \A r \in ToSet(index) : r.booked \/ r.id \notin files \/ Expired(r)
                                    \/ r \in ToSet(kept)
          BY <3>5 DEF Keeps
    <3>7. UNCHANGED <<index, files, past>> BY <2>4 DEF Sweep, store
    <3>8. \A r \in ToSet(index)' : r.booked \/ r.id \notin files' \/ Expired(r)'
                                     \/ r \in ToSet(job'[p].newindex)
          BY <3>2, <3>6, <3>7 DEF Expired, ToSet
    <3> QED BY <3>2, <3>3, <3>8 DEF StepOK, At, ToSet
  <2>5. CASE SweepFails(p)
    <3>1. job'[p].step = "broken" BY <1>4, <2>5 DEF SweepFails, Jobs
    <3> QED BY <3>1, FreeStep
  <2> QED BY <2>1, <2>2, <2>3, <2>4, <2>5
<1>8. \A q \in Procs : StepOK(q)' BY <1>6, <1>7, IdleStep
<1> QED BY <1>1, <1>2, <1>3, <1>5, <1>8, StoreStays

\* Time passes, and processes die.
LEMMA OutsideKept ==
  ASSUME KeptInv, TypeInv', Tick \/ UNCHANGED vars \/ \E p \in Procs : Kill(p)
  PROVE  KeptInv'
<1>1. TypeInv /\ TypeOK BY DEF KeptInv, TypeInv
<1>2. UNCHANGED <<index, origin, placed, whole, files, used>>
      BY DEF Tick, Kill, vars, store, history
<1>3. \A q \in Procs :
        \/ handle'[q] = None /\ job'[q] = None
        \/ handle'[q] = handle[q] /\ job'[q] = job[q]
  <2>1. CASE Tick \/ UNCHANGED vars BY <2>1 DEF Tick, vars
  <2>2. ASSUME NEW p \in Procs, Kill(p)
        PROVE  \A q \in Procs :
                 \/ handle'[q] = None /\ job'[q] = None
                 \/ handle'[q] = handle[q] /\ job'[q] = job[q]
        BY <1>1, <2>2 DEF Kill, TypeOK
  <2> QED BY <2>1, <2>2
<1>4. \A r \in ToSet(index) : Expired(r) => Expired(r)'
  <2>1. \A r \in ToSet(index) : \A s \in r.times : s \in Int
    <3>1. \A r \in ToSet(index) : r \in Lines BY <1>1, IndexLines DEF TypeOK
    <3>2. \A t \in Times : \A s \in t : s \in Int
          BY TimesAssumption, BoundsAssumption
    <3> QED BY <3>1, <3>2 DEF Lines
  <2>2. past' \in Int /\ past \in Int /\ past <= past'
    <3>1. past \in Int BY <1>1, BoundsAssumption DEF TypeOK
    <3> QED BY <3>1 DEF Tick, Kill, vars
  <2> QED BY <2>1, <2>2 DEF Expired
<1>5. ASSUME NEW q \in Procs PROVE StepOK(q)' /\ (handle'[q] # None => Done(q)' = Done(q))
  <2>1. CASE handle'[q] = None /\ job'[q] = None BY <2>1, IdleStep
  <2>2. CASE handle'[q] = handle[q] /\ job'[q] = job[q]
    <3>1. StepOK(q) BY DEF KeptInv
    <3>2. Op(q)' = Op(q) /\ (\A s : At(q, s)' = At(q, s)) BY <2>2 DEF Op, At, Idle
    <3>3. ToSet(index)' = ToSet(index) /\ Ids(index)' = Ids(index)
          /\ ToSet(job[q].newindex)' = ToSet(job[q].newindex)
          BY <1>2, <2>2 DEF ToSet, Ids
    <3>4. StepOK(q)' BY <1>2, <1>4, <2>2, <3>1, <3>2, <3>3 DEF StepOK
    <3> QED BY <3>2, <3>4 DEF Done
  <2> QED BY <1>3, <2>1, <2>2
<1> QED BY <1>2, <1>3, <1>5, StoreStays

\* Handles whose events keep their lines, or lose them, and are not committed.
LEMMA UnlinkOldKept ==
  ASSUME KeptInv, NEW p \in Procs, UnlinkOld(p), TypeInv'
  PROVE  KeptInv'
<1>1. /\ job[p] # None /\ job[p].step = "unlink" /\ Finish(p)
      /\ files' = files \ job[p].noted
      /\ UNCHANGED <<index, origin, placed, whole>>
      BY DEF UnlinkOld, At, Idle, history
<1>2. TypeInv /\ TypeOK /\ StepOK(p) BY DEF KeptInv, TypeInv
<1>3. job[p].noted \cap (Ids(index) \cup placed) = {}
      BY <1>1, <1>2 DEF StepOK, At, Idle
<1>4. \A r \in ToSet(index) : r.id \in Ids(index) BY <1>2, IndexLines DEF TypeOK
<1>5. FilesOK' BY <1>1, <1>3, <1>4 DEF KeptInv, FilesOK, ToSet
<1>6. PlacedOK'
  <2>1. ToSet(index)' = ToSet(index) BY <1>1 DEF ToSet
  <2> QED BY <1>1, <1>3, <2>1 DEF KeptInv, PlacedOK
<1>7. \A q \in Procs : job'[q] = None BY <1>1, <1>2, FinishIs
<1>8. \A q \in Procs : StepOK(q)' BY <1>7, IdleStep
<1>9. ASSUME NEW q \in Procs PROVE BookingOK(q)'
  <2>1. BookingOK(q) BY DEF KeptInv
  <2>2. ToSet(index)' = ToSet(index) BY <1>1 DEF ToSet
  <2>3. handle'[q] # None => handle'[q] = handle[q] /\ ~Done(q)
    <3>1. CASE q # p
      <4>1. job[q] = None BY <1>1, <1>2, <3>1, Alone
      <4>2. handle'[q] = handle[q] BY <3>1, <1>2 DEF UnlinkOld, Forget, TypeOK
      <4> QED BY <4>1, <4>2 DEF Done, At, Idle
    <3>2. CASE q = p
          BY <1>2, <3>2 DEF UnlinkOld, Forget, Done, TypeOK
    <3> QED BY <3>1, <3>2
  <2> QED BY <1>1, <2>1, <2>2, <2>3 DEF BookingOK
<1> QED BY <1>5, <1>6, <1>8, <1>9 DEF KeptInv

\* cleanup unlinks no file that has a line.
LEMMA ScanKept ==
  ASSUME KeptInv, NEW p \in Procs, Scan(p), TypeInv'
  PROVE  KeptInv'
<1>1. /\ job[p] # None /\ job[p].step = "scan"
      /\ UNCHANGED <<index, handle, origin, placed, whole>>
      /\ Finish(p) \/ Proceed(p, "scan")
      BY DEF Scan, At, Idle, history
<1>2. TypeInv /\ TypeOK /\ StepOK(p) /\ JobOK(p) BY DEF KeptInv, TypeInv
<1>3. job[p].noted = Ids(index) BY <1>1, <1>2 DEF StepOK, At, Idle
<1>4. Ids(index) \cap files \subseteq files' BY <1>3 DEF Scan
<1>5. \A r \in ToSet(index) : r.id \in Ids(index) BY <1>2, IndexLines DEF TypeOK
<1>6. ToSet(index)' = ToSet(index) /\ Ids(index)' = Ids(index)
      BY <1>1 DEF ToSet, Ids
<1>7. FilesOK' BY <1>4, <1>5, <1>6 DEF KeptInv, FilesOK
<1>8. PlacedOK'
  <2>1. PlacedOK BY DEF KeptInv
  <2>2. whole => \A e \in placed : e \in Ids(index) BY <1>5, <2>1 DEF PlacedOK
  <2> QED BY <1>1, <1>4, <1>6, <2>1, <2>2 DEF PlacedOK
<1>9. \A q \in Procs \ {p} : job[q] = None BY <1>1, <1>2, Alone
<1>10. \A q \in Procs \ {p} : job'[q] = None
  <2>1. Finish(p) => \A q \in Procs : job'[q] = None BY <1>1, <1>2, FinishIs
  <2>2. Proceed(p, "scan") => \A q \in Procs \ {p} : job'[q] = None
        BY <1>2, <1>9 DEF Proceed, TypeOK
  <2> QED BY <1>1, <2>1, <2>2
<1>11. StepOK(p)'
  <2>1. CASE Finish(p)
    <3>1. job'[p] = None BY <1>1, <1>2, <2>1, FinishIs
    <3> QED BY <3>1, IdleStep
  <2>2. CASE Proceed(p, "scan")
    <3>1. job[p] \in Jobs /\ job' = [job EXCEPT ![p].step = "scan"]
          BY <1>1, <1>2, <2>2, JobIs DEF Proceed
    <3>2. job'[p].step = "scan" /\ job'[p].noted = job[p].noted
          BY <1>2, <3>1 DEF TypeOK, Jobs
    <3> QED BY <1>3, <1>6, <3>2 DEF StepOK, At
  <2> QED BY <1>1, <2>1, <2>2
<1>12. \A q \in Procs : StepOK(q)' BY <1>10, <1>11, IdleStep
<1>13. ASSUME NEW q \in Procs PROVE BookingOK(q)'
  <2>1. BookingOK(q) BY DEF KeptInv
  <2>2. ~Done(q)
    <3>1. ~Done(p) BY <1>1 DEF Done, At
    <3> QED BY <1>9, <3>1 DEF Done, At, Idle
  <2> QED BY <1>1, <1>6, <2>1, <2>2 DEF BookingOK
<1> QED BY <1>7, <1>8, <1>12, <1>13 DEF KeptInv

\* After a failed write the lines that are left have their files.
LEMMA InstallBrokenKept ==
  ASSUME KeptInv, NEW p \in Procs, InstallBroken(p), TypeInv'
  PROVE  KeptInv'
<1>1. /\ job[p] # None /\ job[p].step = "broken" /\ Finish(p)
      /\ index' = job[p].newindex /\ whole' = FALSE
      /\ UNCHANGED <<files, handle, origin, placed>>
      BY DEF InstallBroken, At, Idle
<1>2. TypeInv /\ JobOK(p) BY DEF KeptInv, TypeInv
<1>3. ToSet(index)' \subseteq ToSet(index)
  <2>1. Op(p) = "cleanup" BY <1>1, <1>2 DEF JobOK, AtOp, At, Idle
  <2>2. ToSet(job[p].newindex) \subseteq ToSet(index) BY <1>1, <1>2, <2>1 DEF JobOK
  <2> QED BY <1>1, <2>2 DEF ToSet
<1>4. FilesOK' BY <1>1, <1>3 DEF KeptInv, FilesOK
<1>5. PlacedOK' BY <1>1 DEF PlacedOK
<1>6. \A q \in Procs : job'[q] = None BY <1>1, <1>2, FinishIs
<1>7. \A q \in Procs : StepOK(q)' BY <1>6, IdleStep
<1>8. ASSUME NEW q \in Procs PROVE BookingOK(q)'
  <2>1. BookingOK(q) BY DEF KeptInv
  <2>2. ~Done(q)
    <3>1. \A z \in Procs : z # p => job[z] = None BY <1>1, <1>2, Alone
    <3> QED BY <1>1, <3>1 DEF Done, At, Idle
  <2> QED BY <1>1, <1>3, <2>1, <2>2 DEF BookingOK
<1> QED BY <1>4, <1>5, <1>7, <1>8 DEF KeptInv

\* The line that an operation writes for its event.
LEMMA WrittenIs ==
  ASSUME KeptInv, NEW p \in Procs, job[p] # None, job[p].step = "index",
         Op(p) # "cleanup", NEW w \in Written(p)
  PROVE  /\ w.id = job[p].id
         /\ Op(p) = "book" => w.booked
         /\ Op(p) = "commit" => ~w.booked /\ job[p].id \in files
         /\ ~Saving(p) => /\ Op(p) \in {"cancel", "uncancel"}
                          /\ Line(index, job[p].id) \in ToSet(index)
                          /\ Line(index, job[p].id).id = job[p].id
                          /\ w.booked = Line(index, job[p].id).booked
                          /\ w.times = Line(index, job[p].id).times
                          /\ w.cancelled = (Op(p) = "cancel")
<1>1. TypeInv /\ StepOK(p) /\ IsIndex(index) BY DEF KeptInv, TypeInv, TypeOK
<1>2. Amended(p, job[p].newindex) /\ (~Saving(p) => Has(index, job[p].id))
      BY <1>1, NewIndexIs
<1>3. w.id = job[p].id BY <1>2 DEF Amended
<1>4. Op(p) \in AllOps BY <1>1, JobIs DEF Jobs, Op
<1>5. CASE Op(p) = "book"
  <2>1. w = NewLine(p) /\ Saving(p) BY <1>5 DEF Written, Saving
  <2>2. w.booked BY <1>1, <1>5, <2>1, NewLineIs DEF Booking
  <2> QED BY <1>3, <1>5, <2>1, <2>2
<1>6. CASE Op(p) = "commit"
  <2>1. w = Final(p) /\ Saving(p) BY <1>6 DEF Written, Saving
  <2>2. job[p].id \in files BY <1>1, <1>6 DEF StepOK, At, Idle
  <2>3. ~w.booked
    <3>1. CASE Own(p) = {}
      <4>1. w = NewLine(p) BY <2>1, <3>1 DEF Final
      <4> QED BY <1>1, <1>6, <2>1, <4>1, NewLineIs DEF Booking
    <3>2. CASE Own(p) # {}
      <4>1. w = [Line(index, handle[p].id) EXCEPT !.booked = FALSE]
            BY <2>1, <3>2 DEF Final
      <4>2. Has(index, handle[p].id) BY <3>2 DEF Own
      <4>3. Line(index, handle[p].id) \in Lines BY <1>1, <4>2, LineIs
      <4> QED BY <4>1, <4>3 DEF Lines
    <3> QED BY <3>1, <3>2
  <2> QED BY <1>3, <1>6, <2>1, <2>2, <2>3
<1>7. CASE Op(p) \in {"delete", "destroy"}
  <2>1. Written(p) = {} BY <1>7 DEF Written
  <2> QED BY <2>1
<1>8. CASE Op(p) \in {"cancel", "uncancel"}
  <2>1. ~Saving(p) BY <1>8 DEF Saving
  <2>2. w = [Line(index, job[p].id) EXCEPT !.cancelled = (Op(p) = "cancel")]
        BY <1>8 DEF Written
  <2>3. /\ Line(index, job[p].id) \in ToSet(index)
        /\ Line(index, job[p].id).id = job[p].id
        /\ Line(index, job[p].id) \in Lines
        BY <1>1, <1>2, <2>1, LineIs
  <2> QED BY <1>3, <1>8, <2>1, <2>2, <2>3 DEF Lines
<1> QED BY <1>4, <1>5, <1>6, <1>7, <1>8 DEF AllOps

\* What the new index says is in place: the files of its lines, the lines of what
\* was committed, and the bookings of the other processes.
LEMMA InstallKept ==
  ASSUME KeptInv, NEW p \in Procs, Install(p), TypeInv'
  PROVE  KeptInv'
<1> DEFINE e == job[p].id
<1>1. /\ job[p] # None /\ job[p].step = "index"
      /\ index' = job[p].newindex
      /\ handle' = CASE Op(p) = "book" -> [handle EXCEPT ![p].booked = TRUE]
                     [] Op(p) = "commit" -> [handle EXCEPT ![p].booked = FALSE]
                     [] OTHER -> handle
      /\ AfterInstall(p) /\ Promise(p)
      /\ UNCHANGED <<files, past, ops>>
      BY DEF Install, At, Idle
<1>2. TypeInv /\ TypeOK /\ JobOK(p) /\ StepOK(p) /\ BookingOK(p)
      /\ FilesOK /\ PlacedOK
      BY DEF KeptInv, TypeInv
<1>3. IsIndex(index) /\ IsIndex(index') BY <1>1, <1>2 DEF TypeOK
<1>4. Op(p) \in AllOps BY <1>1, <1>2, JobIs DEF Jobs, Op
<1>5. Saving(p) => /\ handle[p] \in Handles /\ handle[p] # None
                   /\ handle[p].id = e /\ handle[p].old # e
      BY <1>1, <1>2, JobIs
<1>6. ~Done(p) BY <1>1 DEF Done, At
<1>7. /\ Op(p) = "cleanup" => /\ ToSet(index') \subseteq ToSet(index)
                              /\ job[p].noted = Ids(index')
                              /\ \A r \in ToSet(index) :
                                   r.booked \/ r.id \notin files \/ Expired(r)
                                     \/ r \in ToSet(index')
      BY <1>1, <1>2 DEF JobOK, StepOK, At, Idle
<1>8. Op(p) # "cleanup" =>
        /\ Amended(p, index') /\ job[p].noted = Doomed(p) /\ e \in Events
      BY <1>1, <1>2, NewIndexIs, JobIs
<1>9. \A w \in Written(p) : Op(p) # "cleanup" =>
        /\ w.id = e
        /\ Op(p) = "book" => w.booked
        /\ Op(p) = "commit" => ~w.booked /\ e \in files
        /\ ~Saving(p) => /\ Op(p) \in {"cancel", "uncancel"}
                         /\ Line(index, e) \in ToSet(index) /\ Line(index, e).id = e
                         /\ w.booked = Line(index, e).booked
      BY <1>1, WrittenIs
<1>10. Op(p) # "cleanup" =>
         /\ \A r \in ToSet(index') : r \in Written(p) \/
              \E q \in ToSet(index) : q.id \notin Touched(p) /\ Alike(q, r)
         /\ \A q \in ToSet(index) : q.id \notin Touched(p) =>
              \E r \in ToSet(index') : Alike(q, r)
         /\ Written(p) \subseteq ToSet(index')
       BY <1>8 DEF Amended
<1>11. /\ e \in Touched(p)
       /\ Op(p) = "commit" => Touched(p) = {e, handle[p].old}
       /\ Op(p) # "commit" => Touched(p) = {e}
       BY DEF Touched
<1>12. /\ placed' = CASE Op(p) = "commit" -> (placed \cup {e}) \ {handle[p].old}
                      [] Op(p) \in {"delete", "destroy"} -> placed \ {e}
                      [] Op(p) = "cleanup" ->
                           placed \ {r.id : r \in {l \in ToSet(index) : Expired(l)}}
                      [] OTHER -> placed
       /\ origin' = CASE Op(p) = "book" -> [origin EXCEPT ![e] = handle[p].old]
                      [] Op(p) = "commit" -> [origin EXCEPT ![e] = None]
                      [] OTHER -> origin
       /\ whole' = whole /\ used' = used
       BY <1>1 DEF Promise, Expired
<1>13. ToSet(index)' = ToSet(index') /\ Ids(index)' = Ids(index') BY DEF ToSet, Ids
<1>14. Saving(p) <=> Op(p) \in {"book", "commit"} BY DEF Saving
<1>15. /\ Ids(index) = {r.id : r \in ToSet(index)}
       /\ Ids(index') = {r.id : r \in ToSet(index')}
       /\ \A r, o \in ToSet(index) : r.id = o.id => r = o
       BY <1>3, IndexLines
<1> HIDE DEF e
<1>16. FilesOK'
  <2> SUFFICES ASSUME NEW r \in ToSet(index') PROVE r.booked \/ r.id \in files
      BY <1>1, <1>13 DEF FilesOK
  <2>1. CASE Op(p) = "cleanup" BY <1>2, <1>7, <2>1 DEF FilesOK
  <2>2. CASE Op(p) # "cleanup"
    <3>1. CASE r \in Written(p)
      <4>1. CASE Saving(p) BY <1>9, <1>14, <2>2, <3>1, <4>1
      <4>2. CASE ~Saving(p) BY <1>2, <1>9, <2>2, <3>1, <4>2 DEF FilesOK
      <4> QED BY <4>1, <4>2
    <3>2. CASE r \notin Written(p)
      <4>1. PICK q \in ToSet(index) : Alike(q, r) BY <1>10, <2>2, <3>2
      <4> QED BY <1>2, <4>1 DEF FilesOK, Alike
    <3> QED BY <3>1, <3>2
  <2> QED BY <2>1, <2>2
<1>17. PlacedOK'
  <2> SUFFICES ASSUME whole, NEW x \in placed'
               PROVE  x \in files /\ \E r \in ToSet(index') : r.id = x /\ ~r.booked
      BY <1>1, <1>12, <1>13 DEF PlacedOK
  <2>1. x \in placed =>
          x \in files /\ \E r \in ToSet(index) : r.id = x /\ ~r.booked
        BY <1>2 DEF PlacedOK
  <2>2. CASE Op(p) = "cleanup"
    <3>1. x \in placed /\ \A l \in ToSet(index) : Expired(l) => l.id # x
          BY <1>12, <2>2
    <3>2. PICK r \in ToSet(index) : r.id = x /\ ~r.booked BY <2>1, <3>1
    <3>3. r \in ToSet(index') BY <1>7, <2>1, <2>2, <3>1, <3>2
    <3> QED BY <2>1, <3>1, <3>2, <3>3
  <2>3. CASE Op(p) # "cleanup" /\ x \notin Touched(p)
    <3>1. x \in placed BY <1>11, <1>12, <2>3
    <3>2. PICK q \in ToSet(index) : q.id = x /\ ~q.booked BY <2>1, <3>1
    <3>3. PICK r \in ToSet(index') : Alike(q, r) BY <1>10, <2>3, <3>2
    <3> QED BY <2>1, <3>1, <3>2, <3>3 DEF Alike
  <2>4. CASE Op(p) = "commit" /\ x \in Touched(p)
    <3>1. x = e BY <1>11, <1>12, <2>4
    <3>2. PICK w : w \in Written(p) BY <2>4 DEF Written
    <3> QED BY <1>9, <1>10, <2>4, <3>1, <3>2
  <2>5. CASE Op(p) \in {"delete", "destroy"} /\ x \in Touched(p)
        BY <1>11, <1>12, <2>5
  <2>6. CASE Op(p) = "book" /\ x \in Touched(p)
    <3>1. x \in placed /\ x = e BY <1>11, <1>12, <2>6
    <3>2. handle[p].id \notin placed BY <1>2, <1>5, <1>6, <1>14, <2>6 DEF BookingOK
    <3> QED BY <1>5, <1>14, <2>6, <3>1, <3>2
  <2>7. CASE Op(p) \in {"cancel", "uncancel"} /\ x \in Touched(p)
    <3>1. x \in placed /\ x = e BY <1>11, <1>12, <2>7
    <3>2. PICK w : w \in Written(p) BY <2>7 DEF Written
    <3>3. ~Saving(p) /\ Op(p) # "cleanup" BY <1>14, <2>7
    <3>4. PICK q \in ToSet(index) : q.id = x /\ ~q.booked BY <2>1, <3>1
    <3>5. q = Line(index, e) BY <1>9, <1>15, <3>1, <3>2, <3>3, <3>4
    <3> QED BY <1>9, <1>10, <2>1, <3>1, <3>2, <3>3, <3>4, <3>5
  <2> QED BY <1>4, <2>2, <2>3, <2>4, <2>5, <2>6, <2>7 DEF AllOps
<1>18. /\ handle \in [Procs -> Handles \cup {None}]
       /\ \A q \in Procs \ {p} : handle'[q] = handle[q]
       /\ ~Saving(p) => handle'[p] = handle[p]
       /\ Saving(p) => /\ handle'[p].id = handle[p].id
                       /\ handle'[p].old = handle[p].old
       /\ Op(p) = "commit" => ~handle'[p].booked
  <2>1. handle \in [Procs -> Handles \cup {None}] BY <1>2 DEF TypeOK
  <2>2. CASE Op(p) = "book"
    <3>1. handle' = [handle EXCEPT ![p].booked = TRUE] BY <1>1, <2>2
    <3> QED BY <1>5, <1>14, <2>1, <2>2, <3>1 DEF Handles
  <2>3. CASE Op(p) = "commit"
    <3>1. handle' = [handle EXCEPT ![p].booked = FALSE] BY <1>1, <2>3
    <3> QED BY <1>5, <1>14, <2>1, <2>3, <3>1 DEF Handles
  <2>4. CASE ~Saving(p)
    <3>1. handle' = handle BY <1>1, <1>14, <2>4
    <3> QED BY <1>14, <2>1, <2>4, <3>1
  <2> QED BY <1>14, <2>2, <2>3, <2>4
<1>19. /\ Lone'
       /\ \A q \in Procs \ {p} : job[q] = None /\ job'[q] = None
                                   /\ ~Done(q)' /\ ~Done(q)
       /\ job'[p] # None =>
            /\ Op(p) \in {"cleanup", "commit", "delete", "destroy"}
            /\ job'[p].step = IF Op(p) = "cleanup" THEN "scan" ELSE "unlink"
            /\ job'[p].noted = job[p].noted
            /\ job'[p].op = job[p].op
       /\ Op(p) = "commit" => Proceed(p, "unlink")
       BY <1>1, <1>2, AfterIs
<1>20. ASSUME NEW q \in Procs, q # p \/ ~Saving(p), handle[q] # None
       PROVE  /\ handle[q].booked => \A r \in ToSet(index') :
                   r.id = handle[q].id => r.booked /\ origin'[r.id] = handle[q].old
              /\ handle[q].id \notin placed'
  <2>1. BookingOK(q) /\ HandleOK(q) /\ ~Done(q)
        BY <1>6, <1>19 DEF KeptInv, TypeInv
  <2>2. Saving(p) => handle[q].id # e BY <1>5, <1>20, <2>1 DEF HandleOK
  <2>3. handle[q].id \notin placed'
    <3>1. handle[q].id \notin placed BY <1>20, <2>1 DEF BookingOK
    <3>2. placed' \subseteq placed \cup (IF Saving(p) THEN {e} ELSE {})
          BY <1>12, <1>14
    <3> QED BY <2>2, <3>1, <3>2
  <2>4. ASSUME handle[q].booked, NEW r \in ToSet(index'), r.id = handle[q].id
        PROVE  r.booked /\ origin'[r.id] = handle[q].old
    <3>1. \A o \in ToSet(index) : o.id = r.id =>
            o.booked /\ origin[r.id] = handle[q].old
          BY <1>20, <2>1, <2>4 DEF BookingOK
    <3>2. origin'[r.id] = origin[r.id]
      <4>1. origin \in [Events -> Events \cup {None}] BY <1>2 DEF TypeOK
      <4>2. ~Saving(p) => origin' = origin BY <1>12, <1>14
      <4> QED BY <1>12, <1>14, <2>2, <2>4, <4>1, <4>2
    <3>3. CASE Op(p) = "cleanup" BY <1>7, <3>1, <3>2, <3>3
    <3>4. CASE Op(p) # "cleanup" /\ r \in Written(p)
      <4>1. ~Saving(p) BY <1>9, <2>2, <2>4, <3>4
      <4> QED BY <1>9, <3>1, <3>2, <3>4, <4>1
    <3>5. CASE Op(p) # "cleanup" /\ r \notin Written(p)
      <4>1. PICK o \in ToSet(index) : Alike(o, r) BY <1>10, <3>5
      <4> QED BY <3>1, <3>2, <4>1 DEF Alike
    <3> QED BY <3>3, <3>4, <3>5
  <2> QED BY <2>3, <2>4
<1>21. ASSUME NEW q \in Procs PROVE BookingOK(q)'
  <2>1. CASE q # p \/ ~Saving(p)
    <3>1. handle'[q] = handle[q] BY <1>18, <2>1
    <3> QED BY <1>13, <1>20, <2>1, <3>1 DEF BookingOK
  <2>2. CASE q = p /\ Op(p) = "book"
    <3>1. /\ handle'[p].id = e /\ handle'[p].old = handle[p].old
          /\ handle[p] # None /\ Saving(p) /\ e \in Events
          BY <1>5, <1>8, <1>14, <1>18, <2>2
    <3>2. e \notin placed' BY <1>2, <1>5, <1>6, <1>12, <2>2, <3>1 DEF BookingOK
    <3>3. origin'[e] = handle[p].old BY <1>2, <1>12, <2>2, <3>1 DEF TypeOK
    <3>4. ASSUME NEW r \in ToSet(index'), r.id = e PROVE r.booked
      <4>1. r \in Written(p)
        <5>1. \A o \in ToSet(index) : Alike(o, r) => o.id \in Touched(p)
              BY <1>11, <3>4 DEF Alike
        <5> QED BY <1>10, <2>2, <5>1
      <4> QED BY <1>9, <2>2, <4>1
    <3> QED BY <1>13, <2>2, <3>1, <3>2, <3>3, <3>4 DEF BookingOK
  <2>3. CASE q = p /\ Op(p) = "commit"
    <3>1. Proceed(p, "unlink") BY <1>19, <2>3
    <3>2. job'[p] # None
      <4>1. "unlink" \in Steps BY DEF Steps
      <4> QED BY <1>1, <1>2, <3>1, <4>1, ProceedIs
    <3>3. Done(p)' BY <1>19, <2>3, <3>2 DEF Done, At, Idle, Op
    <3> QED BY <1>18, <2>3, <3>3 DEF BookingOK
  <2> QED BY <1>14, <2>1, <2>2, <2>3
<1>22. StepOK(p)'
  <2>1. CASE job'[p] = None BY <2>1, IdleStep
  <2>2. CASE job'[p] # None /\ Op(p) = "cleanup"
    <3>1. job'[p].step = "scan" /\ job'[p].noted = Ids(index') BY <1>7, <1>19, <2>2
    <3> QED BY <1>13, <3>1 DEF StepOK, At
  <2>3. CASE job'[p] # None /\ Op(p) \in {"commit", "delete", "destroy"}
    <3>1. job'[p].step = "unlink" /\ job'[p].noted = Doomed(p) /\ Op(p) # "cleanup"
          BY <1>8, <1>19, <2>3
    <3>2. \A r \in ToSet(index') : r \in Written(p) \/ r.id \notin Touched(p)
          BY <1>10, <3>1 DEF Alike
    <3>3. CASE Op(p) = "commit"
      <4>1. Doomed(p) \subseteq {handle[p].old} BY <3>3 DEF Doomed
      <4>2. handle[p].old # e /\ handle[p].old \in Touched(p)
            BY <1>5, <1>11, <1>14, <3>3
      <4>3. \A r \in ToSet(index') : r.id # handle[p].old
            BY <1>9, <3>1, <3>2, <4>2
      <4>4. handle[p].old \notin Ids(index') BY <1>15, <4>3
      <4>5. handle[p].old \notin placed' BY <1>12, <3>3
      <4> QED BY <1>13, <3>1, <4>1, <4>4, <4>5 DEF StepOK, At
    <3>4. CASE Op(p) \in {"delete", "destroy"}
      <4>1. Doomed(p) \subseteq {e} BY <3>4 DEF Doomed, e
      <4>2. Written(p) = {} BY <3>4 DEF Written
      <4>3. \A r \in ToSet(index') : r.id # e BY <1>11, <3>2, <4>2
      <4>4. e \notin Ids(index') BY <1>15, <4>3
      <4>5. e \notin placed' BY <1>12, <3>4
      <4> QED BY <1>13, <3>1, <4>1, <4>4, <4>5 DEF StepOK, At
    <3> QED BY <2>3, <3>3, <3>4
  <2> QED BY <1>19, <2>1, <2>2, <2>3
<1>23. \A q \in Procs : StepOK(q)' BY <1>19, <1>22, IdleStep
<1> QED BY <1>16, <1>17, <1>21, <1>23 DEF KeptInv

\* Every step preserves KeptInv.
LEMMA KeptStep == KeptInv /\ [Next]_vars => KeptInv'
<1> SUFFICES ASSUME KeptInv, [Next]_vars PROVE KeptInv' OBVIOUS
<1>1. TypeInv' BY TypeStep DEF KeptInv
<1>2. CASE Tick \/ UNCHANGED vars BY <1>1, <1>2, OutsideKept
<1>3. ASSUME NEW p \in Procs, Begin(p) PROVE KeptInv' BY <1>1, <1>3, BeginKept
<1>4. ASSUME NEW p \in Procs, Work(p) PROVE KeptInv'
      BY <1>1, <1>4, WorkKept, InstallKept, InstallBrokenKept, UnlinkOldKept,
         ScanKept DEF Work
<1>5. ASSUME NEW p \in Procs, Kill(p) PROVE KeptInv' BY <1>1, <1>5, OutsideKept
<1> QED BY <1>2, <1>3, <1>4, <1>5 DEF Next

\* Lines, files and promises agree, as KeptInv says.
THEOREM KeptTheorem == Spec => []KeptInv
<1> QED BY KeptInit, KeptStep, PTL DEF Spec

\* No reader meets a line whose event is committed and has no file.
\* (docommitevent, deleteevent, cleanup, retrevent)
THEOREM FilesTheorem == Spec => []LinesHaveFiles
<1>1. KeptInv => LinesHaveFiles
  <2> SUFFICES ASSUME KeptInv, NEW i \in DOMAIN index
               PROVE  index[i].booked \/ index[i].id \in files
      BY DEF LinesHaveFiles
  <2>1. index[i] \in ToSet(index) BY DEF ToSet
  <2> QED BY <2>1 DEF KeptInv, FilesOK
<1> QED BY <1>1, KeptTheorem, PTL

\* Committed events stay until they are deleted, replaced or expired.
\* (docommitevent, cleanup)
THEOREM CommittedTheorem == Spec => []CommittedStays
<1>1. KeptInv => CommittedStays
  <2> SUFFICES ASSUME KeptInv, whole, NEW e \in placed
               PROVE  /\ e \in files
                      /\ \E i \in DOMAIN index : index[i].id = e /\ ~index[i].booked
      BY DEF CommittedStays
  <2>1. e \in files /\ \E r \in ToSet(index) : r.id = e /\ ~r.booked
        BY DEF KeptInv, PlacedOK
  <2> QED BY <2>1 DEF ToSet
<1> QED BY <1>1, KeptTheorem, PTL

-----------------------------------------------------------------------------
(* Overlaps.                                                               *)

\* NoDoubleBooking, of the set of lines.
Overlap(q, r) ==
  /\ q.id # r.id /\ ~q.cancelled /\ ~r.cancelled
  /\ q.times \cap r.times # {}

Excused == overridden \cup missed

Apart ==
  \A q, r \in ToSet(index) :
    /\ Overlap(q, r) /\ ~Replaces(q, r) /\ ~Replaces(r, q)
    => q.id \in Excused \/ r.id \in Excused

ApartInv == KeptInv /\ Apart

\* What an operation overlaps with unasked, or is let through with, is noted.
LEMMA ClashSeen ==
  ASSUME TypeInv, NEW p \in Procs, Promise(p), Op(p) # "cleanup",
         NEW r \in ToSet(index), r.id # job[p].id,
         Saving(p) => r.id # handle[p].old,
         Conflict(r, IF Saving(p) THEN job[p].times ELSE Line(index, job[p].id).times)
  PROVE  /\ Looks(p) /\ job[p].over => job[p].id \in overridden'
         /\ Op(p) = "uncancel" /\ ~job[p].over => job[p].id \in missed'
<1> DEFINE e == job[p].id
           times == IF Saving(p) THEN job[p].times ELSE Line(index, e).times
           apart == IF Saving(p) THEN {e, handle[p].old} ELSE {e}
           clashes == \E o \in ToSet(Without(index, apart)) : Conflict(o, times)
<1>1. overridden' = overridden \cup
        (IF Looks(p) /\ job[p].over /\ clashes THEN {e} ELSE {})
      BY DEF Promise
<1>2. missed' = missed \cup
        (IF Op(p) = "uncancel" /\ ~job[p].over /\ clashes THEN {e} ELSE {})
      BY DEF Promise
<1>3. r.id \notin apart OBVIOUS
<1>4. IsIndex(index) BY DEF TypeInv, TypeOK
<1>5. clashes
  <2> HIDE DEF apart, times
  <2>1. ToSet(Without(index, apart)) = {o \in ToSet(index) : o.id \notin apart}
        BY <1>4, WithoutIndex
  <2>2. r \in ToSet(Without(index, apart)) BY <1>3, <2>1
  <2>3. Conflict(r, times) BY DEF times
  <2> QED BY <2>2, <2>3
<1> HIDE DEF clashes
<1> QED BY <1>1, <1>2, <1>5

\* An event that is saved without leave overlaps with none but that which it is
\* to replace.  (docommitevent, pcp_is_conflict)
LEMMA SavedApart ==
  ASSUME TypeInv, NEW p \in Procs, job[p] # None, job[p].step = "index",
         Saving(p), ~Refused(p), Looks(p), ~job[p].over,
         NEW r \in ToSet(index), r.id # job[p].id, r.id # handle[p].old
  PROVE  ~Conflict(r, job[p].times)
<1>1. ~Conflicts(p) /\ ~Vanished(p) BY DEF Refused
<1>2. IsIndex(index) BY DEF TypeInv, TypeOK
<1> DEFINE away == Own(p) \cup {handle[p].old}
<1>3. \A o \in ToSet(Without(index, away)) : ~Conflict(o, job[p].times)
      BY <1>1 DEF Conflicts
<1>4. r.id \notin away
  <2>1. r.id \notin Own(p) BY <1>1, OwnIs
  <2> QED BY <2>1
<1> HIDE DEF away
<1>5. r \in ToSet(Without(index, away)) BY <1>2, <1>4, WithoutIndex
<1> QED BY <1>3, <1>5

\* The line that an operation writes, and any other of the new index.
LEMMA WrittenApart ==
  ASSUME ApartInv, NEW p \in Procs, job[p] # None, job[p].step = "index",
         Op(p) # "cleanup", Promise(p),
         NEW w \in Written(p), NEW r \in ToSet(index), r.id \notin Touched(p),
         NEW s, Alike(r, s),
         Overlap(w, s), ~Replaces(w, s)', ~Replaces(s, w)'
  PROVE  w.id \in Excused' \/ s.id \in Excused'
<1> DEFINE e == job[p].id
<1>1. /\ KeptInv /\ TypeInv /\ TypeOK /\ BookingOK(p) /\ Apart /\ IsIndex(index)
      BY DEF ApartInv, KeptInv, TypeInv, TypeOK
<1>2. /\ ~Refused(p) /\ Amended(p, job[p].newindex)
      /\ ~Saving(p) => Has(index, e)
      BY <1>1, NewIndexIs
<1>3. /\ w.id = e
      /\ ~Saving(p) => /\ Op(p) \in {"cancel", "uncancel"}
                       /\ w.times = Line(index, e).times
                       /\ w.cancelled = (Op(p) = "cancel")
      BY <1>1, WrittenIs
<1>4. r.id # e /\ (Op(p) = "commit" => r.id # handle[p].old) BY DEF Touched
<1>5. /\ r.id = s.id /\ r.times = s.times /\ r.booked = s.booked
      /\ r.cancelled = s.cancelled
      BY DEF Alike
<1>6. Overlap(w, r) BY <1>5 DEF Overlap
<1>7. /\ overridden \subseteq overridden' /\ missed \subseteq missed'
      /\ Op(p) = "book" => origin' = [origin EXCEPT ![e] = handle[p].old]
      /\ Op(p) = "commit" => origin' = [origin EXCEPT ![e] = None]
      BY DEF Promise
<1>8. origin \in [Events -> Events \cup {None}] /\ e \in Events
      /\ (Saving(p) => /\ handle[p].id = e /\ handle[p] # None
                       /\ handle[p].old # e)
      BY <1>1, JobIs DEF TypeOK
<1>9. Saving(p) <=> Op(p) \in {"book", "commit"} BY DEF Saving
<1>10. ASSUME Saving(p), Looks(p), w.times = job[p].times, r.id # handle[p].old
       PROVE  e \in overridden'
  <2>1. Conflict(r, job[p].times) BY <1>6, <1>10 DEF Overlap, Conflict
  <2>2. job[p].over BY <1>1, <1>2, <1>4, <1>10, <2>1, SavedApart
  <2> QED BY <1>1, <1>4, <1>10, <2>1, <2>2, ClashSeen
<1>11. CASE Op(p) = "book"
  <2>1. w = NewLine(p) /\ Looks(p) /\ Saving(p)
        BY <1>9, <1>11 DEF Written, Looks, Booking
  <2>2. w.times = job[p].times /\ w.booked
        BY <1>1, <1>11, <2>1, NewLineIs DEF Booking
  <2>3. origin'[e] = handle[p].old BY <1>7, <1>8, <1>11
  <2>4. r.id # handle[p].old BY <1>3, <1>5, <2>2, <2>3 DEF Replaces
  <2> QED BY <1>3, <1>10, <2>1, <2>2, <2>4 DEF Excused
<1>12. CASE Op(p) = "commit" /\ Own(p) = {}
  <2>1. w = NewLine(p) /\ Saving(p) BY <1>9, <1>12 DEF Written, Final
  <2>2. w.times = job[p].times BY <1>1, <2>1, NewLineIs
  <2>3. Looks(p)
    <3>1. ~Vanished(p) BY <1>2, <2>1 DEF Refused
    <3> QED BY <1>12, <2>1, <3>1 DEF Vanished, Looks
  <2> QED BY <1>3, <1>4, <1>10, <1>12, <2>1, <2>2, <2>3 DEF Excused
<1>13. CASE Op(p) = "commit" /\ Own(p) # {}
  <2> DEFINE l == Line(index, e)
  <2>1. Has(index, e) /\ handle[p].booked /\ Saving(p)
        BY <1>8, <1>9, <1>13 DEF Own
  <2>2. l \in ToSet(index) /\ l.id = e /\ l \in Lines BY <1>1, <2>1, LineIs
  <2>3. w = [l EXCEPT !.booked = FALSE]
        BY <1>8, <1>9, <1>13 DEF Written, Final
  <2>4. w.times = l.times /\ w.cancelled = l.cancelled BY <2>2, <2>3 DEF Lines
  <2>5. origin[e] = handle[p].old
        BY <1>1, <1>8, <2>1, <2>2 DEF BookingOK
  <2> HIDE DEF l
  <2>6. Overlap(l, r) BY <1>3, <1>6, <2>2, <2>4 DEF Overlap
  <2>7. ~Replaces(l, r) BY <1>4, <1>13, <2>2, <2>5 DEF Replaces
  <2>8. ~Replaces(r, l)
    <3>1. origin'[r.id] = origin[r.id]
      <4>1. r \in Lines BY <1>1, IndexLines
      <4> QED BY <1>4, <1>7, <1>8, <1>13, <4>1 DEF Lines
    <3> QED BY <1>3, <1>5, <2>2, <3>1 DEF Replaces
  <2>9. l.id \in Excused \/ r.id \in Excused BY <1>1, <2>2, <2>6, <2>7, <2>8 DEF Apart
  <2> QED BY <1>3, <1>5, <1>7, <2>2, <2>9 DEF Excused
<1>14. CASE ~Saving(p)
  <2>1. ~w.cancelled BY <1>6 DEF Overlap
  <2>2. Op(p) = "uncancel" BY <1>3, <1>14, <2>1
  <2>3. Conflict(r, Line(index, e).times)
        BY <1>3, <1>6, <1>14 DEF Overlap, Conflict
  <2>4. Looks(p) BY <2>2 DEF Looks
  <2>5. e \in overridden' \/ e \in missed'
        BY <1>1, <1>4, <1>14, <2>2, <2>3, <2>4, ClashSeen
  <2> QED BY <1>3, <2>5 DEF Excused
<1> QED BY <1>9, <1>11, <1>12, <1>13, <1>14

\* A new index that has no line but those of the old.
LEMMA ApartStays ==
  ASSUME ApartInv, KeptInv', ToSet(index)' \subseteq ToSet(index),
         UNCHANGED origin, overridden \subseteq overridden', missed \subseteq missed'
  PROVE  ApartInv'
<1>1. Apart' BY DEF ApartInv, Apart, Replaces, Excused
<1> QED BY <1>1 DEF ApartInv

\* The new index has no overlap that nobody asked for.
LEMMA InstallApart ==
  ASSUME ApartInv, NEW p \in Procs, Install(p), KeptInv'
  PROVE  ApartInv'
<1> DEFINE e == job[p].id
<1>1. /\ job[p] # None /\ job[p].step = "index"
      /\ index' = job[p].newindex /\ Promise(p)
      BY DEF Install, At, Idle
<1>2. KeptInv /\ TypeInv /\ TypeOK /\ JobOK(p) /\ Apart
      BY DEF ApartInv, KeptInv, TypeInv
<1>3. overridden \subseteq overridden' /\ missed \subseteq missed' BY <1>1 DEF Promise
<1>4. ToSet(index)' = ToSet(job[p].newindex) BY <1>1 DEF ToSet
<1>5. CASE Op(p) = "cleanup"
  <2>1. ToSet(job[p].newindex) \subseteq ToSet(index) BY <1>1, <1>2, <1>5 DEF JobOK
  <2>2. UNCHANGED origin BY <1>1, <1>5 DEF Promise
  <2> QED BY <1>3, <1>4, <2>1, <2>2, ApartStays
<1>6. CASE Op(p) # "cleanup"
  <2>1. Amended(p, job[p].newindex) /\ e \in Events
        BY <1>1, <1>2, <1>6, NewIndexIs, JobIs
  <2>2. \A s \in ToSet(index)' : s \in Written(p) \/
          \E r \in ToSet(index) : r.id \notin Touched(p) /\ Alike(r, s)
        BY <1>4, <2>1 DEF Amended
  <2>3. \A w \in Written(p) : w.id = e BY <2>1 DEF Amended
  <2>4. \A x \in Events : x # e => origin'[x] = origin[x]
    <3>1. origin \in [Events -> Events \cup {None}] BY <1>2 DEF TypeOK
    <3>2. \/ origin' = origin
          \/ origin' = [origin EXCEPT ![e] = handle[p].old]
          \/ origin' = [origin EXCEPT ![e] = None]
          BY <1>1 DEF Promise
    <3> QED BY <3>1, <3>2
  <2>5. e \in Touched(p) BY DEF Touched
  <2>6. ASSUME NEW s \in ToSet(index)', NEW t \in ToSet(index)',
               Overlap(s, t), ~Replaces(s, t)', ~Replaces(t, s)'
        PROVE  s.id \in Excused' \/ t.id \in Excused'
    <3>1. CASE s \in Written(p) /\ t \in Written(p) BY <2>3, <2>6, <3>1 DEF Overlap
    <3>2. CASE s \in Written(p) /\ t \notin Written(p)
      <4>1. PICK r \in ToSet(index) : r.id \notin Touched(p) /\ Alike(r, t)
            BY <2>2, <3>2
      <4> QED BY <1>1, <1>6, <2>6, <3>2, <4>1, WrittenApart
    <3>3. CASE s \notin Written(p) /\ t \in Written(p)
      <4>1. PICK r \in ToSet(index) : r.id \notin Touched(p) /\ Alike(r, s)
            BY <2>2, <3>3
      <4>2. Overlap(t, s) BY <2>6 DEF Overlap
      <4> QED BY <1>1, <1>6, <2>6, <3>3, <4>1, <4>2, WrittenApart
    <3>4. CASE s \notin Written(p) /\ t \notin Written(p)
      <4>1. PICK q \in ToSet(index) : q.id \notin Touched(p) /\ Alike(q, s)
            BY <2>2, <3>4
      <4>2. PICK r \in ToSet(index) : r.id \notin Touched(p) /\ Alike(r, t)
            BY <2>2, <3>4
      <4>3. Overlap(q, r) BY <2>6, <4>1, <4>2 DEF Overlap, Alike
      <4>4. origin'[q.id] = origin[q.id] /\ origin'[r.id] = origin[r.id]
        <5>1. q \in Lines /\ r \in Lines BY <1>2, IndexLines DEF TypeOK
        <5> QED BY <2>4, <2>5, <4>1, <4>2, <5>1 DEF Lines
      <4>5. ~Replaces(q, r) /\ ~Replaces(r, q)
            BY <2>6, <4>1, <4>2, <4>4 DEF Replaces, Alike
      <4>6. q.id \in Excused \/ r.id \in Excused BY <1>2, <4>3, <4>5 DEF Apart
      <4> QED BY <1>3, <4>1, <4>2, <4>6 DEF Excused, Alike
    <3> QED BY <3>1, <3>2, <3>3, <3>4
  <2>7. Apart' BY <2>6 DEF Apart, Overlap
  <2> QED BY <2>7 DEF ApartInv
<1> QED BY <1>5, <1>6

\* Every step preserves ApartInv.
LEMMA ApartStep == ApartInv /\ [Next]_vars => ApartInv'
<1> SUFFICES ASSUME ApartInv, [Next]_vars PROVE ApartInv' OBVIOUS
<1>1. KeptInv' BY KeptStep DEF ApartInv
<1>2. ASSUME NEW p \in Procs, Install(p) PROVE ApartInv' BY <1>1, <1>2, InstallApart
<1>3. ASSUME NEW p \in Procs, InstallBroken(p) PROVE ApartInv'
  <2>1. /\ job[p] # None /\ job[p].step = "broken" /\ index' = job[p].newindex
        /\ UNCHANGED <<origin, overridden, missed>>
        BY <1>3 DEF InstallBroken, At, Idle
  <2>2. JobOK(p) BY DEF ApartInv, KeptInv, TypeInv
  <2>3. Op(p) = "cleanup" BY <2>1, <2>2 DEF JobOK, AtOp, At, Idle
  <2>4. ToSet(index)' \subseteq ToSet(index) BY <2>1, <2>2, <2>3 DEF JobOK, ToSet
  <2> QED BY <1>1, <2>1, <2>4, ApartStays
<1>4. ASSUME UNCHANGED <<index, origin, overridden, missed>> PROVE ApartInv'
  <2>1. ToSet(index)' = ToSet(index) BY <1>4 DEF ToSet
  <2> QED BY <1>1, <1>4, <2>1, ApartStays
<1>5. CASE Tick \/ UNCHANGED vars BY <1>4, <1>5 DEF Tick, vars, store, history
<1>6. ASSUME NEW p \in Procs, Begin(p) PROVE ApartInv'
  <2>1. UNCHANGED <<index, origin, overridden, missed>>
        BY <1>6 DEF Begin, StartNew, StartSave, StartChange, StartCleanup,
                    StartDestroy, Save, Start, store
  <2> QED BY <1>4, <2>1
<1>7. ASSUME NEW p \in Procs, Work(p) PROVE ApartInv'
  <2>1. CASE ~Install(p) /\ ~InstallBroken(p)
    <3>1. UNCHANGED <<index, origin, overridden, missed>>
          BY <1>7, <2>1 DEF Work, Rewrite, GiveUp, Sweep, SweepFails, NameFile,
                            RenameFails, UnlinkOld, Scan, store, history
    <3> QED BY <1>4, <3>1
  <2> QED BY <1>2, <1>3, <2>1
<1>8. ASSUME NEW p \in Procs, Kill(p) PROVE ApartInv'
      BY <1>4, <1>8 DEF Kill, store, history
<1> QED BY <1>5, <1>6, <1>7, <1>8 DEF Next

\* Nobody's event overlaps with that of another unasked, but after uncancelevent.
\* (docommitevent, pcp_is_conflict)
THEOREM BookingTheorem == Spec => []NoDoubleBooking
<1>1. Init => ApartInv
  <2> SUFFICES ASSUME Init PROVE ApartInv OBVIOUS
  <2>1. index = <<>> /\ DOMAIN <<>> = {} BY DEF Init
  <2>2. Apart BY <2>1 DEF Apart, ToSet
  <2> QED BY <2>2, KeptInit DEF ApartInv
<1>2. ApartInv => NoDoubleBooking
  <2> SUFFICES ASSUME ApartInv, NEW i \in DOMAIN index, NEW j \in DOMAIN index,
                      Clash(i, j)
               PROVE  {index[i].id, index[j].id} \cap (overridden \cup missed) # {}
      BY DEF NoDoubleBooking
  <2>1. index[i] \in ToSet(index) /\ index[j] \in ToSet(index) BY DEF ToSet
  <2>2. index[i].id # index[j].id
    <3>1. IsIndex(index) BY DEF ApartInv, KeptInv, TypeInv, TypeOK
    <3> QED BY <3>1 DEF Clash, IsIndex
  <2>3. Overlap(index[i], index[j]) BY <2>2 DEF Clash, Overlap
  <2>4. ~Replaces(index[i], index[j]) /\ ~Replaces(index[j], index[i]) BY DEF Clash
  <2>5. index[i].id \in Excused \/ index[j].id \in Excused
        BY <2>1, <2>3, <2>4 DEF ApartInv, Apart
  <2> QED BY <2>5 DEF Excused
<1> QED BY <1>1, <1>2, ApartStep, PTL DEF Spec

-----------------------------------------------------------------------------
(* The calendar as its callers see it: every operation is one step.        *)

Of(e) == AsEntries!Of(e)

\* The lines of an event, in the terms of the abstract calendar.
LEMMA OfIs ==
  ASSUME TypeInv, NEW e
  PROVE  /\ Of(e) = {r \in ToSet(index) : r.id = e}
         /\ ~Has(index, e) => Of(e) = {}
         /\ Has(index, e) => Of(e) = {Line(index, e)} /\ Line(index, e) \in Lines
                               /\ Line(index, e) \in ToSet(index)
                               /\ Line(index, e).id = e
<1>1. IsIndex(index) BY DEF TypeInv, TypeOK
<1>2. Of(e) = {r \in ToSet(index) : r.id = e} BY DEF Of, AsEntries!Of
<1>3. ASSUME ~Has(index, e) PROVE Of(e) = {}
      BY <1>1, <1>2, <1>3, IndexLines DEF Has
<1>4. ASSUME Has(index, e)
      PROVE  /\ Of(e) = {Line(index, e)} /\ Line(index, e) \in Lines
             /\ Line(index, e) \in ToSet(index) /\ Line(index, e).id = e
      BY <1>1, <1>2, <1>4, LineIs
<1> QED BY <1>2, <1>3, <1>4

\* The line that an operation writes for a new event is that of the calendar.
LEMMA EntryIs ==
  ASSUME TypeInv, NEW p \in Procs, job[p] # None, Saving(p)
  PROVE  NewLine(p) =
           AsEntries!Entry(job[p].id, handle[p].old, job[p].times, Booking(p))
<1> DEFINE old == handle[p].old
           c == Has(index, old) /\ Line(index, old).cancelled
           d == \E r \in Of(old) : r.cancelled
<1>1. handle[p].id = job[p].id BY JobIs
<1>2. c = d
  <2>1. CASE Has(index, old)
    <3>1. Of(old) = {Line(index, old)} /\ Line(index, old) \in Lines BY <2>1, OfIs
    <3>2. Line(index, old).cancelled \in BOOLEAN BY <3>1 DEF Lines
    <3>3. d <=> Line(index, old).cancelled BY <3>1
    <3> QED BY <2>1, <3>2, <3>3
  <2>2. CASE ~Has(index, old)
    <3>1. Of(old) = {} BY <2>2, OfIs
    <3> QED BY <2>2, <3>1
  <2> QED BY <2>1, <2>2
<1>3. NewLine(p) = [id |-> job[p].id, times |-> job[p].times,
                    booked |-> Booking(p), cancelled |-> c, pendel |-> None]
      BY <1>1 DEF NewLine
<1>4. AsEntries!Entry(job[p].id, old, job[p].times, Booking(p)) =
        [id |-> job[p].id, times |-> job[p].times,
         booked |-> Booking(p), cancelled |-> d, pendel |-> None]
      BY DEF AsEntries!Entry, Of
<1> QED BY <1>2, <1>3, <1>4

\* The lines that booking leaves.
LEMMA BookedLines ==
  ASSUME TypeInv, NEW p \in Procs, job[p] # None, Op(p) = "book",
         job[p].step = "index", ~Vanished(p)
  PROVE  ToSet(Booked(p)) =
           {AsEntries!Marked(r, job[p].id, handle[p].old) :
              r \in ToSet(index) \ Of(job[p].id)}
           \cup {AsEntries!Entry(job[p].id, handle[p].old, job[p].times, TRUE)}
<1> DEFINE e == job[p].id
           Mark(r) == IF r.id = handle[p].old /\ r.pendel = None
                      THEN [r EXCEPT !.pendel = handle[p].id] ELSE r
           others == Without(index, Own(p))
           marked == [i \in DOMAIN others |-> Mark(others[i])]
<1>1. Saving(p) /\ Booking(p) = TRUE BY DEF Saving, Booking
<1>2. IsIndex(index) BY DEF TypeInv, TypeOK
<1>3. handle[p] \in Handles /\ handle[p].id = e BY <1>1, JobIs
<1>4. /\ IsIndex(others)
      /\ ToSet(others) = {r \in ToSet(index) : r.id # e}
  <2>1. /\ IsIndex(others)
        /\ ToSet(others) = {r \in ToSet(index) : r.id \notin Own(p)}
        BY <1>2, WithoutIndex
  <2> HIDE DEF others
  <2> QED BY <1>1, <2>1, OwnIs
<1>5. Booked(p) = Append(marked, NewLine(p)) BY DEF Booked
<1>6. \A r : AsEntries!Marked(r, e, handle[p].old) = Mark(r)
      BY <1>3 DEF AsEntries!Marked
<1>7. ToSet(index) \ Of(e) = ToSet(others)
  <2>1. Of(e) = {r \in ToSet(index) : r.id = e} BY OfIs
  <2> QED BY <1>4, <2>1
<1>8. NewLine(p) \in Lines BY <1>1, NewLineIs
<1>9. \A r \in Lines : Mark(r) \in Lines
  <2> SUFFICES ASSUME NEW r \in Lines PROVE Mark(r) \in Lines OBVIOUS
  <2>1. handle[p].id \in Events BY <1>3 DEF Handles
  <2>2. [r EXCEPT !.pendel = handle[p].id] \in Lines BY <2>1 DEF Lines
  <2> QED BY <2>2
<1> HIDE DEF Mark, others
<1> DEFINE N == Len(others)
<1>10. /\ N \in Nat /\ DOMAIN others = 1..N
       /\ ToSet(others) = {others[i] : i \in 1..N}
       /\ \A i \in 1..N : others[i] \in Lines
       BY <1>4, IndexLines
<1> HIDE DEF N
<1>11. marked \in [1..N -> Lines] /\ marked = [i \in 1..N |-> Mark(others[i])]
       BY <1>9, <1>10
<1> HIDE DEF marked
<1>12. marked \in Seq(Lines) /\ Len(marked) = N BY <1>10, <1>11, SeqDef, LenProperties
<1>13. ToSet(Booked(p)) = {marked[i] : i \in 1..N} \cup {NewLine(p)}
  <2> DEFINE s == Append(marked, NewLine(p))
  <2>1. /\ DOMAIN s = 1..(N + 1) /\ s[N + 1] = NewLine(p)
        /\ \A i \in 1..N : s[i] = marked[i]
        BY <1>8, <1>10, <1>12, AppendProperties
  <2> HIDE DEF s
  <2>2. ToSet(s) = {s[i] : i \in 1..(N + 1)} BY <2>1 DEF ToSet
  <2>3. \A i \in 1..(N + 1) : i \in 1..N \/ i = N + 1 BY <1>10
  <2>4. 1..N \subseteq 1..(N + 1) /\ N + 1 \in 1..(N + 1) BY <1>10
  <2>5. ToSet(s) = {marked[i] : i \in 1..N} \cup {NewLine(p)}
        BY <2>1, <2>2, <2>3, <2>4
  <2> QED BY <1>5, <2>5 DEF s
<1>14. {marked[i] : i \in 1..N} = {Mark(r) : r \in ToSet(others)} BY <1>10, <1>11
<1>15. NewLine(p) = AsEntries!Entry(e, handle[p].old, job[p].times, TRUE)
       BY <1>1, EntryIs
<1> HIDE DEF e
<1>16. {AsEntries!Marked(r, e, handle[p].old) : r \in ToSet(index) \ Of(e)}
         = {Mark(r) : r \in ToSet(others)}
       BY <1>6, <1>7
<1> QED BY <1>13, <1>14, <1>15, <1>16 DEF e

\* The lines that committing leaves.
LEMMA CommittedLines ==
  ASSUME TypeInv, NEW p \in Procs, job[p] # None, Op(p) = "commit",
         job[p].step = "index", ~Vanished(p)
  PROVE  /\ Own(p) = {} =>
              /\ Of(job[p].id) = {}
              /\ ToSet(Committed(p)) =
                   (ToSet(index) \ Of(handle[p].old))
                   \cup {AsEntries!Entry(job[p].id, handle[p].old, job[p].times, FALSE)}
         /\ Own(p) # {} =>
              /\ handle[p].booked /\ Has(index, job[p].id)
              /\ ToSet(Committed(p)) =
                   (ToSet(index) \ (Of(handle[p].old) \cup Of(job[p].id)))
                   \cup {[Line(index, job[p].id) EXCEPT !.booked = FALSE]}
<1> DEFINE e == job[p].id
           old == handle[p].old
           others == Without(index, {old})
           own == [Line(index, e) EXCEPT !.booked = FALSE]
<1>1. Saving(p) /\ Booking(p) = FALSE BY DEF Saving, Booking
<1>2. IsIndex(index) BY DEF TypeInv, TypeOK
<1>3. handle[p] \in Handles /\ handle[p].id = e /\ old # e BY <1>1, JobIs
<1>4. IsIndex(others) /\ ToSet(others) = {r \in ToSet(index) : r.id \notin {old}}
      BY <1>2, WithoutIndex
<1>5. /\ Of(e) = {r \in ToSet(index) : r.id = e}
      /\ Of(old) = {r \in ToSet(index) : r.id = old}
      BY OfIs
<1>6. Committed(p) = IF Own(p) = {} THEN Append(others, NewLine(p))
                     ELSE Replaced(others, own)
      BY <1>3 DEF Committed
<1>7. ASSUME Own(p) = {}
      PROVE  /\ Of(e) = {}
             /\ ToSet(Committed(p)) =
                  (ToSet(index) \ Of(old))
                  \cup {AsEntries!Entry(e, old, job[p].times, FALSE)}
  <2>1. ~Has(index, e) BY <1>1, <1>7, OwnIs
  <2>2. Of(e) = {} BY <2>1, OfIs
  <2>3. NewLine(p) \in Lines /\ NewLine(p).id = e
        /\ NewLine(p) = AsEntries!Entry(e, old, job[p].times, FALSE)
        BY <1>1, NewLineIs, EntryIs
  <2> HIDE DEF others, e, old
  <2>4. Ids(others) = {r.id : r \in ToSet(others)} BY <1>4, IndexLines
  <2>5. e \notin Ids(others) BY <1>4, <1>5, <2>2, <2>4
  <2>6. ToSet(Committed(p)) = ToSet(others) \cup {NewLine(p)}
        BY <1>4, <1>6, <1>7, <2>3, <2>5, AppendIndex
  <2>7. ToSet(others) = ToSet(index) \ Of(old) BY <1>4, <1>5
  <2> QED BY <2>2, <2>3, <2>6, <2>7
<1>8. ASSUME Own(p) # {}
      PROVE  /\ handle[p].booked /\ Has(index, e)
             /\ ToSet(Committed(p)) =
                  (ToSet(index) \ (Of(old) \cup Of(e))) \cup {own}
  <2>1. Has(index, e) /\ handle[p].booked BY <1>1, <1>8, OwnIs
  <2>2. /\ Line(index, e) \in ToSet(index) /\ Line(index, e).id = e
        /\ Line(index, e) \in Lines
        BY <1>2, <2>1, LineIs
  <2>3. own \in Lines /\ own.id = e BY <2>2 DEF Lines
  <2>4. Line(index, e) \in ToSet(others) BY <1>3, <1>4, <2>2
  <2> HIDE DEF others, own, e, old
  <2>5. ToSet(Committed(p)) =
          {IF q.id = own.id THEN own ELSE q : q \in ToSet(others)}
        BY <1>4, <1>6, <1>8, <2>3, ReplacedIndex
  <2>6. {IF q.id = own.id THEN own ELSE q : q \in ToSet(others)}
          = {q \in ToSet(others) : q.id # e} \cup {own}
        BY <2>2, <2>3, <2>4
  <2>7. {q \in ToSet(others) : q.id # e} = ToSet(index) \ (Of(old) \cup Of(e))
        BY <1>4, <1>5
  <2> QED BY <2>1, <2>5, <2>6, <2>7
<1> QED BY <1>7, <1>8

\* What an operation overlaps with is what is not free.
LEMMA FreeIs ==
  ASSUME TypeInv, NEW times, NEW but
  PROVE  /\ AsEntries!Free(times, but) <=>
              \A r \in ToSet(index) : r.id \in but \/ ~Conflict(r, times)
         /\ AsEntries!Free(times, but) <=>
              ~ \E r \in ToSet(Without(index, but)) : Conflict(r, times)
<1>1. IsIndex(index) BY DEF TypeInv, TypeOK
<1>2. AsEntries!Free(times, but) <=>
        \A r \in ToSet(index) : r.id \in but \/ ~Conflict(r, times)
      BY DEF AsEntries!Free, Conflict
<1>3. ToSet(Without(index, but)) = {r \in ToSet(index) : r.id \notin but}
      BY <1>1, WithoutIndex
<1> QED BY <1>2, <1>3

\* Whoever saves an event over others has asked for it.
LEMMA SavedOver ==
  ASSUME TypeInv, NEW p \in Procs, job[p] # None, job[p].step = "index",
         Saving(p), ~Refused(p), Promise(p), UNCHANGED past
  PROVE  /\ Looks(p) => AsEntries!PutOver(job[p].id, handle[p].old, job[p].times)
         /\ ~Looks(p) => UNCHANGED <<overridden, missed>>
         /\ UNCHANGED <<missed, past, whole>>
<1> DEFINE e == job[p].id
           old == handle[p].old
           clashes == \E r \in ToSet(Without(index, {e, old})) :
                        Conflict(r, job[p].times)
<1>1. /\ overridden' = overridden \cup
           (IF Looks(p) /\ job[p].over /\ clashes THEN {e} ELSE {})
      /\ missed' = missed /\ whole' = whole
      BY DEF Promise, Saving
<1>2. clashes <=> ~AsEntries!Free(job[p].times, {e, old}) BY FreeIs
<1>3. Looks(p) /\ ~job[p].over => ~clashes
  <2> SUFFICES ASSUME Looks(p), ~job[p].over PROVE ~clashes OBVIOUS
  <2>1. \A r \in ToSet(index) : r.id \in {e, old} \/ ~Conflict(r, job[p].times)
        BY SavedApart
  <2> HIDE DEF clashes
  <2>2. AsEntries!Free(job[p].times, {e, old}) BY <2>1, FreeIs
  <2> QED BY <1>2, <2>2
<1> HIDE DEF clashes
<1>4. Looks(p) =>
        overridden' = overridden \cup
          (IF AsEntries!Free(job[p].times, {e, old}) THEN {} ELSE {e})
      BY <1>1, <1>2, <1>3
<1> QED BY <1>1, <1>4 DEF AsEntries!PutOver

\* The rename of the index is the step at which an operation takes place.
LEMMA InstallAtomic ==
  ASSUME KeptInv, NEW p \in Procs, Install(p)
  PROVE  AsEntries!EntriesNext
<1> DEFINE e == job[p].id
           old == handle[p].old
<1>1. /\ job[p] # None /\ job[p].step = "index"
      /\ index' = job[p].newindex /\ Promise(p) /\ UNCHANGED past
      BY DEF Install, At, Idle
<1>2. /\ TypeInv /\ TypeOK /\ JobOK(p) /\ StepOK(p) /\ BookingOK(p) /\ FilesOK
      BY DEF KeptInv, TypeInv
<1>3. ToSet(index)' = ToSet(job[p].newindex) BY <1>1 DEF ToSet
<1>4. Op(p) \in AllOps BY <1>1, <1>2, JobIs DEF Jobs, Op
<1>5. /\ Op(p) # "cleanup" =>
           ~Refused(p) /\ job[p].newindex = Draft(p) /\ e \in Events
      /\ Saving(p) => /\ old \in Events \cup {None} /\ e # old
                      /\ handle[p] # None /\ handle[p].id = e
                      /\ job[p].times \in Times
      BY <1>1, <1>2, JobIs DEF JobOK, At, Idle, Handles
<1>6. CASE Op(p) = "book"
  <2>1. Saving(p) /\ Looks(p) /\ ~Vanished(p) /\ ~Locked(p)
        BY <1>5, <1>6 DEF Saving, Looks, Booking, Refused
  <2>2. origin' = [origin EXCEPT ![e] = old] BY <1>1, <1>6 DEF Promise
  <2>3. AsEntries!PutOver(e, old, job[p].times) BY <1>1, <1>2, <1>5, <1>6, <2>1, SavedOver
  <2>4. \A r \in Of(e) : r.booked
    <3>1. CASE handle[p].booked
          BY <1>2, <1>5, <2>1, <3>1, OfIs DEF BookingOK
    <3>2. CASE ~handle[p].booked
      <4>1. Own(p) = {} BY <3>2 DEF Own
      <4>2. ~Has(index, e) BY <1>1, <1>2, <2>1, <4>1, OwnIs
      <4> QED BY <1>2, <4>2, OfIs
    <3> QED BY <3>1, <3>2
  <2>5. \A r \in Of(old) : r.pendel \in {None, e} \/ Of(r.pendel) = {}
    <3> SUFFICES ASSUME NEW r \in Of(old), r.pendel \notin {None, e}
                 PROVE  Of(r.pendel) = {}
        OBVIOUS
    <3>1. Has(index, old) /\ r = Line(index, old) BY <1>2, OfIs
    <3>2. ~Has(index, r.pendel)
          BY <1>5, <1>6, <2>1, <3>1 DEF Locked, Booking
    <3> QED BY <1>2, <3>2, OfIs
  <2>6. ToSet(index)' =
          {AsEntries!Marked(r, e, old) : r \in ToSet(index) \ Of(e)}
            \cup {AsEntries!Entry(e, old, job[p].times, TRUE)}
    <3>1. job[p].newindex = Booked(p) BY <1>5, <1>6 DEF Draft
    <3> QED BY <1>1, <1>2, <1>3, <1>6, <2>1, <3>1, BookedLines
  <2>7. AsEntries!Book(e, old, job[p].times)
        BY <2>2, <2>3, <2>4, <2>5, <2>6 DEF AsEntries!Book, Of
  <2> QED BY <1>5, <1>6, <2>1, <2>7 DEF AsEntries!EntriesNext
<1>7. CASE Op(p) = "commit"
  <2>1. Saving(p) /\ ~Vanished(p) BY <1>5, <1>7 DEF Saving, Refused
  <2>2. origin' = [origin EXCEPT ![e] = None] BY <1>1, <1>7 DEF Promise
  <2>3. job[p].newindex = Committed(p) BY <1>5, <1>7 DEF Draft
  <2>4. CASE Own(p) = {}
    <3>1. Looks(p) BY <2>1, <2>4 DEF Vanished, Looks
    <3>2. AsEntries!PutOver(e, old, job[p].times)
          BY <1>1, <1>2, <1>5, <1>7, <2>1, <3>1, SavedOver
    <3>3. /\ Of(e) = {}
          /\ ToSet(index)' = (ToSet(index) \ Of(old))
                \cup {AsEntries!Entry(e, old, job[p].times, FALSE)}
          BY <1>1, <1>2, <1>3, <1>7, <2>1, <2>3, <2>4, CommittedLines
    <3>4. AsEntries!CommitNew(e, old, job[p].times)
          BY <2>2, <3>2, <3>3 DEF AsEntries!CommitNew, Of
    <3> QED BY <1>5, <1>7, <2>1, <3>4 DEF AsEntries!EntriesNext
  <2>5. CASE Own(p) # {}
    <3>1. /\ handle[p].booked /\ Has(index, e)
          /\ ToSet(index)' = (ToSet(index) \ (Of(old) \cup Of(e)))
                \cup {[Line(index, e) EXCEPT !.booked = FALSE]}
          BY <1>1, <1>2, <1>3, <1>7, <2>1, <2>3, <2>5, CommittedLines
    <3>2. ~Looks(p) BY <1>7, <3>1 DEF Looks, Booking
    <3>3. UNCHANGED <<overridden, missed, past, whole>>
          BY <1>1, <1>2, <1>5, <1>7, <2>1, <3>2, SavedOver
    <3>4. Line(index, e) \in Of(e) /\ Line(index, e) \in ToSet(index)
          /\ Line(index, e).id = e
          BY <1>2, <3>1, OfIs
    <3>5. Line(index, e).booked /\ origin[e] = old
          BY <1>2, <1>5, <2>1, <3>1, <3>4 DEF BookingOK
    <3>6. AsEntries!CommitBooked(e)
          BY <2>2, <3>1, <3>3, <3>4, <3>5
          DEF AsEntries!CommitBooked, AsEntries!blame, Of
    <3> QED BY <1>5, <1>7, <3>6 DEF AsEntries!EntriesNext
  <2> QED BY <2>4, <2>5
<1>8. CASE Op(p) \in {"delete", "destroy"}
  <2>1. ~Saving(p) /\ ~Looks(p) BY <1>8 DEF Saving, Looks, Booking
  <2>2. Has(index, e) BY <1>5, <1>8, <2>1 DEF Refused
  <2>3. UNCHANGED <<origin, overridden, missed, past, whole>>
        BY <1>1, <1>8, <2>1 DEF Promise
  <2>4. job[p].newindex = Without(index, {e}) BY <1>5, <1>8 DEF Draft
  <2>5. ToSet(index)' = {r \in ToSet(index) : r.id \notin {e}}
    <3>1. IsIndex(index) BY <1>2 DEF TypeOK
    <3> QED BY <1>3, <2>4, <3>1, WithoutIndex
  <2>6. Of(e) # {} /\ ToSet(index)' = ToSet(index) \ Of(e)
        BY <1>2, <2>2, <2>5, OfIs
  <2>7. AsEntries!Delete(e)
        BY <2>3, <2>6 DEF AsEntries!Delete, AsEntries!blame, Of
  <2> QED BY <1>5, <1>8, <2>7 DEF AsEntries!EntriesNext
<1>9. CASE Op(p) \in {"cancel", "uncancel"}
  <2> DEFINE c == (Op(p) = "cancel")
             l == Line(index, e)
             new == [l EXCEPT !.cancelled = c]
  <2>1. ~Saving(p) BY <1>9 DEF Saving
  <2>2. Has(index, e) BY <1>5, <1>9, <2>1 DEF Refused
  <2>3. /\ Of(e) = {l} /\ l \in Lines /\ l \in ToSet(index) /\ l.id = e
        /\ Of(e) = {r \in ToSet(index) : r.id = e}
        BY <1>2, <2>2, OfIs
  <2>4. new \in Lines /\ new.id = e BY <2>3 DEF Lines
  <2>5. job[p].newindex = Replaced(index, new) BY <1>5, <1>9, <2>2 DEF Draft
  <2>6. UNCHANGED <<origin, past, whole>> BY <1>1, <1>9 DEF Promise
  <2> HIDE DEF new
  <2>7. ToSet(index)' = (ToSet(index) \ Of(e)) \cup {new}
    <3>1. IsIndex(index) BY <1>2 DEF TypeOK
    <3>2. ToSet(index)' = {IF q.id = new.id THEN new ELSE q : q \in ToSet(index)}
          BY <1>3, <2>4, <2>5, <3>1, ReplacedIndex
    <3> HIDE DEF l, e
    <3> QED BY <2>3, <2>4, <3>2
  <2>8. CASE Op(p) = "cancel"
    <3>1. UNCHANGED <<overridden, missed>>
          BY <1>1, <2>8 DEF Promise, Looks, Saving, Booking
    <3>2. new = [l EXCEPT !.cancelled = TRUE] BY <2>8 DEF new
    <3> HIDE DEF l
    <3>3. AsEntries!Cancel(e)
          BY <2>3, <2>6, <2>7, <3>1, <3>2
          DEF AsEntries!Cancel, AsEntries!blame, Of
    <3> QED BY <1>5, <1>9, <3>3 DEF AsEntries!EntriesNext
  <2>9. CASE Op(p) = "uncancel"
    <3> DEFINE clashes == \E r \in ToSet(Without(index, {e})) : Conflict(r, l.times)
    <3>1. Looks(p) BY <2>9 DEF Looks
    <3>2. /\ overridden' = overridden \cup
               (IF job[p].over /\ clashes THEN {e} ELSE {})
          /\ missed' = missed \cup
               (IF ~job[p].over /\ clashes THEN {e} ELSE {})
          BY <1>1, <2>1, <2>9, <3>1 DEF Promise
    <3>3. clashes <=> ~AsEntries!Free(l.times, {e}) BY <1>2, FreeIs
    <3>4. new = [l EXCEPT !.cancelled = FALSE] BY <2>9 DEF new
    <3> HIDE DEF clashes, l
    <3>5. \/ AsEntries!Free(l.times, {e}) /\ UNCHANGED <<overridden, missed>>
          \/ /\ ~AsEntries!Free(l.times, {e})
             /\ \/ overridden' = overridden \cup {e} /\ UNCHANGED missed
                \/ missed' = missed \cup {e} /\ UNCHANGED overridden
          BY <3>2, <3>3
    <3>6. AsEntries!Revive(e)
          BY <2>3, <2>6, <2>7, <3>4, <3>5
          DEF AsEntries!Revive, AsEntries!blame, Of
    <3> QED BY <1>5, <1>9, <3>6 DEF AsEntries!EntriesNext
  <2> QED BY <1>9, <2>8, <2>9
<1>10. CASE Op(p) = "cleanup"
  <2>1. ToSet(index)' \subseteq ToSet(index) BY <1>1, <1>2, <1>3, <1>10 DEF JobOK
  <2>2. \A r \in ToSet(index) \ ToSet(index)' : r.booked \/ Expired(r)
        BY <1>1, <1>2, <1>3, <1>10 DEF StepOK, FilesOK, At, Idle
  <2>3. UNCHANGED <<origin, overridden, missed, past, whole>>
        BY <1>1, <1>10 DEF Promise, Looks, Saving, Booking
  <2>4. AsEntries!CleanUp
        BY <2>1, <2>2, <2>3 DEF AsEntries!CleanUp, AsEntries!blame, Expired
  <2> QED BY <2>4 DEF AsEntries!EntriesNext
<1> QED BY <1>4, <1>6, <1>7, <1>8, <1>9, <1>10 DEF AllOps

\* Every step is a step of the abstract calendar, or none.
LEMMA StepAtomic ==
  KeptInv /\ [Next]_vars => [AsEntries!EntriesNext]_(AsEntries!entries)
<1> SUFFICES ASSUME KeptInv, [Next]_vars
             PROVE  AsEntries!EntriesNext \/ UNCHANGED (AsEntries!entries)
    OBVIOUS
<1>1. ASSUME UNCHANGED <<index, origin, overridden, missed, past, whole>>
      PROVE  UNCHANGED (AsEntries!entries)
      BY <1>1 DEF AsEntries!entries, AsEntries!blame, ToSet
<1>2. CASE UNCHANGED vars BY <1>1, <1>2 DEF vars, store, history
<1>3. CASE Tick
  <2>1. /\ UNCHANGED <<index, origin, overridden, missed, whole>>
        /\ past' = past + 1
        BY <1>3 DEF Tick, store, history
  <2>2. AsEntries!Pass BY <2>1 DEF AsEntries!Pass, AsEntries!blame, ToSet
  <2> QED BY <2>2 DEF AsEntries!EntriesNext
<1>4. ASSUME NEW p \in Procs, Begin(p) PROVE UNCHANGED (AsEntries!entries)
  <2>1. UNCHANGED <<index, origin, overridden, missed, past, whole>>
        BY <1>4 DEF Begin, StartNew, StartSave, StartChange, StartCleanup,
                    StartDestroy, Save, Start, store
  <2> QED BY <1>1, <2>1
<1>5. ASSUME NEW p \in Procs, InstallBroken(p) PROVE AsEntries!EntriesNext
  <2>1. /\ job[p] # None /\ job[p].step = "broken" /\ index' = job[p].newindex
        /\ whole' = FALSE /\ UNCHANGED <<origin, overridden, missed, past>>
        BY <1>5 DEF InstallBroken, At, Idle
  <2>2. JobOK(p) BY DEF KeptInv, TypeInv
  <2>3. Op(p) = "cleanup" BY <2>1, <2>2 DEF JobOK, AtOp, At, Idle
  <2>4. ToSet(index)' \subseteq ToSet(index) BY <2>1, <2>2, <2>3 DEF JobOK, ToSet
  <2>5. AsEntries!Lose BY <2>1, <2>4 DEF AsEntries!Lose, AsEntries!blame
  <2> QED BY <2>5 DEF AsEntries!EntriesNext
<1>6. ASSUME NEW p \in Procs, Work(p)
      PROVE  AsEntries!EntriesNext \/ UNCHANGED (AsEntries!entries)
  <2>1. CASE Install(p) BY <2>1, InstallAtomic
  <2>2. CASE InstallBroken(p) BY <1>5, <2>2
  <2>3. CASE ~Install(p) /\ ~InstallBroken(p)
    <3>1. UNCHANGED <<index, origin, overridden, missed, past, whole>>
          BY <1>6, <2>3 DEF Work, Rewrite, GiveUp, Sweep, SweepFails, NameFile,
                            RenameFails, UnlinkOld, Scan, store, history
    <3> QED BY <1>1, <3>1
  <2> QED BY <2>1, <2>2, <2>3
<1>7. ASSUME NEW p \in Procs, Kill(p) PROVE UNCHANGED (AsEntries!entries)
      BY <1>1, <1>7 DEF Kill, store, history
<1> QED BY <1>2, <1>3, <1>4, <1>6, <1>7 DEF Next

\* Whoever reads the index, at whatever moment and whoever was killed, finds the
\* calendar as if every operation were one step that is done or not.
\* (docommitevent, deleteevent, cancelevent, uncancelevent, cleanup)
THEOREM CalendarTheorem == Spec => ImplementsCalendar
<1>1. Init => AsEntries!EntriesInit
  <2> SUFFICES ASSUME Init PROVE AsEntries!EntriesInit OBVIOUS
  <2>1. index = <<>> /\ DOMAIN <<>> = {} BY DEF Init
  <2>2. ToSet(index) = {} BY <2>1 DEF ToSet
  <2> QED BY <2>2 DEF Init, AsEntries!EntriesInit
<1> QED BY <1>1, StepAtomic, KeptTheorem, PTL
        DEF Spec, ImplementsCalendar, AsEntries!EntriesSpec
===============================================================================
