------------------------- MODULE FolderIndex_proofs -------------------------
(***************************************************************************)
(* Proofs about FolderIndex: the types; an index that looks newer than the *)
(* directory lists it; the message displayed is the one that the buttons   *)
(* of its page name; the page of a folder lists what was in the folder     *)
(* while it was made.                                                      *)
(***************************************************************************)
EXTENDS FolderIndex, FiniteSetTheorems, TLAPS

-----------------------------------------------------------------------------
(* Type correctness.                                                       *)

\* An index is a record, and its records are numbered from 0.
IsFile(x) ==
  /\ IsIndex(x)
  /\ DOMAIN x = {"save", "order", "recs", "back", "wrong"}
  /\ \E n \in Nat : DOMAIN x.recs = 0..n-1

FilesOK ==
  /\ DOMAIN idx = Inodes
  /\ \A i \in Inodes : IsFile(idx[i])
  /\ named \in Inodes \cup {None}

\* A request that shows the folder has an index; one that displays or renames
\* a message has found it; a directory has finitely many names.
Control ==
  \A r \in Requests :
    /\ pc[r] = "page" => held[r] \in Inodes
    /\ pc[r] \in {"show", "rename", "update"} => path[r] \in Names
    /\ IsFiniteSet(scan[r].seen)

LocalOK ==
  /\ pc \in [Requests -> PCs]
  /\ req \in [Requests -> Reqs]
  /\ held \in [Requests -> Inodes \cup {None}]
  /\ mode \in [Requests -> {"R", "W"}]
  /\ stamp \in [Requests -> Times]
  /\ scan \in [Requests -> Scans]
  /\ path \in [Requests -> Names \cup {None}]
  /\ Control

WorldOK ==
  /\ now \in Times /\ mtime \in Times
  /\ entries \subseteq Names
  /\ pages \subseteq Shown
  /\ arrived \subseteq Msgs
  /\ span \in [Requests -> Spans]
  /\ ops \in 0..MaxOps

TypeInv == FilesOK /\ LocalOK /\ WorldOK

LEMMA TypeInvTypes == TypeInv => TypeOK
BY DEF TypeInv, FilesOK, LocalOK, WorldOK, TypeOK, IsFile

\* A finite set of numbers that is not empty has a largest one.
LEMMA Largest ==
  ASSUME NEW M \in SUBSET Nat, M # {}, IsFiniteSet(M)
  PROVE  \E i \in M : \A j \in M : j <= i
<1> DEFINE Above(i) == {j \in M : i <= j}
           T == {Above(i) : i \in M}
<1>1. T \subseteq FiniteSubsetsOf(M) /\ T # {}
  <2>1. \A i \in M : Above(i) \subseteq M OBVIOUS
  <2>2. \A i \in M : IsFiniteSet(Above(i)) BY <2>1, FS_Subset
  <2> QED BY <2>1, <2>2 DEF FiniteSubsetsOf
<1>2. IsWellFoundedOn(StrictSubsetOrdering(M), FiniteSubsetsOf(M))
      BY FS_StrictSubsetOrderingWellFounded
<1>3. PICK x \in T : \A y \in T : <<y, x>> \notin StrictSubsetOrdering(M)
      BY <1>1, <1>2, WFMin
<1>4. PICK i \in M : x = Above(i) OBVIOUS
<1>5. ASSUME NEW j \in M, ~(j <= i) PROVE FALSE
  <2>1. /\ Above(j) \in T
        /\ Above(j) \subseteq Above(i) /\ i \in Above(i) /\ i \notin Above(j)
    <3>1. i \in Nat /\ j \in Nat /\ i < j BY <1>5
    <3>2. Above(j) \in T OBVIOUS
    <3>3. \A k \in M : j <= k => i <= k BY <3>1
    <3>4. Above(j) \subseteq Above(i) /\ i \in Above(i)
      <4>1. i <= i BY <3>1
      <4>2. \A k : k \in Above(j) => k \in M /\ j <= k OBVIOUS
      <4>3. \A k \in M : i <= k => k \in Above(i) OBVIOUS
      <4> HIDE DEF Above, T
      <4> QED BY <3>3, <4>1, <4>2, <4>3
    <3>5. i \notin Above(j) BY <3>1
    <3> HIDE DEF Above, T
    <3> QED BY <3>2, <3>4, <3>5
  <2> HIDE DEF Above
  <2>2. <<Above(j), x>> \in StrictSubsetOrdering(M)
        BY <2>1, <1>1, <1>4 DEF StrictSubsetOrdering, FiniteSubsetsOf
  <2> QED BY <1>3, <2>1, <2>2
<1> QED BY <1>4, <1>5

LEMMA EmptyFile == IsFile(EmptyIndex)
<1>1. 0 \in Times BY BoundsAssumption DEF Times
<1>2. DOMAIN EmptyIndex.recs = {} /\ DOMAIN EmptyIndex.back = {}
      BY DEF EmptyIndex, NewIndex, Reverse
<1>3. 0 \in Nat /\ 0..0-1 = {} OBVIOUS
<1>4. EmptyIndex.recs \in [DOMAIN EmptyIndex.recs -> Names]
      BY <1>2 DEF EmptyIndex, NewIndex
<1> QED BY <1>1, <1>2, <1>3, <1>4 DEF IsFile, IsIndex, EmptyIndex, NewIndex, Orders

\* The reverse keys of a listing lead to records of their message.
LEMMA ReverseLeads ==
  ASSUME NEW n \in Nat, NEW S \in SUBSET Names, NEW l \in [0..n-1 -> S],
         NEW m \in DOMAIN Reverse(l)
  PROVE  Reverse(l)[m] \in DOMAIN l /\ l[Reverse(l)[m]].msg = m
<1> DEFINE M == {i \in DOMAIN l : l[i].msg = m}
<1>1. M \subseteq Nat /\ M # {} BY DEF Reverse
<1>2. IsFiniteSet(M)
  <2>1. IsFiniteSet(0..n-1) BY FS_Interval
  <2> QED BY <2>1, FS_Subset
<1>3. PICK i \in M : \A j \in M : j <= i BY <1>1, <1>2, Largest
<1>4. i \in DOMAIN l /\ l[i].msg = m
      /\ \A j \in DOMAIN l : l[j].msg = m => j <= i BY <1>3
<1>5. Reverse(l)[m] = CHOOSE k \in DOMAIN l :
        l[k].msg = m /\ \A j \in DOMAIN l : l[j].msg = m => j <= k
      BY DEF Reverse
<1> HIDE DEF M
<1> QED BY <1>4, <1>5

\* What maildir_save_end writes is an index.
LEMMA NewFile ==
  ASSUME NEW S \in SUBSET Names, IsFiniteSet(S), NEW t \in Times,
         NEW o \in Orders, NEW l \in Listings(S, o), NEW w \in BOOLEAN
  PROVE  IsFile(NewIndex(t, o, l, w))
<1>1. Cardinality(S) \in Nat BY FS_CardinalityType
<1>2. l \in [0..Cardinality(S)-1 -> S] BY DEF Listings
<1>3. \A m \in DOMAIN Reverse(l) : Reverse(l)[m] \in DOMAIN l
      BY <1>1, <1>2, ReverseLeads
<1>4. DOMAIN l \subseteq Nat /\ l \in [DOMAIN l -> Names] BY <1>1, <1>2
<1>5. DOMAIN l = 0..Cardinality(S)-1 BY <1>2
<1> QED BY <1>1, <1>3, <1>4, <1>5 DEF IsFile, IsIndex, NewIndex

LEMMA OverwrittenFile ==
  ASSUME NEW x, IsFile(x), NEW p \in DOMAIN x.recs, NEW e \in Names,
         NEW b \in BOOLEAN
  PROVE  IsFile([x EXCEPT !.recs[p] = e, !.wrong = b])
<1> DEFINE y == [x EXCEPT !.recs[p] = e, !.wrong = b]
<1>1. /\ y.save = x.save /\ y.order = x.order /\ y.back = x.back
      /\ y.wrong = b /\ y.recs = [x.recs EXCEPT ![p] = e]
      /\ DOMAIN y = DOMAIN x
      BY DEF IsFile
<1>2. y.recs \in [DOMAIN x.recs -> Names] BY <1>1 DEF IsFile, IsIndex
<1> HIDE DEF y
<1>3. DOMAIN y.recs = DOMAIN x.recs BY <1>2
<1> QED BY <1>1, <1>2, <1>3 DEF IsFile, IsIndex, y

LEMMA FilesType ==
  ASSUME NEW I, \A i \in Inodes : IsFile(I[i]), Files(I),
         named' \in Inodes \cup {None}
  PROVE  FilesOK'
<1>1. DOMAIN idx' = Inodes
      /\ \A i \in Inodes : idx'[i] = I[i] \/ idx'[i] = EmptyIndex BY DEF Files
<1> QED BY <1>1, EmptyFile DEF FilesOK, IsFile, IsIndex

LEMMA InitTypes == Init => TypeInv
<1> SUFFICES ASSUME Init PROVE TypeInv OBVIOUS
<1>1. FilesOK BY EmptyFile DEF Init, FilesOK
<1>2. WorldOK BY BoundsAssumption
      DEF Init, WorldOK, Times, Spans, NoSpan
<1>3. LocalOK
  <2>1. NoReq \in Reqs BY DEF NoReq, Reqs, AllOps, Orders
  <2>2. NoScan \in Scans /\ IsFiniteSet(NoScan.seen) BY FS_EmptySet DEF NoScan, Scans
  <2> QED BY <2>1, <2>2, BoundsAssumption, InodesAssumption
          DEF Init, LocalOK, Control, Times, PCs, Building
<1> QED BY <1>1, <1>2, <1>3 DEF TypeInv

\* The request ends.
LEMMA FinishType ==
  ASSUME TypeInv, NEW r \in Requests, Finish(r)
  PROVE  LocalOK' /\ span' \in [Requests -> Spans]
<1>1. NoReq \in Reqs BY DEF NoReq, Reqs, AllOps, Orders
<1>2. NoScan \in Scans /\ IsFiniteSet(NoScan.seen) BY FS_EmptySet DEF NoScan, Scans
<1>3. 0 \in Times /\ NoSpan \in Spans BY BoundsAssumption DEF Times, NoSpan, Spans
<1>4. LocalOK'
  <2>1. /\ pc' \in [Requests -> PCs] /\ req' \in [Requests -> Reqs]
        /\ held' \in [Requests -> Inodes \cup {None}]
        /\ mode' \in [Requests -> {"R", "W"}] /\ stamp' \in [Requests -> Times]
        /\ scan' \in [Requests -> Scans] /\ path' \in [Requests -> Names \cup {None}]
        BY <1>1, <1>2, <1>3 DEF Finish, Goto, PCs, TypeInv, LocalOK
  <2>2. Control'
    <3>1. ASSUME NEW q \in Requests, q # r
          PROVE  pc'[q] = pc[q] /\ held'[q] = held[q] /\ path'[q] = path[q]
                 /\ scan'[q] = scan[q]
          BY <3>1 DEF Finish, Goto, TypeInv, LocalOK
    <3>2. pc'[r] = "idle" /\ scan'[r] = NoScan
          BY DEF Finish, Goto, TypeInv, LocalOK
    <3> QED BY <1>2, <3>1, <3>2 DEF Control, TypeInv, LocalOK
  <2> QED BY <2>1, <2>2 DEF LocalOK
<1>5. span' \in [Requests -> Spans] BY <1>3 DEF Finish, TypeInv, WorldOK
<1> QED BY <1>4, <1>5

\* Files that nobody has written to.
LEMMA SameFilesType ==
  ASSUME TypeInv, SameFiles \/ UNCHANGED file
  PROVE  FilesOK'
<1>1. CASE UNCHANGED file BY <1>1 DEF file, TypeInv, FilesOK, IsFile, IsIndex
<1>2. CASE SameFiles BY <1>2, FilesType DEF SameFiles, TypeInv, FilesOK
<1> QED BY <1>1, <1>2

\* The file that opencache opens.
LEMMA OpenedFile ==
  ASSUME TypeInv, NEW r \in Requests, NEW m \in {"R", "W"}, Opens(r, m)
  PROVE  File(r, m) \in Inodes /\ IsFile(idx[File(r, m)])
BY InodesAssumption
   DEF TypeInv, FilesOK, LocalOK, Opens, File, Reuses, AlreadyOpen

LEMMA OpenCacheType ==
  ASSUME TypeInv, NEW r \in Requests, NEW m \in {"R", "W"}, OpenCache(r, m)
  PROVE  /\ held' \in [Requests -> Inodes \cup {None}]
         /\ mode' \in [Requests -> {"R", "W"}]
         /\ \A q \in Requests : q # r => held'[q] = held[q] /\ mode'[q] = mode[q]
         /\ Opens(r, m) => held'[r] = File(r, m) /\ held'[r] \in Inodes
         /\ ~Opens(r, m) => held'[r] = None
<1>1. /\ held \in [Requests -> Inodes \cup {None}]
      /\ mode \in [Requests -> {"R", "W"}] BY DEF TypeInv, LocalOK
<1>2. Opens(r, m) => File(r, m) \in Inodes BY OpenedFile
<1> QED BY <1>1, <1>2 DEF OpenCache

\* The records of a file.
LEMMA RecordType ==
  ASSUME NEW i \in Inodes, IsFile(idx[i]), NEW p, Has(i, p)
  PROVE  Recs(i)[p] \in Names /\ p \in Nat
BY DEF IsFile, IsIndex, Has, Recs

LEMMA ExactType ==
  ASSUME WorldOK, NEW e
  PROVE  Exact(e) \subseteq entries /\ Exact(e) \subseteq Names
BY DEF WorldOK, Exact, Found

LEMMA AddFlagType ==
  ASSUME NEW e \in Names, NEW f \in {"S", "T"}
  PROVE  AddFlag(e, f) \in Names /\ AddFlag(e, f).msg = e.msg
BY DEF Names, AddFlag

\* cur changes.
LEMMA StoreType ==
  ASSUME TypeInv, NEW E \in SUBSET Names, Store(E),
         UNCHANGED <<now, pages, ops>>, arrived' \subseteq Msgs
  PROVE  WorldOK'
<1>1. \A r \in Requests : span[r].all \subseteq Names /\ span[r].some \subseteq Names
      BY DEF TypeInv, WorldOK, Spans
<1>2. span' \in [Requests -> Spans]
  <2>1. \A r \in Requests :
          [all |-> span[r].all \cap E, some |-> span[r].some \cup E] \in Spans
        BY <1>1 DEF Spans
  <2>2. \A r \in Requests : span[r] \in Spans BY DEF TypeInv, WorldOK
  <2> QED BY <2>1, <2>2 DEF Store
<1> QED BY <1>2 DEF Store, TypeInv, WorldOK

\* The request goes to l and the others stay where they are.
LEMMA MoveOn ==
  ASSUME TypeInv, NEW r \in Requests, NEW l \in PCs, Goto(r, l),
         req' \in [Requests -> Reqs],
         held' \in [Requests -> Inodes \cup {None}],
         mode' \in [Requests -> {"R", "W"}],
         stamp' \in [Requests -> Times],
         scan' \in [Requests -> Scans],
         path' \in [Requests -> Names \cup {None}],
         \A q \in Requests : q # r =>
           held'[q] = held[q] /\ path'[q] = path[q] /\ scan'[q] = scan[q],
         l = "page" => held'[r] \in Inodes,
         l \in {"show", "rename", "update"} => path'[r] \in Names,
         IsFiniteSet(scan'[r].seen)
  PROVE  LocalOK'
<1>1. pc' \in [Requests -> PCs] BY DEF Goto, TypeInv, LocalOK
<1>2. pc'[r] = l /\ \A q \in Requests : q # r => pc'[q] = pc[q]
      BY DEF Goto, TypeInv, LocalOK
<1>3. Control'
  <2>1. ASSUME NEW q \in Requests
        PROVE  /\ pc'[q] = "page" => held'[q] \in Inodes
               /\ pc'[q] \in {"show", "rename", "update"} => path'[q] \in Names
               /\ IsFiniteSet(scan'[q].seen)
    <3>1. CASE q = r BY <1>2, <3>1
    <3>2. CASE q # r BY <1>2, <3>2 DEF TypeInv, LocalOK, Control
    <3> QED BY <3>1, <3>2
  <2> QED BY <2>1 DEF Control
<1> QED BY <1>1, <1>3 DEF LocalOK

\* maildir_reload and maildir_getfoldermsgs
LEMMA ReloadType ==
  ASSUME TypeInv, NEW r \in Requests, Reload(r)
  PROVE  TypeInv'
<1> USE DEF PCs, Building
<1>a. /\ pc \in [Requests -> PCs] /\ req \in [Requests -> Reqs]
      /\ held \in [Requests -> Inodes \cup {None}]
      /\ mode \in [Requests -> {"R", "W"}] /\ stamp \in [Requests -> Times]
      /\ scan \in [Requests -> Scans] /\ path \in [Requests -> Names \cup {None}]
      /\ IsFiniteSet(scan[r].seen) /\ WorldOK
      BY DEF TypeInv, LocalOK, Control
<1>b. ASSUME Close(r)
      PROVE  /\ held' \in [Requests -> Inodes \cup {None}]
             /\ mode' \in [Requests -> {"R", "W"}]
             /\ \A q \in Requests : q # r => held'[q] = held[q]
      BY <1>a, <1>b DEF Close
<1>c. UNCHANGED <<dir, world>> => WorldOK'
      BY <1>a DEF dir, world, bounds, WorldOK
<1>1. CASE ReloadOpen(r)
  <2>1. req' \in [Requests -> Reqs]
    <3>1. \A b \in BOOLEAN : [req[r] EXCEPT !.excuse = @ \/ b] \in Reqs
          BY <1>a DEF Reqs
    <3> DEFINE b == Locked(r) /\ req[r].op \in Listing
    <3>2. b \in BOOLEAN BY DEF Locked
    <3>3. req' = [req EXCEPT ![r] = [req[r] EXCEPT !.excuse = @ \/ b]]
          BY <1>1 DEF ReloadOpen, Excuse
    <3> HIDE DEF b
    <3> QED BY <1>a, <3>1, <3>2, <3>3
  <2>2. OpenCache(r, "W") BY <1>1 DEF ReloadOpen
  <2>3. FilesOK' BY <1>1, SameFilesType DEF ReloadOpen
  <2>4. PICK l \in {"stat", "check"} : Goto(r, l) BY <1>1 DEF ReloadOpen
  <2>5. LocalOK'
        BY <1>1, <1>a, <2>1, <2>2, <2>4, OpenCacheType, MoveOn DEF ReloadOpen
  <2> QED BY <1>1, <1>c, <2>3, <2>5 DEF ReloadOpen, TypeInv
<1>2. CASE ReloadStat(r)
  <2>1. FilesOK' BY <1>2, SameFilesType DEF ReloadStat
  <2>2. PICK l \in {"stamp", "check"} : Goto(r, l) BY <1>2 DEF ReloadStat
  <2>3. /\ held' \in [Requests -> Inodes \cup {None}]
        /\ mode' \in [Requests -> {"R", "W"}]
        /\ \A q \in Requests : q # r => held'[q] = held[q]
        BY <1>2, <1>a, <1>b DEF ReloadStat
  <2>4. LocalOK' BY <1>2, <1>a, <2>2, <2>3, MoveOn DEF ReloadStat
  <2> QED BY <1>2, <1>c, <2>1, <2>4 DEF ReloadStat, TypeInv
<1>3. CASE Check(r)
  <2>1. FilesOK' BY <1>3, SameFilesType DEF Check
  <2>2. CASE InOrder(r) /\ OpenCache(r, "W") /\ Goto(r, AfterCheck(r))
    <3>1. AfterCheck(r) \in PCs BY DEF AfterCheck
    <3>2. AfterCheck(r) \notin {"show", "rename", "update"} BY DEF AfterCheck
    <3>3. held'[r] \in Inodes BY <2>2, OpenCacheType DEF InOrder
    <3>4. LocalOK'
          BY <1>3, <1>a, <2>2, <3>1, <3>2, <3>3, OpenCacheType, MoveOn DEF Check
    <3> QED BY <1>3, <1>c, <2>1, <3>4 DEF Check, TypeInv
  <2>3. CASE Close(r) /\ Goto(r, "stamp")
    <3>1. LocalOK' BY <1>3, <1>a, <1>b, <2>3, MoveOn DEF Check
    <3> QED BY <1>3, <1>c, <2>1, <3>1 DEF Check, TypeInv
  <2> QED BY <1>3, <2>2, <2>3 DEF Check
<1>4. CASE Remove(r)
  <2>1. FilesOK' BY <1>4, FilesType DEF Remove, TypeInv, FilesOK
  <2>2. LocalOK' /\ span' \in [Requests -> Spans]
    <3>1. CASE Finish(r) BY <3>1, FinishType
    <3>2. CASE Goto(r, "open") /\ UNCHANGED <<req, held, mode, stamp, scan, path, span>>
      <4>1. LocalOK' BY <1>a, <3>2, MoveOn
      <4> QED BY <4>1, <3>2, <1>a DEF WorldOK
    <3> QED BY <1>4, <3>1, <3>2 DEF Remove
  <2> QED BY <1>4, <1>a, <2>1, <2>2 DEF Remove, TypeInv, WorldOK, world, bounds
<1>5. CASE SaveStart(r)
  <2>1. FilesOK' BY <1>5, SameFilesType DEF SaveStart
  <2>2. [due |-> entries, seen |-> {}] \in Scans
        BY <1>a DEF Scans, WorldOK
  <2>3. scan' \in [Requests -> Scans] /\ scan'[r].seen = {}
        BY <1>5, <1>a, <2>2 DEF SaveStart
  <2>4. stamp' \in [Requests -> Times] BY <1>5, <1>a DEF SaveStart, WorldOK
  <2>5. LocalOK'
        BY <1>5, <1>a, <2>3, <2>4, FS_EmptySet, MoveOn DEF SaveStart
  <2> QED BY <1>5, <1>c, <2>1, <2>5 DEF SaveStart, TypeInv
<1>6. CASE ReadName(r)
  <2>1. FilesOK' BY <1>6, SameFilesType DEF ReadName
  <2>2. PICK e \in entries : scan' = [scan EXCEPT ![r].seen = @ \cup {e}]
        BY <1>6 DEF ReadName
  <2>3. scan[r].seen \cup {e} \subseteq Names BY <1>a DEF WorldOK, Scans
  <2>4. [scan[r] EXCEPT !.seen = @ \cup {e}] \in Scans BY <1>a, <2>3 DEF Scans
  <2>5. scan' \in [Requests -> Scans] /\ scan'[r].seen = scan[r].seen \cup {e}
        BY <1>a, <2>2, <2>4 DEF Scans
  <2>6. IsFiniteSet(scan'[r].seen)
    <3>1. IsFiniteSet(scan[r].seen \cup {e}) BY <1>a, FS_AddElement
    <3> QED BY <2>5, <3>1
  <2>7. Goto(r, "scan") BY <1>6, <1>a DEF ReadName, Goto
  <2>8. LocalOK' BY <1>6, <1>a, <2>2, <2>5, <2>6, <2>7, MoveOn DEF ReadName
  <2> QED BY <1>6, <1>c, <2>1, <2>8 DEF ReadName, TypeInv
<1>7. CASE SaveEnd(r)
  <2> DEFINE i == CHOOSE j \in Inodes \ InUse : TRUE
             w == ~Complete(r)
  <2>1. i \in Inodes BY <1>7 DEF SaveEnd
  <2>2. PICK l \in Listings(scan[r].seen, req[r].order) :
          Files([idx EXCEPT ![i] = NewIndex(SaveTime(r), req[r].order, l, w)])
        BY <1>7 DEF SaveEnd
  <2>3. IsFile(NewIndex(SaveTime(r), req[r].order, l, w))
    <3>1. scan[r].seen \in SUBSET Names BY <1>a DEF Scans
    <3>2. req[r].order \in Orders BY <1>a DEF Reqs
    <3>3. SaveTime(r) \in Times BY <1>a DEF SaveTime
    <3>4. w \in BOOLEAN OBVIOUS
    <3> HIDE DEF w
    <3> QED BY <1>a, <3>1, <3>2, <3>3, <3>4, NewFile
  <2>4. named' = i BY <1>7 DEF SaveEnd
  <2> HIDE DEF i, w
  <2>5. \A j \in Inodes :
          IsFile([idx EXCEPT ![i] = NewIndex(SaveTime(r), req[r].order, l, w)][j])
        BY <2>1, <2>3 DEF TypeInv, FilesOK
  <2>6. FilesOK' BY <2>1, <2>2, <2>4, <2>5, FilesType
  <2>7. NoScan \in Scans /\ IsFiniteSet(NoScan.seen) /\ 0 \in Times
        BY FS_EmptySet, BoundsAssumption DEF NoScan, Scans, Times
  <2>8. scan' \in [Requests -> Scans] /\ scan'[r] = NoScan
        /\ stamp' \in [Requests -> Times]
        BY <1>7, <1>a, <2>7 DEF SaveEnd
  <2>9. UNCHANGED <<req, held, mode, path, dir, world>> /\ Goto(r, "check")
        /\ \A q \in Requests : q # r => scan'[q] = scan[q]
        BY <1>7, <1>a DEF SaveEnd
  <2>10. LocalOK' BY <1>a, <2>7, <2>8, <2>9, MoveOn
  <2> QED BY <1>c, <2>6, <2>9, <2>10 DEF TypeInv
<1> QED BY <1>1, <1>2, <1>3, <1>4, <1>5, <1>6, <1>7 DEF Reload

\* Requests that look for a message, and flags.
LEMMA ServeType ==
  ASSUME TypeInv, NEW r \in Requests, Serve(r)
  PROVE  TypeInv'
<1> USE DEF PCs, Building
<1>a. /\ pc \in [Requests -> PCs] /\ req \in [Requests -> Reqs]
      /\ held \in [Requests -> Inodes \cup {None}]
      /\ mode \in [Requests -> {"R", "W"}] /\ stamp \in [Requests -> Times]
      /\ scan \in [Requests -> Scans] /\ path \in [Requests -> Names \cup {None}]
      /\ IsFiniteSet(scan[r].seen) /\ WorldOK
      BY DEF TypeInv, LocalOK, Control
<1>b. UNCHANGED <<entries, mtime, world>> /\ span' \in [Requests -> Spans]
        => WorldOK'
      BY <1>a DEF world, bounds, WorldOK
<1>c. UNCHANGED <<entries, mtime, span, world>> => WorldOK'
      BY <1>a DEF world, bounds, WorldOK
<1>d. Finish(r) /\ UNCHANGED <<entries, mtime, world>> => LocalOK' /\ WorldOK'
      BY <1>b, FinishType
<1>1. CASE Page(r)
  <2>1. FilesOK' BY <1>1, SameFilesType DEF Page
  <2>2. LocalOK' BY <1>1, <1>a, MoveOn DEF Page
  <2>3. held[r] \in Inodes BY <1>1 DEF Page, TypeInv, LocalOK, Control
  <2>4. IsFile(idx[held[r]]) BY <2>3 DEF TypeInv, FilesOK
  <2>5. \A p \in DOMAIN Recs(held[r]) : [name |-> Recs(held[r])[p], pos |-> p] \in Shown
    <3>1. ASSUME NEW p \in DOMAIN Recs(held[r])
          PROVE  Recs(held[r])[p] \in Names /\ p \in Nat
          BY <2>3, <2>4, RecordType DEF Has
    <3> QED BY <3>1 DEF Shown
  <2>6. pages' \subseteq Shown BY <1>1, <1>a, <2>5 DEF Page, WorldOK
  <2>7. span' \in [Requests -> Spans]
    <3>1. NoSpan \in Spans BY DEF NoSpan, Spans
    <3> QED BY <1>1, <1>a, <3>1 DEF Page, WorldOK
  <2> QED BY <1>1, <1>a, <2>1, <2>2, <2>6, <2>7 DEF Page, WorldOK, bounds, TypeInv
<1>2. CASE Read(r)
  <2>1. FilesOK' BY <1>2, SameFilesType DEF Read
  <2> DEFINE i == File(r, "W")
             p == Position(i, req[r].pos)
  <2>2. CASE Opens(r, "W") /\ Has(i, p)
    <3>1. i \in Inodes /\ IsFile(idx[i]) BY <2>2, OpenedFile
    <3>2. Recs(i)[p] \in Names BY <2>2, <3>1, RecordType
    <3> DEFINE x == [name |-> Recs(i)[p], pos |-> req[r].pos]
    <3>3. x \in Shown BY <1>a, <3>2 DEF Shown, Reqs
    <3>4. /\ OpenCache(r, "W")
          /\ req' = [req EXCEPT ![r].at = x,
                                ![r].excuse = idx[i].order # req[r].order]
          /\ pages' = pages \cup {x}
          /\ Goto(r, "check")
          /\ UNCHANGED <<stamp, scan, path, span>>
          BY <1>2, <2>2 DEF Read
    <3> HIDE DEF x, i
    <3>5. req' \in [Requests -> Reqs]
      <4>1. \A b \in BOOLEAN : [req[r] EXCEPT !.at = x, !.excuse = b] \in Reqs
            BY <1>a, <3>3 DEF Reqs
      <4>2. req' = [req EXCEPT ![r] =
                [req[r] EXCEPT !.at = x, !.excuse = idx[i].order # req[r].order]]
            BY <1>a, <3>4
      <4>3. (idx[i].order # req[r].order) \in BOOLEAN OBVIOUS
      <4> QED BY <1>a, <4>1, <4>2, <4>3
    <3>6. LocalOK' BY <1>a, <3>4, <3>5, OpenCacheType, MoveOn
    <3>7. pages' \subseteq Shown BY <1>a, <3>3, <3>4 DEF WorldOK
    <3> QED BY <1>2, <1>a, <2>1, <3>4, <3>6, <3>7 DEF Read, WorldOK, bounds, TypeInv
  <2>3. CASE ~(Opens(r, "W") /\ Has(i, p))
    <3>1. Finish(r) /\ UNCHANGED pages BY <1>2, <2>3 DEF Read
    <3> QED BY <1>2, <1>d, <2>1, <3>1 DEF Read, TypeInv, world
  <2> QED BY <2>2, <2>3
<1>3. CASE Lookup(r)
  <2>1. FilesOK' BY <1>3, SameFilesType DEF Lookup
  <2> DEFINE i == File(r, "R")
             m == req[r].at.name.msg
  <2>2. CASE Opens(r, "R") /\ m \in DOMAIN idx[i].back
    <3>1. i \in Inodes /\ IsFile(idx[i]) BY <2>2, OpenedFile
    <3>2. idx[i].back[m] \in Nat BY <2>2, <3>1 DEF IsFile, IsIndex
    <3>3. /\ OpenCache(r, "R")
          /\ req' = [req EXCEPT ![r].pos = idx[i].back[m],
                                ![r].excuse = @ \/ idx[i].wrong]
          /\ Goto(r, "find")
          /\ UNCHANGED <<stamp, scan, path, span>>
          BY <1>3, <2>2 DEF Lookup
    <3>4. idx[i].wrong \in BOOLEAN BY <3>1 DEF IsFile, IsIndex
    <3> HIDE DEF i, m
    <3>5. req' \in [Requests -> Reqs]
      <4>1. \A b \in BOOLEAN, n \in Nat :
              [req[r] EXCEPT !.pos = n, !.excuse = @ \/ b] \in Reqs
            BY <1>a DEF Reqs
      <4>2. req' = [req EXCEPT ![r] =
                [req[r] EXCEPT !.pos = idx[i].back[m], !.excuse = @ \/ idx[i].wrong]]
            BY <1>a, <3>3 DEF Reqs
      <4> QED BY <1>a, <3>2, <3>4, <4>1, <4>2
    <3>6. LocalOK' BY <1>a, <3>3, <3>5, OpenCacheType, MoveOn
    <3> QED BY <1>3, <1>c, <2>1, <3>3, <3>6 DEF Lookup, TypeInv
  <2>3. CASE ~(Opens(r, "R") /\ m \in DOMAIN idx[i].back)
    <3>1. Finish(r) BY <1>3, <2>3 DEF Lookup
    <3> QED BY <1>3, <1>d, <2>1, <3>1 DEF Lookup, TypeInv
  <2> QED BY <2>2, <2>3
<1>4. CASE Find(r)
  <2>1. FilesOK' BY <1>4, SameFilesType DEF Find
  <2>2. CASE Finish(r) BY <1>4, <1>d, <2>1, <2>2 DEF Find, TypeInv
  <2>3. CASE ~Finish(r)
    <3>1. PICK e \in Exact(Recs(File(r, "R"))[req[r].pos]) :
            path' = [path EXCEPT ![r] = e]
          BY <1>4, <2>3 DEF Find
    <3>2. OpenCache(r, "R") /\ Goto(r, "show") /\ UNCHANGED <<req, stamp, scan, span>>
          BY <1>4, <2>3 DEF Find
    <3>3. e \in Names BY <1>a, ExactType
    <3>4. path' \in [Requests -> Names \cup {None}] /\ path'[r] \in Names
          /\ \A q \in Requests : q # r => path'[q] = path[q]
          BY <1>a, <3>1, <3>3
    <3>5. LocalOK' BY <1>a, <3>2, <3>4, OpenCacheType, MoveOn
    <3> QED BY <1>4, <1>c, <2>1, <3>2, <3>5 DEF Find, TypeInv
  <2> QED BY <2>2, <2>3
<1>5. CASE Show(r)
  <2>1. FilesOK' BY <1>5, SameFilesType DEF Show
  <2>2. CASE Finish(r) BY <1>5, <1>d, <2>1, <2>2 DEF Show, TypeInv
  <2>3. CASE ~Finish(r)
    <3>1. LocalOK' BY <1>5, <1>a, <2>3, MoveOn DEF Show
    <3> QED BY <1>5, <1>c, <2>1, <2>3, <3>1 DEF Show, TypeInv
  <2> QED BY <2>2, <2>3
<1>6. CASE Mark(r)
  <2>1. FilesOK' BY <1>6, SameFilesType DEF Mark
  <2>2. CASE Finish(r) BY <1>6, <1>d, <2>1, <2>2 DEF Mark, TypeInv
  <2>3. CASE ~Finish(r)
    <3>1. PICK e \in Exact(Recs(File(r, "W"))[req[r].pos]) :
            path' = [path EXCEPT ![r] = e]
          BY <1>6, <2>3 DEF Mark
    <3>2. OpenCache(r, "W") /\ Goto(r, "rename") /\ UNCHANGED <<req, stamp, scan, span>>
          BY <1>6, <2>3 DEF Mark
    <3>3. e \in Names BY <1>a, ExactType
    <3>4. path' \in [Requests -> Names \cup {None}] /\ path'[r] \in Names
          /\ \A q \in Requests : q # r => path'[q] = path[q]
          BY <1>a, <3>1, <3>3
    <3>5. LocalOK' BY <1>a, <3>2, <3>4, OpenCacheType, MoveOn
    <3> QED BY <1>6, <1>c, <2>1, <3>2, <3>5 DEF Mark, TypeInv
  <2> QED BY <2>2, <2>3
<1>7. CASE Locate(r)
  <2>1. FilesOK' BY <1>7, SameFilesType DEF Locate
  <2>2. PICK x \in req[r].todo :
       /\ req' = [req EXCEPT ![r].todo = @ \ {x}, ![r].at = x, ![r].pos = x.pos]
       /\ IF Exact(x.name) = {}
          THEN /\ Goto(r, IF req[r].todo = {x} THEN "purge" ELSE "locate")
               /\ UNCHANGED path
          ELSE /\ \E e \in Exact(x.name) : path' = [path EXCEPT ![r] = e]
               /\ Goto(r, "rename")
        BY <1>7 DEF Locate
  <2>3. req' \in [Requests -> Reqs]
    <3>1. x \in Shown /\ x.pos \in Nat /\ req[r].todo \ {x} \in SUBSET Shown
      <4>1. req[r] \in Reqs BY <1>a
      <4>2. req[r].todo \subseteq Shown BY <4>1 DEF Reqs
      <4>3. x \in Shown BY <2>2, <4>2
      <4>4. x.pos \in Nat BY <4>3 DEF Shown
      <4> QED BY <4>2, <4>3, <4>4
    <3>2. \A T \in SUBSET Shown, y \in Shown, n \in Nat :
            [req[r] EXCEPT !.todo = T, !.at = y, !.pos = n] \in Reqs
          BY <1>a DEF Reqs
    <3>3. req' = [req EXCEPT ![r] =
            [req[r] EXCEPT !.todo = req[r].todo \ {x}, !.at = x, !.pos = x.pos]]
          BY <1>a, <2>2
    <3> QED BY <1>a, <3>1, <3>2, <3>3
  <2>4. LocalOK'
    <3>1. CASE Exact(x.name) = {}
      <4>1. PICK l \in {"purge", "locate"} : Goto(r, l) BY <2>2, <3>1
      <4> QED BY <1>7, <1>a, <2>2, <2>3, <3>1, <4>1, MoveOn DEF Locate
    <3>2. CASE Exact(x.name) # {}
      <4>1. PICK e \in Exact(x.name) : path' = [path EXCEPT ![r] = e] BY <2>2, <3>2
      <4>2. e \in Names BY <1>a, ExactType
      <4>3. path' \in [Requests -> Names \cup {None}] /\ path'[r] \in Names
            /\ \A q \in Requests : q # r => path'[q] = path[q]
            BY <1>a, <4>1, <4>2
      <4>4. Goto(r, "rename") BY <2>2, <3>2
      <4> QED BY <1>7, <1>a, <2>3, <4>3, <4>4, MoveOn DEF Locate
    <3> QED BY <3>1, <3>2
  <2> QED BY <1>7, <1>c, <2>1, <2>4 DEF Locate, TypeInv, dir
<1>8. CASE Unflagged(r)
  <2>1. FilesOK' BY <1>8, SameFilesType DEF Unflagged
  <2>2. CASE Finish(r) BY <1>8, <1>d, <2>1, <2>2 DEF Unflagged, TypeInv
  <2>3. CASE ~Finish(r)
    <3>1. PICK l \in {"purge", "locate"} : Goto(r, l)
          BY <1>8, <2>3 DEF Unflagged, AfterMark
    <3>2. UNCHANGED <<req, held, mode, stamp, scan, path, span>>
          BY <1>8, <2>3 DEF Unflagged, AfterMark
    <3>3. LocalOK' BY <1>a, <3>1, <3>2, MoveOn
    <3> QED BY <1>8, <1>c, <2>1, <3>2, <3>3 DEF Unflagged, TypeInv
  <2> QED BY <2>2, <2>3
<1>9. CASE Rename(r)
  <2>1. FilesOK' BY <1>9, SameFilesType DEF Rename
  <2>2. path[r] \in Names BY <1>9 DEF Rename, TypeInv, LocalOK, Control
  <2>3. AddFlag(path[r], Flag(r)) \in Names BY <2>2, AddFlagType DEF Flag
  <2>4. path' \in [Requests -> Names \cup {None}] /\ path'[r] \in Names
        /\ \A q \in Requests : q # r => path'[q] = path[q]
        BY <1>9, <1>a, <2>3 DEF Rename
  <2>5. LocalOK' BY <1>9, <1>a, <2>4, MoveOn DEF Rename
  <2>6. WorldOK'
    <3>1. CASE UNCHANGED dir BY <1>9, <1>c, <3>1 DEF Rename, dir
    <3>2. CASE path[r] \in entries
      <4>1. (entries \ {path[r]}) \cup {AddFlag(path[r], Flag(r))} \in SUBSET Names
            BY <1>a, <2>3 DEF WorldOK
      <4>2. Store((entries \ {path[r]}) \cup {AddFlag(path[r], Flag(r))})
            BY <1>9, <3>2 DEF Rename
      <4>3. UNCHANGED <<now, pages, ops>> /\ arrived' \subseteq Msgs
            BY <1>9, <1>a DEF Rename, world, bounds, WorldOK
      <4> QED BY <4>1, <4>2, <4>3, StoreType
    <3> QED BY <1>9, <3>1, <3>2 DEF Rename
  <2> QED BY <2>1, <2>5, <2>6 DEF TypeInv
<1>10. CASE Update(r)
  <2> DEFINE i == File(r, "W")
             p == req[r].pos
             b == idx[i].wrong \/ Misplaced(i, path[r], p)
             I == [idx EXCEPT ![i].recs[p] = path[r], ![i].wrong = b]
  <2>1. CASE Fetches(r, "W", p)
    <3>1. i \in Inodes /\ IsFile(idx[i]) /\ p \in DOMAIN idx[i].recs
          BY <2>1, OpenedFile DEF Fetches, Has, Recs
    <3>2. path[r] \in Names BY <1>10 DEF Update, TypeInv, LocalOK, Control
    <3>3. UNCHANGED named /\ Files(I) BY <1>10, <2>1 DEF Update
    <3>4. b \in BOOLEAN BY <3>1 DEF IsFile, IsIndex, Misplaced
    <3> HIDE DEF i, b, p
    <3>5. I = [idx EXCEPT ![i] = [idx[i] EXCEPT !.recs[p] = path[r], !.wrong = b]]
          BY <3>1 DEF TypeInv, FilesOK
    <3>6. IsFile([idx[i] EXCEPT !.recs[p] = path[r], !.wrong = b])
          BY <3>1, <3>2, <3>4, OverwrittenFile
    <3> DEFINE y == [idx[i] EXCEPT !.recs[p] = path[r], !.wrong = b]
    <3>7. \A j \in Inodes : I[j] = IF j = i THEN y ELSE idx[j]
          BY <3>1, <3>5 DEF TypeInv, FilesOK
    <3> HIDE DEF y, I
    <3>8. \A j \in Inodes : IsFile(I[j])
          BY <3>6, <3>7 DEF TypeInv, FilesOK, y
    <3>9. FilesOK' BY <3>3, <3>8, FilesType DEF TypeInv, FilesOK
    <3>10. CASE Finish(r) BY <1>10, <1>d, <3>9, <3>10 DEF Update, TypeInv
    <3>11. CASE ~Finish(r)
      <4>1. OpenCache(r, "W") /\ UNCHANGED <<req, stamp, scan, path, span>>
            BY <1>10, <2>1, <3>11 DEF Update, p
      <4>2. PICK l \in {"purge", "locate"} : Goto(r, l)
            BY <1>10, <2>1, <3>11 DEF Update, p
      <4>3. LocalOK' BY <1>a, <4>1, <4>2, OpenCacheType, MoveOn
      <4> QED BY <1>10, <1>c, <3>9, <4>1, <4>3 DEF Update, TypeInv
    <3> QED BY <3>10, <3>11
  <2>2. CASE ~Fetches(r, "W", p)
    <3>1. Finish(r) /\ SameFiles BY <1>10, <2>2 DEF Update
    <3> QED BY <1>10, <1>d, <3>1, SameFilesType DEF Update, TypeInv
  <2> QED BY <2>1, <2>2
<1>11. CASE Purge(r)
  <2>1. FilesOK' BY <1>11, SameFilesType DEF Purge
  <2>2. LocalOK' BY <1>11 DEF Purge, local, TypeInv, LocalOK, Control
  <2>3. PICK e \in entries : Store(entries \ {e}) BY <1>11 DEF Purge
  <2>4. UNCHANGED <<now, pages, ops>> /\ arrived' \subseteq Msgs
        BY <1>11, <1>a DEF Purge, world, bounds, WorldOK
  <2>5. entries \ {e} \in SUBSET Names BY <1>a DEF WorldOK
  <2> QED BY <2>1, <2>2, <2>3, <2>4, <2>5, StoreType DEF TypeInv
<1>12. CASE Purged(r)
  <2>1. FilesOK' BY <1>12, SameFilesType DEF Purged
  <2>2. CASE Finish(r) BY <1>12, <1>d, <2>1, <2>2 DEF Purged, TypeInv
  <2>3. CASE ~Finish(r)
    <3>1. LocalOK' BY <1>12, <1>a, <2>3, MoveOn DEF Purged
    <3> QED BY <1>12, <1>c, <2>1, <2>3, <3>1 DEF Purged, TypeInv
  <2> QED BY <2>2, <2>3
<1>13. CASE Redirect(r)
  <2>1. FilesOK' BY <1>13, SameFilesType DEF Redirect
  <2> QED BY <1>13, <1>d, <2>1 DEF Redirect, TypeInv
<1> QED BY <1>1, <1>2, <1>3, <1>4, <1>5, <1>6, <1>7, <1>8, <1>9, <1>10, <1>11,
           <1>12, <1>13 DEF Serve

\* A new request.
LEMMA BeginType ==
  ASSUME TypeInv, NEW r \in Requests, NEW op, NEW todo \in SUBSET Shown,
         NEW at \in Shown \cup {None}, NEW pos \in Nat,
         NEW l \in {"open", "read", "find", "locate", "remove"},
         ops < MaxOps, Begin(r, op, todo, at, pos, l)
  PROVE  TypeInv'
<1>1. FilesOK' BY SameFilesType DEF Begin
<1> DEFINE b == BuiltBefore /\ op \in Listing
<1>2. PICK o \in Preferred : req' = [req EXCEPT ![r] =
         [op |-> op, todo |-> todo, at |-> at, pos |-> pos, order |-> o,
          excuse |-> b]]
      BY DEF Begin
<1>3. [op |-> op, todo |-> todo, at |-> at, pos |-> pos, order |-> o,
       excuse |-> b] \in Reqs
  <2>1. op \in AllOps /\ o \in Orders
        BY OpsAssumption, OrdersAssumption DEF Begin
  <2>2. b \in BOOLEAN BY DEF BuiltBefore
  <2> HIDE DEF b
  <2> QED BY <2>1, <2>2 DEF Reqs
<1> HIDE DEF b
<1>4. LocalOK'
  <2>1. l \in PCs BY DEF PCs
  <2>2. /\ req' \in [Requests -> Reqs]
        /\ UNCHANGED <<held, mode, stamp, scan, path>> /\ Goto(r, l)
        BY <1>2, <1>3 DEF Begin, TypeInv, LocalOK
  <2> QED BY <2>1, <2>2, MoveOn DEF TypeInv, LocalOK, Control
<1>5. WorldOK'
  <2>1. entries \in SUBSET Names BY DEF TypeInv, WorldOK
  <2>2. [all |-> entries, some |-> entries] \in Spans /\ NoSpan \in Spans
        BY <2>1 DEF Spans, NoSpan
  <2>3. span' \in [Requests -> Spans] BY <2>2 DEF Begin, TypeInv, WorldOK
  <2>4. ops' \in 0..MaxOps BY BoundsAssumption DEF Begin, TypeInv, WorldOK
  <2> QED BY <2>3, <2>4 DEF Begin, TypeInv, WorldOK
<1> QED BY <1>1, <1>4, <1>5 DEF TypeInv

LEMMA StartType ==
  ASSUME TypeInv, NEW r \in Requests, Start(r)
  PROVE  TypeInv'
<1>a. pages \subseteq Shown /\ entries \subseteq Names /\ 0 \in Nat
      /\ {} \in SUBSET Shown /\ None \in Shown \cup {None} /\ ops < MaxOps
      BY DEF TypeInv, WorldOK, Start
<1>1. CASE StartFolder(r) BY <1>1, <1>a, BeginType DEF StartFolder
<1>2. CASE StartRead(r)
  <2>1. PICK x \in pages : Begin(r, "readmsg", {}, None, x.pos, "read")
        BY <1>2 DEF StartRead
  <2>2. x.pos \in Nat BY <1>a DEF Shown
  <2> QED BY <1>a, <2>1, <2>2, BeginType
<1>3. CASE StartFetch(r)
  <2>1. PICK x \in pages : Begin(r, "fetch", {}, None, x.pos, "find")
        BY <1>3 DEF StartFetch
  <2>2. x.pos \in Nat BY <1>a DEF Shown
  <2> QED BY <1>a, <2>1, <2>2, BeginType
<1>4. CASE StartDelete(r)
  <2>1. PICK S \in SUBSET pages, op \in {"delmsg", "folderdel"} :
          Begin(r, op, S, None, 0, "locate")
        BY <1>4 DEF StartDelete
  <2>2. S \in SUBSET Shown BY <1>a
  <2> QED BY <1>a, <2>1, <2>2, BeginType
<1>5. CASE StartDraft(r)
  <2>1. CASE Begin(r, "attach", {}, None, 0, "remove") BY <1>a, <2>1, BeginType
  <2>2. ASSUME NEW e \in entries,
               Begin(r, "preview", {}, [name |-> e, pos |-> 0], 0, "remove")
        PROVE  TypeInv'
    <3>1. [name |-> e, pos |-> 0] \in Shown \cup {None} BY <1>a DEF Shown
    <3> QED BY <1>a, <2>2, <3>1, BeginType
  <2> QED BY <1>5, <2>1, <2>2 DEF StartDraft
<1> QED BY <1>1, <1>2, <1>3, <1>4, <1>5 DEF Start

LEMMA OthersType ==
  ASSUME TypeInv, Arrive \/ Tick \/ \E r \in Requests : Kill(r)
  PROVE  TypeInv'
<1>1. CASE Arrive
  <2>1. PICK m \in Msgs \ arrived :
          /\ Store(entries \cup {[msg |-> m, flags |-> {}]})
          /\ arrived' = arrived \cup {m}
        BY <1>1 DEF Arrive
  <2>2. entries \cup {[msg |-> m, flags |-> {}]} \in SUBSET Names
        BY DEF TypeInv, WorldOK, Names
  <2>3. UNCHANGED <<now, pages, ops>> /\ arrived' \subseteq Msgs
        BY <1>1, <2>1 DEF Arrive, TypeInv, WorldOK
  <2>4. LocalOK' BY <1>1 DEF Arrive, local, TypeInv, LocalOK, Control
  <2>5. FilesOK' BY <1>1, SameFilesType DEF Arrive
  <2> QED BY <2>1, <2>2, <2>3, <2>4, <2>5, StoreType DEF TypeInv
<1>2. CASE Tick
  <2>1. LocalOK' BY <1>2 DEF Tick, local, TypeInv, LocalOK, Control
  <2>2. FilesOK' BY <1>2, SameFilesType DEF Tick
  <2>3. WorldOK' BY <1>2, BoundsAssumption DEF Tick, dir, bounds, TypeInv, WorldOK, Times
  <2> QED BY <2>1, <2>2, <2>3 DEF TypeInv
<1>3. ASSUME NEW r \in Requests, Kill(r) PROVE TypeInv'
  <2>1. LocalOK' /\ span' \in [Requests -> Spans] BY <1>3, FinishType DEF Kill
  <2>2. FilesOK' BY <1>3, SameFilesType DEF Kill
  <2>3. WorldOK' BY <1>3, <2>1 DEF Kill, world, bounds, TypeInv, WorldOK
  <2> QED BY <2>1, <2>2, <2>3 DEF TypeInv
<1> QED BY <1>1, <1>2, <1>3

LEMMA StepTypes == TypeInv /\ [Next]_vars => TypeInv'
<1> SUFFICES ASSUME TypeInv, [Next]_vars PROVE TypeInv' OBVIOUS
<1>1. CASE UNCHANGED vars
  <2>1. FilesOK' BY <1>1, SameFilesType DEF vars
  <2> QED BY <1>1, <2>1
          DEF vars, dir, local, bounds, TypeInv, LocalOK, Control, WorldOK
<1>2. CASE Next BY <1>2, StartType, ReloadType, ServeType, OthersType DEF Next
<1> QED BY <1>1, <1>2

\* Requests, files and the directory keep their types; a request that shows the
\* folder has an index, one that displays or renames a message has its name.
\* (opencache, maildir_posfind, maildir_msgdeletefile)
THEOREM IndexTypeCorrect == Spec => []TypeOK
<1>1. Spec => []TypeInv BY InitTypes, StepTypes, PTL DEF Spec
<1> QED BY <1>1, TypeInvTypes, PTL

-----------------------------------------------------------------------------
(* An index that looks current is right.                                   *)

\* The records of x are the directory, sorted, and their reverse keys agree.
Lists(x) ==
  /\ {x.recs[p] : p \in DOMAIN x.recs} = entries
  /\ \A p, q \in DOMAIN x.recs :
       p # q => /\ x.recs[p].msg # x.recs[q].msg
                /\ p < q => Sorted(x.order, x.recs[p], x.recs[q])
  /\ \A p \in DOMAIN x.recs : x.back[x.recs[p].msg] = p

Right(x) == mtime < x.save /\ ~x.wrong => Lists(x)
AllRight == \A i \in Inodes : Right(idx[i])

\* No time is in the future.
Clock ==
  /\ mtime <= now
  /\ \A r \in Requests : stamp[r] <= now
  /\ \A i \in Inodes : idx[i].save <= now

\* A message has one name.
OneName ==
  /\ \A e, f \in entries : e.msg = f.msg => e = f
  /\ \A e \in entries : e.msg \in arrived

\* Of a directory that has not changed since the second before the scan, names
\* have been read that are there still.
Scanned ==
  \A r \in Requests : mtime < stamp[r] /\ pc[r] = "scan" =>
    scan[r].due = entries /\ scan[r].seen \subseteq entries

IndexInv == AllRight /\ Clock /\ OneName /\ Scanned

LEMMA IndexInvRight == IndexInv /\ TypeInv => CurrentIndexIsRight
BY DEF IndexInv, AllRight, Right, Lists, TypeInv, FilesOK, CurrentIndexIsRight,
       Current, Listed

LEMMA InitIndex == Init => IndexInv
BY BoundsAssumption
   DEF Init, IndexInv, AllRight, Right, Clock, OneName, Scanned, EmptyIndex,
       NewIndex

\* Files are only forgotten.
FilesKept == \A i \in Inodes : idx'[i] = idx[i] \/ idx'[i] = EmptyIndex

\* r leaves the directory alone and is not reading it; the others stand still.
Calm(r) ==
  /\ UNCHANGED <<entries, mtime, now, arrived>>
  /\ pc'[r] # "scan"
  /\ stamp'[r] = stamp[r] \/ stamp'[r] = 0
  /\ \A q \in Requests : q # r =>
       pc'[q] = pc[q] /\ stamp'[q] = stamp[q] /\ scan'[q] = scan[q]

LEMMA KeptFiles == SameFiles \/ UNCHANGED idx \/ Files(idx) => FilesKept
BY DEF SameFiles, Files, FilesKept

LEMMA FinishCalm ==
  ASSUME TypeInv, NEW r \in Requests, Finish(r),
         UNCHANGED <<entries, mtime, world>>
  PROVE  Calm(r)
BY DEF Finish, Goto, Calm, world, bounds, TypeInv, LocalOK

LEMMA GotoCalm ==
  ASSUME TypeInv, NEW r \in Requests, NEW l \in PCs, l # "scan",
         Goto(r, l), UNCHANGED <<entries, mtime, now, arrived, stamp, scan>>
  PROVE  Calm(r)
BY DEF Goto, Calm, TypeInv, LocalOK

\* The clock and the empty file.
LEMMA KeptTimes ==
  ASSUME TypeInv, Clock, FilesKept, now' = now
  PROVE  \A i \in Inodes : idx'[i].save <= now'
<1>1. 0 <= now /\ now \in Nat BY BoundsAssumption DEF TypeInv, WorldOK, Times
<1>2. EmptyIndex.save = 0 BY DEF EmptyIndex, NewIndex
<1> QED BY <1>1, <1>2 DEF FilesKept, Clock

LEMMA CalmIndex ==
  ASSUME TypeInv, IndexInv, NEW r \in Requests, Calm(r),
         AllRight', \A i \in Inodes : idx'[i].save <= now'
  PROVE  IndexInv'
<1>1. 0 <= now BY BoundsAssumption DEF TypeInv, WorldOK, Times
<1>2. Clock'
  <2>1. \A q \in Requests : stamp'[q] <= now' BY <1>1 DEF Calm, IndexInv, Clock
  <2> QED BY <2>1 DEF Calm, IndexInv, Clock
<1>3. OneName' BY DEF Calm, IndexInv, OneName
<1>4. Scanned'
  <2>1. ASSUME NEW q \in Requests, mtime' < stamp'[q], pc'[q] = "scan"
        PROVE  scan'[q].due = entries' /\ scan'[q].seen \subseteq entries'
    <3>1. CASE q = r BY <2>1, <3>1 DEF Calm
    <3>2. CASE q # r BY <2>1, <3>2 DEF Calm, IndexInv, Scanned
    <3> QED BY <3>1, <3>2
  <2> QED BY <2>1 DEF Scanned
<1> QED BY <1>2, <1>3, <1>4 DEF IndexInv

LEMMA KeptRight ==
  ASSUME TypeInv, AllRight, FilesKept, UNCHANGED <<entries, mtime>>
  PROVE  AllRight'
<1>1. ASSUME NEW i \in Inodes PROVE Right(idx[i])'
  <2>1. CASE idx'[i] = idx[i] BY <2>1 DEF AllRight, Right, Lists, Sorted
  <2>2. CASE idx'[i] = EmptyIndex
    <3>1. ~(mtime < 0) BY BoundsAssumption DEF TypeInv, WorldOK, Times
    <3>2. idx'[i].save = 0 BY <2>2 DEF EmptyIndex, NewIndex
    <3> QED BY <3>1, <3>2 DEF Right
  <2> QED BY <2>1, <2>2 DEF FilesKept
<1> QED BY <1>1 DEF AllRight

LEMMA CalmKeptIndex ==
  ASSUME TypeInv, IndexInv, NEW r \in Requests, Calm(r), FilesKept
  PROVE  IndexInv'
BY CalmIndex, KeptRight, KeptTimes DEF Calm, IndexInv

\* After a change of the directory no index and no scan looks newer than it.
LEMMA StoreIndex ==
  ASSUME TypeInv, IndexInv, NEW E, Store(E), FilesKept,
         UNCHANGED <<now, stamp>>, OneName'
  PROVE  IndexInv'
<1>1. mtime' = now BY DEF Store
<1>2. now \in Nat BY BoundsAssumption DEF TypeInv, WorldOK, Times
<1>3. \A i \in Inodes : idx'[i].save <= now' /\ idx'[i].save \in Int
  <2>1. \A i \in Inodes : idx'[i].save <= now' BY KeptTimes DEF IndexInv
  <2>2. \A i \in Inodes : idx[i].save \in Int
        BY DEF TypeInv, FilesOK, IsFile, IsIndex, Times
  <2>3. EmptyIndex.save \in Int BY DEF EmptyIndex, NewIndex
  <2> QED BY <2>1, <2>2, <2>3 DEF FilesKept
<1>4. \A r \in Requests : stamp'[r] <= now' /\ stamp'[r] \in Int
      BY DEF IndexInv, Clock, TypeInv, LocalOK, Times
<1>5. Clock' BY <1>1, <1>2, <1>3, <1>4 DEF Clock
<1>6. AllRight'
  <2>1. \A i \in Inodes : ~(mtime' < idx'[i].save) BY <1>1, <1>2, <1>3
  <2> QED BY <2>1 DEF AllRight, Right
<1>7. Scanned'
  <2>1. \A r \in Requests : ~(mtime' < stamp'[r]) BY <1>1, <1>2, <1>4
  <2> QED BY <2>1 DEF Scanned
<1> QED BY <1>5, <1>6, <1>7 DEF IndexInv

\* A sorted listing of the directory is what Lists says.
LEMMA ListingLists ==
  ASSUME TypeInv, OneName, IsFiniteSet(entries), NEW t, NEW o \in Orders,
         NEW l \in Listings(entries, o), NEW w
  PROVE  Lists(NewIndex(t, o, l, w))
<1> DEFINE n == Cardinality(entries)
<1>1. n \in Nat BY FS_CardinalityType
<1>2. /\ l \in [0..n-1 -> entries]
      /\ \A e \in entries : \E i \in DOMAIN l : l[i] = e
      /\ \A i, j \in DOMAIN l : i < j => l[i] # l[j] /\ Sorted(o, l[i], l[j])
      BY DEF Listings
<1>3. DOMAIN l \subseteq Int BY <1>1, <1>2
<1>4. {l[p] : p \in DOMAIN l} = entries BY <1>2
<1>5. \A p, q \in DOMAIN l : p # q => l[p].msg # l[q].msg
  <2>1. ASSUME NEW p \in DOMAIN l, NEW q \in DOMAIN l, p # q, l[p].msg = l[q].msg
        PROVE  FALSE
    <3>1. l[p] = l[q] BY <1>2, <2>1 DEF OneName
    <3>2. p < q \/ q < p BY <1>3, <2>1
    <3> QED BY <1>2, <3>1, <3>2
  <2> QED BY <2>1
<1>6. ASSUME NEW p \in DOMAIN l PROVE Reverse(l)[l[p].msg] = p
  <2> DEFINE m == l[p].msg
  <2>1. m \in DOMAIN Reverse(l) BY DEF Reverse
  <2>2. entries \in SUBSET Names BY DEF TypeInv, WorldOK
  <2>3. Reverse(l)[m] \in DOMAIN l /\ l[Reverse(l)[m]].msg = m
        BY <1>1, <1>2, <2>1, <2>2, ReverseLeads
  <2> HIDE DEF m
  <2> QED BY <1>5, <2>3 DEF m
<1>7. /\ NewIndex(t, o, l, w).recs = l /\ NewIndex(t, o, l, w).order = o
      /\ NewIndex(t, o, l, w).back = Reverse(l)
      BY DEF NewIndex
<1> QED BY <1>2, <1>4, <1>5, <1>6, <1>7 DEF Lists

\* The steps that leave the directory alone and only forget files.
QuietStep(r) ==
  \/ Start(r) \/ ReloadOpen(r) \/ ReloadStat(r) \/ Check(r) \/ Remove(r)
  \/ Page(r) \/ Read(r) \/ Lookup(r) \/ Find(r) \/ Show(r) \/ Mark(r)
  \/ Locate(r) \/ Unflagged(r) \/ Purged(r) \/ Redirect(r) \/ Kill(r)

LEMMA BeginQuiet ==
  ASSUME TypeInv, NEW r \in Requests, Start(r)
  PROVE  Calm(r) /\ FilesKept
<1>1. ASSUME NEW op, NEW todo, NEW at, NEW pos, NEW l \in PCs,
             l # "scan", Begin(r, op, todo, at, pos, l)
      PROVE  Calm(r) /\ FilesKept
  <2>1. Calm(r) BY <1>1, GotoCalm DEF Begin
  <2>2. FilesKept BY <1>1, KeptFiles DEF Begin, file
  <2> QED BY <2>1, <2>2
<1>2. {"open", "read", "find", "locate", "remove"} \subseteq PCs BY DEF PCs
<1>3. CASE StartFolder(r) BY <1>1, <1>2, <1>3 DEF StartFolder
<1>4. CASE StartRead(r) BY <1>1, <1>2, <1>4 DEF StartRead
<1>5. CASE StartFetch(r) BY <1>1, <1>2, <1>5 DEF StartFetch
<1>6. CASE StartDelete(r) BY <1>1, <1>2, <1>6 DEF StartDelete
<1>7. CASE StartDraft(r) BY <1>1, <1>2, <1>7 DEF StartDraft
<1> QED BY <1>3, <1>4, <1>5, <1>6, <1>7 DEF Start

LEMMA QuietCalm ==
  ASSUME TypeInv, NEW r \in Requests, QuietStep(r)
  PROVE  Calm(r) /\ FilesKept
<1> USE DEF world, bounds, dir
<1>1. {"remove", "open", "stat", "check", "page", "read", "lookup", "find",
       "show", "mark", "rename", "update", "locate", "purge", "next", "stamp"}
        \subseteq PCs
      BY DEF PCs, Building
<1>2. CASE Start(r) BY <1>2, BeginQuiet
<1>3. CASE ReloadOpen(r) BY <1>1, <1>3, GotoCalm, KeptFiles DEF ReloadOpen
<1>4. CASE ReloadStat(r) BY <1>1, <1>4, GotoCalm, KeptFiles DEF ReloadStat
<1>5. CASE Check(r)
  <2>1. AfterCheck(r) \in {"page", "find", "lookup", "next"} BY DEF AfterCheck
  <2> QED BY <1>1, <1>5, <2>1, GotoCalm, KeptFiles DEF Check
<1>6. CASE Remove(r)
  <2>1. FilesKept BY <1>6, KeptFiles DEF Remove
  <2>2. CASE req[r].op = "preview" BY <1>1, <1>6, <2>1, <2>2, GotoCalm DEF Remove
  <2>3. CASE req[r].op # "preview" BY <1>6, <2>1, <2>3, FinishCalm DEF Remove
  <2> QED BY <2>1, <2>2, <2>3
<1>7. CASE Page(r) BY <1>1, <1>7, GotoCalm, KeptFiles DEF Page, file
<1>8. CASE Read(r)
  <2> DEFINE i == File(r, "W")
             p == Position(i, req[r].pos)
  <2>1. FilesKept BY <1>8, KeptFiles DEF Read
  <2>2. CASE Opens(r, "W") /\ Has(i, p) BY <1>1, <1>8, <2>1, <2>2, GotoCalm DEF Read
  <2>3. CASE ~(Opens(r, "W") /\ Has(i, p)) BY <1>8, <2>1, <2>3, FinishCalm DEF Read
  <2> QED BY <2>1, <2>2, <2>3
<1>9. CASE Lookup(r)
  <2> DEFINE b == Opens(r, "R") /\ req[r].at.name.msg \in DOMAIN idx[File(r, "R")].back
  <2>1. FilesKept BY <1>9, KeptFiles DEF Lookup
  <2>2. CASE b BY <1>1, <1>9, <2>1, <2>2, GotoCalm DEF Lookup
  <2>3. CASE ~b BY <1>9, <2>1, <2>3, FinishCalm DEF Lookup
  <2> QED BY <2>1, <2>2, <2>3
<1>10. CASE Find(r)
  <2> DEFINE b == Fetches(r, "R", req[r].pos)
                    /\ Exact(Recs(File(r, "R"))[req[r].pos]) # {}
  <2>1. FilesKept BY <1>10, KeptFiles DEF Find
  <2>2. CASE b BY <1>1, <1>10, <2>1, <2>2, GotoCalm DEF Find
  <2>3. CASE ~b BY <1>10, <2>1, <2>3, FinishCalm DEF Find
  <2> QED BY <2>1, <2>2, <2>3
<1>11. CASE Show(r)
  <2>1. FilesKept BY <1>11, KeptFiles DEF Show
  <2>2. CASE path[r] \in entries /\ req[r].op \in {"readmsg", "preview"}
        BY <1>1, <1>11, <2>1, <2>2, GotoCalm DEF Show
  <2>3. CASE ~(path[r] \in entries /\ req[r].op \in {"readmsg", "preview"})
        BY <1>11, <2>1, <2>3, FinishCalm DEF Show
  <2> QED BY <2>1, <2>2, <2>3
<1>12. CASE Mark(r)
  <2> DEFINE b == Fetches(r, "W", req[r].pos)
                    /\ Exact(Recs(File(r, "W"))[req[r].pos]) # {}
  <2>1. FilesKept BY <1>12, KeptFiles DEF Mark
  <2>2. CASE b BY <1>1, <1>12, <2>1, <2>2, GotoCalm DEF Mark
  <2>3. CASE ~b BY <1>12, <2>1, <2>3, FinishCalm DEF Mark
  <2> QED BY <2>1, <2>2, <2>3
<1>13. CASE Locate(r)
  <2>1. FilesKept BY <1>13, KeptFiles DEF Locate, file
  <2> QED BY <1>1, <1>13, <2>1, GotoCalm DEF Locate
<1>14. CASE Unflagged(r)
  <2>1. FilesKept BY <1>14, KeptFiles DEF Unflagged
  <2>2. CASE Reading(r) BY <1>14, <2>1, <2>2, FinishCalm DEF Unflagged, AfterMark
  <2>3. CASE ~Reading(r)
        BY <1>1, <1>14, <2>1, <2>3, GotoCalm DEF Unflagged, AfterMark
  <2> QED BY <2>1, <2>2, <2>3
<1>15. CASE Purged(r)
  <2>1. FilesKept BY <1>15, KeptFiles DEF Purged
  <2>2. CASE req[r].op = "delmsg" BY <1>1, <1>15, <2>1, <2>2, GotoCalm DEF Purged
  <2>3. CASE req[r].op # "delmsg" BY <1>15, <2>1, <2>3, FinishCalm DEF Purged
  <2> QED BY <2>1, <2>2, <2>3
<1>16. CASE Redirect(r) BY <1>16, FinishCalm, KeptFiles DEF Redirect
<1>17. CASE Kill(r) BY <1>17, FinishCalm, KeptFiles DEF Kill
<1> QED BY <1>2, <1>3, <1>4, <1>5, <1>6, <1>7, <1>8, <1>9, <1>10, <1>11, <1>12,
           <1>13, <1>14, <1>15, <1>16, <1>17 DEF QuietStep

\* One file gets a content that is right.
LEMMA WrittenIndex ==
  ASSUME TypeInv, IndexInv, NEW r \in Requests, Calm(r), NEW i \in Inodes,
         NEW y, Right(y), y.save <= now,
         idx'[i] = y \/ idx'[i] = EmptyIndex,
         \A j \in Inodes : j # i => idx'[j] = idx[j] \/ idx'[j] = EmptyIndex
  PROVE  IndexInv'
<1>0. EmptyIndex.save = 0 BY DEF EmptyIndex, NewIndex
<1>1. 0 <= now /\ ~(mtime < 0) BY BoundsAssumption DEF TypeInv, WorldOK, Times
<1>2. UNCHANGED <<entries, mtime, now>> BY DEF Calm
<1>3. AllRight'
  <2>1. ASSUME NEW j \in Inodes PROVE Right(idx[j])'
    <3>1. CASE idx'[j] = EmptyIndex BY <1>0, <1>1, <1>2, <3>1 DEF Right
    <3>2. CASE idx'[j] = idx[j]
          BY <1>2, <3>2 DEF IndexInv, AllRight, Right, Lists, Sorted
    <3>3. CASE idx'[j] = y BY <1>2, <3>3 DEF Right, Lists, Sorted
    <3> QED BY <3>1, <3>2, <3>3
  <2> QED BY <2>1 DEF AllRight
<1>4. \A j \in Inodes : idx'[j].save <= now'
      BY <1>0, <1>1, <1>2 DEF IndexInv, Clock
<1> QED BY <1>3, <1>4, CalmIndex

\* maildir_save_start and readdir
LEMMA ScanIndex ==
  ASSUME TypeInv, IndexInv, NEW r \in Requests,
         SaveStart(r) \/ ReadName(r)
  PROVE  IndexInv'
<1>1. UNCHANGED <<entries, mtime, now, arrived, idx>>
      BY DEF SaveStart, ReadName, dir, file, world, bounds
<1>2. /\ pc \in [Requests -> PCs] /\ stamp \in [Requests -> Times]
      /\ scan \in [Requests -> Scans]
      BY DEF TypeInv, LocalOK
<1>3. stamp'[r] <= now'
  <2>1. now <= now BY BoundsAssumption DEF TypeInv, WorldOK, Times
  <2> QED BY <1>1, <1>2, <2>1
          DEF SaveStart, ReadName, IndexInv, Clock
<1>4. \A q \in Requests : q # r =>
        pc'[q] = pc[q] /\ stamp'[q] = stamp[q] /\ scan'[q] = scan[q]
      BY <1>2 DEF SaveStart, ReadName, Goto
<1>5. Clock' BY <1>1, <1>3, <1>4 DEF IndexInv, Clock
<1>6. mtime' < stamp'[r] =>
        scan'[r].due = entries' /\ scan'[r].seen \subseteq entries'
  <2>1. CASE SaveStart(r)
    <3>1. pc'[r] = "scan" /\ scan'[r] = [due |-> entries, seen |-> {}]
          BY <1>2, <2>1 DEF SaveStart, Goto
    <3> QED BY <1>1, <3>1
  <2>2. CASE ReadName(r)
    <3>1. PICK e \in entries : scan' = [scan EXCEPT ![r].seen = @ \cup {e}]
          BY <2>2 DEF ReadName
    <3>2. scan'[r].due = scan[r].due /\ scan'[r].seen = scan[r].seen \cup {e}
          BY <1>2, <3>1 DEF Scans
    <3>3. pc'[r] = "scan" /\ pc[r] = "scan" /\ stamp'[r] = stamp[r]
          BY <2>2 DEF ReadName
    <3> QED BY <1>1, <3>2, <3>3 DEF IndexInv, Scanned
  <2> QED BY <2>1, <2>2
<1>7. Scanned'
  <2>1. ASSUME NEW q \in Requests, mtime' < stamp'[q], pc'[q] = "scan"
        PROVE  scan'[q].due = entries' /\ scan'[q].seen \subseteq entries'
    <3>1. CASE q = r BY <1>6, <2>1, <3>1
    <3>2. CASE q # r BY <1>1, <1>4, <2>1, <3>2 DEF IndexInv, Scanned
    <3> QED BY <3>1, <3>2
  <2> QED BY <2>1 DEF Scanned
<1>8. AllRight' BY <1>1 DEF IndexInv, AllRight, Right, Lists, Sorted
<1>9. OneName' BY <1>1 DEF IndexInv, OneName
<1> QED BY <1>5, <1>7, <1>8, <1>9 DEF IndexInv

\* maildir_save_end
LEMMA SavedIndex ==
  ASSUME TypeInv, IndexInv, NEW r \in Requests, SaveEnd(r)
  PROVE  IndexInv'
<1> DEFINE i == CHOOSE j \in Inodes \ InUse : TRUE
           S == scan[r].seen
           o == req[r].order
           w == ~Complete(r)
<1>1. i \in Inodes BY DEF SaveEnd
<1>2. PICK l \in Listings(S, o) : Files([idx EXCEPT ![i] = NewIndex(SaveTime(r), o, l, w)])
      BY DEF SaveEnd
<1> HIDE DEF i, w
<1>3. PICK y : y = NewIndex(SaveTime(r), o, l, w) OBVIOUS
<1>4. y.save = stamp[r] /\ y.wrong = w /\ o \in Orders
      BY <1>3 DEF NewIndex, SaveTime, TypeInv, LocalOK, Reqs
<1>5. Right(y)
  <2>1. ASSUME mtime < y.save, ~y.wrong PROVE Lists(y)
    <3>1. S = entries
      <4>1. scan[r].due = entries /\ S \subseteq entries
            BY <1>4, <2>1 DEF SaveEnd, IndexInv, Scanned
      <4>2. Complete(r) BY <1>4, <2>1 DEF w
      <4> QED BY <4>1, <4>2 DEF Complete
    <3>2. IsFiniteSet(entries) BY <3>1 DEF TypeInv, LocalOK, Control
    <3> QED BY <1>2, <1>3, <1>4, <3>1, <3>2, ListingLists DEF IndexInv
  <2> QED BY <2>1 DEF Right
<1>6. \A j \in Inodes : [idx EXCEPT ![i] = y][j] = IF j = i THEN y ELSE idx[j]
      BY <1>1 DEF TypeInv, FilesOK
<1>7. /\ idx'[i] = y \/ idx'[i] = EmptyIndex
      /\ \A j \in Inodes : j # i => idx'[j] = idx[j] \/ idx'[j] = EmptyIndex
      BY <1>1, <1>2, <1>3, <1>6 DEF Files
<1>8. Calm(r)
      BY DEF SaveEnd, Calm, Goto, TypeInv, LocalOK, dir, world, bounds
<1>9. y.save <= now BY <1>4 DEF IndexInv, Clock
<1> QED BY <1>1, <1>5, <1>7, <1>8, <1>9, WrittenIndex

\* update_foldermsgs: a name that belongs where it is written is there already.
LEMMA UpdatedIndex ==
  ASSUME TypeInv, IndexInv, NEW r \in Requests, Update(r)
  PROVE  IndexInv'
<1> DEFINE i == File(r, "W")
           p == req[r].pos
           b == idx[i].wrong \/ Misplaced(i, path[r], p)
<1>1. CASE Fetches(r, "W", p)
  <2>1. i \in Inodes /\ IsFile(idx[i]) /\ p \in DOMAIN idx[i].recs
        BY <1>1, OpenedFile DEF Fetches, Has, Recs
  <2>2. Files([idx EXCEPT ![i].recs[p] = path[r], ![i].wrong = b])
        BY <1>1 DEF Update
  <2>3. Calm(r)
    <3>1. CASE Finish(r) BY <3>1, FinishCalm DEF Update
    <3>2. CASE ~Finish(r)
      <4>1. UNCHANGED <<stamp, scan>> BY <1>1, <3>2 DEF Update
      <4>2. PICK l \in {"purge", "locate"} : Goto(r, l) BY <1>1, <3>2 DEF Update
      <4>3. l \in PCs /\ l # "scan" BY <4>2 DEF PCs
      <4> QED BY <4>1, <4>2, <4>3, GotoCalm DEF Update, world, bounds
    <3> QED BY <3>1, <3>2
  <2>4. Misplaced(i, path[r], p) <=>
          path[r] \notin entries \/ idx[i].recs[p].msg # path[r].msg
        BY DEF Misplaced, Recs
  <2> HIDE DEF i, p, b
  <2>5. PICK y : y = [idx[i] EXCEPT !.recs[p] = path[r], !.wrong = b] OBVIOUS
  <2>6. /\ y.save = idx[i].save /\ y.order = idx[i].order
        /\ y.back = idx[i].back /\ y.wrong = b
        /\ y.recs = [idx[i].recs EXCEPT ![p] = path[r]]
        BY <2>1, <2>5 DEF IsFile
  <2>7. Right(y)
    <3>1. ASSUME mtime < y.save, ~y.wrong PROVE Lists(y)
      <4>1. ~idx[i].wrong /\ path[r] \in entries /\ idx[i].recs[p].msg = path[r].msg
            BY <2>4, <2>6, <3>1 DEF b, i, p
      <4>2. Lists(idx[i])
            BY <2>1, <2>6, <3>1, <4>1 DEF IndexInv, AllRight, Right
      <4>3. idx[i].recs[p] = path[r]
            BY <2>1, <4>1, <4>2 DEF Lists, IndexInv, OneName
      <4>4. y.recs = idx[i].recs BY <2>1, <2>6, <4>3 DEF IsFile, IsIndex
      <4> QED BY <2>6, <4>2, <4>4 DEF Lists
    <3> QED BY <3>1 DEF Right
  <2>8. \A j \in Inodes : [idx EXCEPT ![i].recs[p] = path[r], ![i].wrong = b][j]
                            = IF j = i THEN y ELSE idx[j]
        BY <2>1, <2>5 DEF TypeInv, FilesOK
  <2>9. /\ idx'[i] = y \/ idx'[i] = EmptyIndex
        /\ \A j \in Inodes : j # i => idx'[j] = idx[j] \/ idx'[j] = EmptyIndex
        BY <2>1, <2>2, <2>8 DEF Files
  <2>10. y.save <= now BY <2>1, <2>6 DEF IndexInv, Clock
  <2> QED BY <2>1, <2>3, <2>7, <2>9, <2>10, WrittenIndex
<1>2. CASE ~Fetches(r, "W", p)
  <2>1. Finish(r) /\ SameFiles BY <1>2 DEF Update
  <2>2. Calm(r) BY <2>1, FinishCalm DEF Update
  <2> QED BY <2>1, <2>2, KeptFiles, CalmKeptIndex
<1> QED BY <1>1, <1>2

\* The directory changes.
LEMMA ChangedIndex ==
  ASSUME TypeInv, IndexInv,
         Arrive \/ \E r \in Requests : Rename(r) \/ Purge(r)
  PROVE  IndexInv'
<1>1. CASE Arrive
  <2>1. PICK m \in Msgs \ arrived :
          /\ Store(entries \cup {[msg |-> m, flags |-> {}]})
          /\ arrived' = arrived \cup {m}
        BY <1>1 DEF Arrive
  <2>2. FilesKept BY <1>1, KeptFiles DEF Arrive, file
  <2>3. UNCHANGED <<now, stamp>> BY <1>1 DEF Arrive, local
  <2>4. OneName'
    <3>1. PICK n : n = [msg |-> m, flags |-> {}] OBVIOUS
    <3>2. /\ entries' = entries \cup {n} /\ arrived' = arrived \cup {m}
          /\ n.msg = m /\ m \notin arrived
          BY <2>1, <3>1 DEF Store
    <3> QED BY <3>2 DEF IndexInv, OneName
  <2> QED BY <2>1, <2>2, <2>3, <2>4, StoreIndex
<1>2. ASSUME NEW r \in Requests, Purge(r) PROVE IndexInv'
  <2>1. PICK e \in entries : Store(entries \ {e}) BY <1>2 DEF Purge
  <2>2. FilesKept BY <1>2, KeptFiles DEF Purge, file
  <2>3. UNCHANGED <<now, arrived, stamp>>
        BY <1>2 DEF Purge, local, world, bounds
  <2>4. OneName' BY <2>1, <2>3 DEF Store, IndexInv, OneName
  <2> QED BY <2>1, <2>2, <2>3, <2>4, StoreIndex
<1>3. ASSUME NEW r \in Requests, Rename(r) PROVE IndexInv'
  <2> DEFINE new == AddFlag(path[r], Flag(r))
  <2>1. FilesKept BY <1>3, KeptFiles DEF Rename, file
  <2>2. UNCHANGED <<now, arrived, stamp, scan>> /\ Goto(r, "update")
        BY <1>3 DEF Rename, world, bounds
  <2>3. CASE path[r] \in entries
    <3>1. Store((entries \ {path[r]}) \cup {new}) BY <1>3, <2>3 DEF Rename
    <3>2. new.msg = path[r].msg
          BY <1>3, AddFlagType DEF Rename, Flag, TypeInv, LocalOK, Control
    <3> HIDE DEF new
    <3>3. OneName' BY <2>2, <2>3, <3>1, <3>2 DEF Store, IndexInv, OneName
    <3> QED BY <2>1, <2>2, <3>1, <3>3, StoreIndex
  <2>4. CASE path[r] \notin entries
    <3>1. UNCHANGED <<entries, mtime>> BY <1>3, <2>4 DEF Rename, dir
    <3>2. "update" \in PCs BY DEF PCs
    <3>3. Calm(r) BY <2>2, <3>1, <3>2, GotoCalm
    <3> QED BY <2>1, <3>3, CalmKeptIndex
  <2> QED BY <2>3, <2>4
<1> QED BY <1>1, <1>2, <1>3

LEMMA IndexSteps == TypeInv /\ IndexInv /\ [Next]_vars => IndexInv'
<1> SUFFICES ASSUME TypeInv, IndexInv, [Next]_vars PROVE IndexInv'
    OBVIOUS
<1>1. ASSUME NEW r \in Requests, QuietStep(r) PROVE IndexInv'
      BY <1>1, QuietCalm, CalmKeptIndex
<1>2. ASSUME NEW r \in Requests, Start(r) \/ Reload(r) \/ Serve(r) \/ Kill(r)
      PROVE  IndexInv'
  <2>1. \/ QuietStep(r) \/ SaveEnd(r) \/ Update(r) \/ Rename(r) \/ Purge(r)
        \/ SaveStart(r) \/ ReadName(r)
        BY <1>2 DEF QuietStep, Reload, Serve
  <2> QED BY <1>1, <2>1, ScanIndex, SavedIndex, UpdatedIndex, ChangedIndex
<1>3. CASE Arrive BY <1>3, ChangedIndex
<1>4. CASE Tick
  <2>1. now' = now + 1 /\ UNCHANGED <<dir, file, local, bounds>>
        BY <1>4 DEF Tick
  <2>2. /\ now \in Int /\ mtime \in Int /\ stamp \in [Requests -> Times]
        /\ \A i \in Inodes : idx[i].save \in Int
        BY BoundsAssumption
        DEF TypeInv, WorldOK, LocalOK, FilesOK, IsFile, IsIndex, Times
  <2>3. UNCHANGED <<entries, mtime, arrived, idx, pc, stamp, scan>>
        BY <2>1 DEF dir, file, local, bounds
  <2>4. Clock'
    <3>1. \A r \in Requests : stamp[r] \in Int BY <2>2 DEF Times
    <3> QED BY <2>1, <2>2, <2>3, <3>1 DEF IndexInv, Clock
  <2> QED BY <2>3, <2>4
          DEF IndexInv, AllRight, Right, Lists, Sorted, OneName, Scanned
<1>5. CASE UNCHANGED vars
      BY <1>5 DEF vars, dir, file, local, bounds, IndexInv, AllRight, Right,
                  Lists, Sorted, Clock, OneName, Scanned
<1> QED BY <1>2, <1>3, <1>4, <1>5 DEF Next

\* An index that looks newer than the directory lists it as it is, whatever came,
\* was marked and purged while it was made, unless the directory could not be
\* read to its end or a record was written at the position of an older index.
\* (maildir_reload, maildir_save_start, maildir_save_end, update_foldermsgs)
THEOREM CurrentIndexTheorem == Spec => []CurrentIndexIsRight
<1>1. Spec => [](TypeInv /\ IndexInv)
      BY InitTypes, StepTypes, InitIndex, IndexSteps, PTL DEF Spec
<1> QED BY <1>1, IndexInvRight, PTL

-----------------------------------------------------------------------------
(* The message displayed is the one that was named.                        *)

\* The locks of GDBM: two requests that have one file open both read it.
Exclusive ==
  \A r, q \in Requests :
    r # q /\ held[r] = held[q] /\ held[r] # None => mode[r] = "R" /\ mode[q] = "R"

\* The reverse keys lead to records of their message.
Leads(x) == ~x.wrong => \A m \in DOMAIN x.back : x.recs[x.back[m]].msg = m
AllLead == \A i \in Inodes : Leads(idx[i])

\* r has the index to itself.
Owns(r) == held[r] \in Inodes /\ mode[r] = "W"

\* A record at the position of the request is of the message it names.
Match(r) ==
  req[r].pos \in DOMAIN idx[held[r]].recs =>
    idx[held[r]].recs[req[r].pos].msg = req[r].at.name.msg

Displaying == {"show", "mark", "rename", "update"}

\* A request that displays a message keeps the index to itself from the record
\* it has read to the record it writes.
Reader(r) ==
  Reading(r) =>
    /\ pc[r] # "locate"
    /\ req[r].op = "readmsg" =>
         /\ pc[r] \notin {"open", "stat", "remove"}
         /\ pc[r] \in Building => req[r].excuse
    /\ ~req[r].excuse =>
         /\ pc[r] = "check" /\ req[r].op = "readmsg" =>
              Owns(r) /\ Match(r) /\ idx[held[r]].order = req[r].order
         /\ pc[r] = "lookup" => Owns(r)
         /\ pc[r] \in Displaying \cup {"find"} => Owns(r) /\ Match(r)
         /\ pc[r] \in Displaying => path[r].msg = req[r].at.name.msg

ReadInv == Exclusive /\ AllLead /\ \A r \in Requests : Reader(r)

LEMMA ReadInvShows == ReadInv => ShowsWhatItNames
BY DEF ReadInv, Reader, ShowsWhatItNames, Displaying

LEMMA InitRead == Init => ReadInv
<1> SUFFICES ASSUME Init PROVE ReadInv OBVIOUS
<1>1. Exclusive BY DEF Init, Exclusive
<1>2. AllLead
  <2>1. DOMAIN EmptyIndex.back = {} BY DEF EmptyIndex, NewIndex, Reverse
  <2> QED BY <2>1 DEF Init, AllLead, Leads
<1>3. \A r \in Requests : ~Reading(r) BY DEF Init, Reading, NoReq
<1> QED BY <1>1, <1>2, <1>3 DEF ReadInv, Reader

\* What r does to the others: nothing, and nothing to a file they own.
Apart(r) ==
  \A q \in Requests : q # r =>
    /\ pc'[q] = pc[q] /\ req'[q] = req[q] /\ held'[q] = held[q]
    /\ mode'[q] = mode[q] /\ path'[q] = path[q]
    /\ Owns(q) => idx'[held[q]] = idx[held[q]]

LEMMA ApartReaders ==
  ASSUME ReadInv, NEW r \in Requests, Apart(r), Reader(r)'
  PROVE  \A q \in Requests : Reader(q)'
<1>1. ASSUME NEW q \in Requests, q # r PROVE Reader(q)'
  <2>1. /\ pc'[q] = pc[q] /\ req'[q] = req[q] /\ held'[q] = held[q]
        /\ mode'[q] = mode[q] /\ path'[q] = path[q]
        /\ Owns(q) => idx'[held[q]] = idx[held[q]]
        BY <1>1 DEF Apart
  <2>2. Reader(q) BY DEF ReadInv
  <2>3. Reading(q)' = Reading(q) /\ Owns(q)' = Owns(q)
        BY <2>1 DEF Reading, Owns
  <2>4. Owns(q) => Match(q)' = Match(q) BY <2>1 DEF Match
  <2> QED BY <2>1, <2>2, <2>3, <2>4 DEF Reader
<1> QED BY <1>1

\* Files in use are not forgotten.
LEMMA InUseKept ==
  ASSUME NEW I, Files(I), NEW q \in Requests, held'[q] \in Inodes
  PROVE  idx'[held'[q]] = I[held'[q]]
BY DEF Files, InUse

LEMMA KeptInUse ==
  ASSUME SameFiles \/ Files(idx) \/ UNCHANGED idx, NEW q \in Requests,
         held'[q] \in Inodes
  PROVE  idx'[held'[q]] = idx[held'[q]]
BY InUseKept DEF SameFiles

LEMMA KeptLead ==
  ASSUME AllLead, FilesKept
  PROVE  AllLead'
<1>1. DOMAIN EmptyIndex.back = {} BY DEF EmptyIndex, NewIndex, Reverse
<1> QED BY <1>1 DEF AllLead, Leads, FilesKept

\* opencache keeps to the locks.
LEMMA OpenExclusive ==
  ASSUME TypeInv, Exclusive, NEW r \in Requests, NEW m \in {"R", "W"},
         OpenCache(r, m)
  PROVE  /\ Exclusive'
         /\ Opens(r, "W") /\ m = "W" => Owns(r)'
         /\ Owns(r) => Owns(r)' /\ held'[r] = held[r] /\ Opens(r, m) /\ File(r, m) = held[r]
<1>1. /\ held \in [Requests -> Inodes \cup {None}]
      /\ mode \in [Requests -> {"R", "W"}]
      BY DEF TypeInv, LocalOK
<1>2. /\ held' \in [Requests -> Inodes \cup {None}]
      /\ \A q \in Requests : q # r => held'[q] = held[q] /\ mode'[q] = mode[q]
      /\ Opens(r, m) => held'[r] = File(r, m) /\ held'[r] \in Inodes
      /\ ~Opens(r, m) => held'[r] = None
      BY OpenCacheType
<1>3. mode'[r] = IF Reuses(r, m) THEN mode[r] ELSE m BY <1>1 DEF OpenCache
<1>4. Exclusive'
  <2>1. ASSUME NEW q \in Requests, q # r, held'[r] = held'[q], held'[r] # None
        PROVE  mode'[r] = "R" /\ mode'[q] = "R"
    <3>1. CASE Reuses(r, m)
          BY <1>2, <1>3, <2>1, <3>1 DEF Opens, File, Exclusive
    <3>2. CASE ~Reuses(r, m)
      <4>1. held'[r] = named /\ Unlocked(r, m)
            BY <1>2, <2>1, <3>2 DEF Opens, File
      <4> QED BY <1>2, <1>3, <2>1, <3>2, <4>1 DEF Unlocked
    <3> QED BY <3>1, <3>2
  <2>2. \A p, q \in Requests : p # r /\ q # r =>
          held'[p] = held[p] /\ held'[q] = held[q]
          /\ mode'[p] = mode[p] /\ mode'[q] = mode[q]
        BY <1>2
  <2> QED BY <2>1, <2>2 DEF Exclusive
<1>5. Opens(r, "W") /\ m = "W" => Owns(r)'
      BY <1>2, <1>3 DEF Owns, Reuses, AlreadyOpen
<1>6. Owns(r) => Reuses(r, m) BY InodesAssumption DEF Owns, Reuses, AlreadyOpen
<1>7. Owns(r) => Owns(r)' /\ held'[r] = held[r] /\ Opens(r, m) /\ File(r, m) = held[r]
      BY <1>2, <1>3, <1>6 DEF Owns, Opens, File
<1> QED BY <1>4, <1>5, <1>7

\* A file is closed.
LEMMA CloseExclusive ==
  ASSUME Exclusive, NEW r \in Requests, held'[r] = None,
         \A q \in Requests : q # r => held'[q] = held[q] /\ mode'[q] = mode[q]
  PROVE  Exclusive'
BY DEF Exclusive

\* The locals of the others stand still.
Still(r) ==
  \A q \in Requests : q # r =>
    /\ pc'[q] = pc[q] /\ req'[q] = req[q] /\ held'[q] = held[q]
    /\ mode'[q] = mode[q] /\ path'[q] = path[q]

LEMMA StillReads ==
  ASSUME TypeInv, ReadInv, NEW r \in Requests, Still(r),
         SameFiles \/ Files(idx) \/ UNCHANGED idx,
         Exclusive', Reader(r)'
  PROVE  ReadInv'
<1>1. Apart(r) BY KeptInUse DEF Still, Apart, Owns
<1>2. AllLead' BY KeptFiles, KeptLead DEF ReadInv
<1> QED BY <1>1, <1>2, ApartReaders DEF ReadInv

LEMMA FinishStill ==
  ASSUME TypeInv, Exclusive, NEW r \in Requests, Finish(r)
  PROVE  Still(r) /\ Exclusive' /\ Reader(r)'
<1>1. /\ req'[r] = NoReq /\ held'[r] = None /\ Still(r)
      BY DEF Finish, Goto, Still, TypeInv, LocalOK
<1>2. Exclusive' BY <1>1, CloseExclusive DEF Still
<1>3. ~Reading(r)' BY <1>1 DEF Reading, NoReq
<1> QED BY <1>1, <1>2, <1>3 DEF Reader

LEMMA FinishReads ==
  ASSUME TypeInv, ReadInv, NEW r \in Requests, Finish(r),
         SameFiles \/ Files(idx) \/ UNCHANGED idx
  PROVE  ReadInv'
BY FinishStill, StillReads DEF ReadInv

\* maildir_reload and maildir_getfoldermsgs
LEMMA ReloadReads ==
  ASSUME TypeInv, ReadInv, NEW r \in Requests,
         \/ ReloadOpen(r) \/ ReloadStat(r) \/ Check(r) \/ Remove(r)
         \/ SaveStart(r) \/ ReadName(r)
  PROVE  ReadInv'
<1>a. /\ pc \in [Requests -> PCs] /\ req \in [Requests -> Reqs]
      /\ held \in [Requests -> Inodes \cup {None}]
      /\ mode \in [Requests -> {"R", "W"}]
      /\ Exclusive /\ Reader(r)
      BY DEF TypeInv, LocalOK, ReadInv
<1>b. ASSUME Close(r)
      PROVE  held'[r] = None /\ Exclusive'
             /\ \A q \in Requests : q # r => held'[q] = held[q] /\ mode'[q] = mode[q]
  <2>1. held'[r] = None
        /\ \A q \in Requests : q # r => held'[q] = held[q] /\ mode'[q] = mode[q]
        BY <1>a, <1>b DEF Close
  <2> QED BY <1>a, <2>1, CloseExclusive
<1>1. CASE ReloadOpen(r)
  <2>1. OpenCache(r, "W") /\ UNCHANGED path /\ SameFiles BY <1>1 DEF ReloadOpen
  <2>2. pc[r] = "open" /\ pc'[r] \in {"stat", "check"} /\ req'[r].op = req[r].op
        BY <1>1, <1>a DEF ReloadOpen, Goto, Excuse, Reqs
  <2>3. Still(r)
        BY <1>1, <1>a, <2>1, OpenCacheType DEF ReloadOpen, Still, Goto, Excuse
  <2>4. Reader(r)' BY <1>a, <2>2 DEF Reader, Reading, Building, Displaying
  <2> QED BY <1>a, <2>1, <2>3, <2>4, OpenExclusive, StillReads
<1>2. CASE ReloadStat(r)
  <2>1. UNCHANGED <<req, path>> /\ SameFiles BY <1>2 DEF ReloadStat
  <2>2. pc[r] = "stat" /\ pc'[r] \in {"stamp", "check"}
        BY <1>2, <1>a DEF ReloadStat, Goto
  <2>3. Still(r) /\ Exclusive'
    <3>1. CASE Close(r) BY <1>2, <1>a, <1>b, <2>1, <3>1 DEF ReloadStat, Still, Goto
    <3>2. CASE UNCHANGED <<held, mode>>
          BY <1>2, <1>a, <2>1, <3>2 DEF ReloadStat, Still, Goto, Exclusive
    <3> QED BY <1>2, <3>1, <3>2 DEF ReloadStat
  <2>4. Reader(r)' BY <1>a, <2>1, <2>2 DEF Reader, Reading, Building, Displaying
  <2> QED BY <2>1, <2>3, <2>4, StillReads
<1>3. CASE Check(r)
  <2>1. UNCHANGED <<req, path>> /\ SameFiles /\ pc[r] = "check" BY <1>3 DEF Check
  <2>2. CASE InOrder(r) /\ OpenCache(r, "W") /\ Goto(r, AfterCheck(r))
    <3>1. Opens(r, "W") BY <2>2 DEF InOrder
    <3>2. /\ Exclusive' /\ Owns(r)'
          /\ Owns(r) => held'[r] = held[r]
          BY <1>a, <2>2, <3>1, OpenExclusive
    <3>3. Still(r) BY <1>a, <2>1, <2>2, OpenCacheType DEF Still, Goto
    <3>4. pc'[r] = AfterCheck(r) BY <1>a, <2>2 DEF Goto
    <3>5. Reader(r)'
      <4>1. ASSUME Reading(r)
            PROVE  /\ pc'[r] \in {"find", "lookup"}
                   /\ ~req[r].excuse /\ pc'[r] = "find" => Match(r)'
        <5>1. CASE req[r].op = "readmsg"
          <6>1. pc'[r] = "find" BY <3>4, <5>1 DEF AfterCheck
          <6>2. ASSUME ~req[r].excuse PROVE Match(r)'
            <7>1. Owns(r) /\ Match(r) BY <1>a, <2>1, <4>1, <5>1, <6>2 DEF Reader
            <7>2. held'[r] = held[r] /\ held[r] \in Inodes
                  BY <3>2, <7>1 DEF Owns
            <7>3. idx'[held[r]] = idx[held[r]] BY <2>1, <7>2, KeptInUse
            <7> QED BY <2>1, <7>1, <7>2, <7>3 DEF Match
          <6> QED BY <6>1, <6>2
        <5>2. CASE req[r].op = "preview"
          <6>1. pc'[r] = "lookup" BY <3>4, <5>2 DEF AfterCheck
          <6> QED BY <6>1
        <5> QED BY <4>1, <5>1, <5>2 DEF Reading
      <4> QED BY <2>1, <3>2, <4>1 DEF Reader, Reading, Building, Displaying
    <3> QED BY <2>1, <3>2, <3>3, <3>5, StillReads
  <2>3. CASE ~InOrder(r) /\ Close(r) /\ Goto(r, "stamp")
    <3>1. Still(r) /\ Exclusive' BY <1>a, <1>b, <2>1, <2>3 DEF Still, Goto
    <3>2. ASSUME req[r].op = "readmsg", ~req[r].excuse PROVE FALSE
      <4>1. Owns(r) /\ idx[held[r]].order = req[r].order
            BY <1>a, <2>1, <3>2 DEF Reader, Reading
      <4>2. Opens(r, "W") /\ File(r, "W") = held[r]
            BY <4>1, InodesAssumption DEF Owns, Opens, File, Reuses, AlreadyOpen
      <4> QED BY <2>3, <4>1, <4>2 DEF InOrder
    <3>3. pc'[r] = "stamp" BY <1>a, <2>3 DEF Goto
    <3>4. Reader(r)' BY <2>1, <3>2, <3>3 DEF Reader, Reading, Building, Displaying
    <3> QED BY <2>1, <3>1, <3>4, StillReads
  <2> QED BY <1>3, <2>2, <2>3 DEF Check
<1>4. CASE Remove(r)
  <2>1. Files(idx) BY <1>4 DEF Remove
  <2>2. CASE req[r].op = "preview"
    <3>1. UNCHANGED <<req, held, mode, path>> /\ Goto(r, "open")
          BY <1>4, <2>2 DEF Remove
    <3>2. pc'[r] = "open" /\ Still(r) BY <1>a, <3>1 DEF Goto, Still
    <3>3. Exclusive' BY <1>a, <3>1 DEF Exclusive
    <3>4. Reader(r)' BY <2>2, <3>1, <3>2 DEF Reader, Reading, Building, Displaying
    <3> QED BY <2>1, <3>2, <3>3, <3>4, StillReads
  <2>3. CASE req[r].op # "preview"
        BY <1>4, <2>1, <2>3, FinishReads DEF Remove
  <2> QED BY <2>2, <2>3
<1>5. CASE SaveStart(r) \/ ReadName(r)
  <2>1. UNCHANGED <<req, held, mode, path, idx>>
        BY <1>5 DEF SaveStart, ReadName, file
  <2>2. pc[r] \in Building /\ pc'[r] \in Building /\ Still(r)
        BY <1>5, <1>a, <2>1 DEF SaveStart, ReadName, Goto, Building, Still
  <2>3. Exclusive' BY <1>a, <2>1 DEF Exclusive
  <2>4. Reader(r)' BY <1>a, <2>1, <2>2 DEF Reader, Reading, Building, Displaying
  <2> QED BY <2>1, <2>2, <2>3, <2>4, StillReads
<1> QED BY <1>1, <1>2, <1>3, <1>4, <1>5

\* The reverse keys of a new index lead to their messages.
LEMMA NewLeads ==
  ASSUME NEW S \in SUBSET Names, IsFiniteSet(S), NEW t, NEW o,
         NEW l \in Listings(S, o), NEW w
  PROVE  Leads(NewIndex(t, o, l, w))
<1>1. Cardinality(S) \in Nat BY FS_CardinalityType
<1>2. l \in [0..Cardinality(S)-1 -> S] BY DEF Listings
<1>3. \A n \in Nat : \A k \in [0..n-1 -> S] : \A m \in DOMAIN Reverse(k) :
        Reverse(k)[m] \in DOMAIN k /\ k[Reverse(k)[m]].msg = m
      BY ReverseLeads
<1>4. \A m \in DOMAIN Reverse(l) : l[Reverse(l)[m]].msg = m
      BY <1>1, <1>2, <1>3
<1> QED BY <1>4 DEF Leads, NewIndex

\* maildir_save_end
LEMMA SaveReads ==
  ASSUME TypeInv, ReadInv, NEW r \in Requests, SaveEnd(r)
  PROVE  ReadInv'
<1> DEFINE i == CHOOSE j \in Inodes \ InUse : TRUE
           S == scan[r].seen
           o == req[r].order
           w == ~Complete(r)
<1>1. i \in Inodes /\ i \notin InUse BY DEF SaveEnd
<1>2. PICK l \in Listings(S, o) : Files([idx EXCEPT ![i] = NewIndex(SaveTime(r), o, l, w)])
      BY DEF SaveEnd
<1> HIDE DEF i, w
<1>3. PICK y : y = NewIndex(SaveTime(r), o, l, w) OBVIOUS
<1>4. \A j \in Inodes : [idx EXCEPT ![i] = y][j] = IF j = i THEN y ELSE idx[j]
      BY <1>1 DEF TypeInv, FilesOK
<1>5. /\ UNCHANGED <<req, held, mode, path>> /\ Goto(r, "check") /\ pc[r] = "scan"
      /\ Files([idx EXCEPT ![i] = y])
      BY <1>2, <1>3 DEF SaveEnd
<1>6. pc'[r] = "check" /\ \A q \in Requests : q # r => pc'[q] = pc[q]
      BY <1>5 DEF Goto, TypeInv, LocalOK
<1>7. Apart(r)
  <2>1. ASSUME NEW q \in Requests, Owns(q) PROVE idx'[held[q]] = idx[held[q]]
    <3>1. held[q] \in Inodes /\ held[q] # i BY <1>1, <2>1 DEF Owns, InUse
    <3>2. held'[q] = held[q] BY <1>5
    <3> QED BY <1>4, <1>5, <3>1, <3>2, InUseKept
  <2> QED BY <1>5, <1>6, <2>1 DEF Apart
<1>8. Exclusive' BY <1>5 DEF ReadInv, Exclusive
<1>9. Reader(r)'
  <2>1. Reader(r) BY DEF ReadInv
  <2> QED BY <1>5, <1>6, <2>1 DEF Reader, Reading, Building, Displaying
<1>10. AllLead'
  <2>1. Leads(y)
    <3>1. S \in SUBSET Names /\ IsFiniteSet(S)
          BY DEF TypeInv, LocalOK, Control, Scans
    <3> HIDE DEF S, o
    <3> QED BY <1>2, <1>3, <3>1, NewLeads
  <2>2. Leads(EmptyIndex)
    <3>1. DOMAIN EmptyIndex.back = {} BY DEF EmptyIndex, NewIndex, Reverse
    <3> QED BY <3>1 DEF Leads
  <2>3. ASSUME NEW j \in Inodes PROVE Leads(idx'[j])
    <3>1. idx'[j] = EmptyIndex \/ idx'[j] = y \/ idx'[j] = idx[j]
          BY <1>4, <1>5 DEF Files
    <3> QED BY <2>1, <2>2, <3>1 DEF ReadInv, AllLead
  <2> QED BY <2>3 DEF AllLead, Leads
<1> QED BY <1>7, <1>8, <1>9, <1>10, ApartReaders DEF ReadInv

\* A position that has a record is the one that maildir_read goes by.
LEMMA PositionIs ==
  ASSUME TypeInv, NEW i \in Inodes, NEW p \in DOMAIN idx[i].recs
  PROVE  Position(i, p) = p
<1>1. PICK n \in Nat : DOMAIN idx[i].recs = 0..n-1 BY DEF TypeInv, FilesOK, IsFile
<1>2. Cardinality(0..n-1) = n BY FS_Interval
<1>3. Size(Recs(i)) = n BY <1>1, <1>2 DEF Size, Recs
<1>4. p <= n - 1 /\ p \in Int BY <1>1
<1> QED BY <1>3, <1>4 DEF Position

\* folder_initnextprev, maildir_name2pos, maildir_posfind
LEMMA FindReads ==
  ASSUME TypeInv, ReadInv, NEW r \in Requests,
         Read(r) \/ Lookup(r) \/ Find(r) \/ Show(r) \/ Mark(r)
  PROVE  ReadInv'
<1>a. /\ pc \in [Requests -> PCs] /\ req \in [Requests -> Reqs]
      /\ path \in [Requests -> Names \cup {None}]
      /\ Exclusive /\ Reader(r)
      BY DEF TypeInv, LocalOK, ReadInv
<1>b. SameFiles BY DEF Read, Lookup, Find, Show, Mark
<1>c. CASE Finish(r) BY <1>b, <1>c, FinishReads
<1>d. ASSUME Owns(r), held'[r] = held[r] PROVE idx'[held'[r]] = idx[held[r]]
      BY <1>b, <1>d, KeptInUse DEF Owns
<1>1. CASE Read(r) /\ ~Finish(r)
  <2> DEFINE i == File(r, "W")
             p == Position(i, req[r].pos)
  <2>1. Opens(r, "W") /\ Has(i, p) /\ OpenCache(r, "W") /\ Goto(r, "check")
        /\ UNCHANGED path
        /\ req' = [req EXCEPT
             ![r].at = [name |-> Recs(i)[p], pos |-> req[r].pos],
             ![r].excuse = idx[i].order # req[r].order]
        BY <1>1 DEF Read
  <2>2. /\ req'[r].op = req[r].op /\ req'[r].pos = req[r].pos
        /\ req'[r].at.name = Recs(i)[p] /\ req'[r].order = req[r].order
        /\ req'[r].excuse = (idx[i].order # req[r].order)
        BY <1>a, <2>1 DEF Reqs
  <2>3. i \in Inodes /\ held'[r] = i BY <2>1, OpenedFile, OpenCacheType
  <2>4. Still(r) BY <1>a, <2>1, OpenCacheType DEF Still, Goto
  <2>5. Exclusive' /\ Owns(r)' BY <1>a, <2>1, OpenExclusive
  <2> HIDE DEF i
  <2>6. idx'[i] = idx[i] BY <1>b, <2>3, KeptInUse
  <2>7. Match(r)'
    <3>1. ASSUME req[r].pos \in DOMAIN idx[i].recs
          PROVE  idx[i].recs[req[r].pos].msg = req'[r].at.name.msg
      <4>1. p = req[r].pos BY <2>3, <3>1, PositionIs
      <4> QED BY <2>2, <4>1 DEF Recs
    <3> QED BY <2>2, <2>3, <2>6, <3>1 DEF Match
  <2>8. pc'[r] = "check" BY <1>a, <2>1 DEF Goto
  <2>9. ~req'[r].excuse => idx'[held'[r]].order = req'[r].order
        BY <2>2, <2>3, <2>6
  <2>10. Reader(r)'
         BY <2>5, <2>7, <2>8, <2>9 DEF Reader, Reading, Building, Displaying
  <2> QED BY <1>b, <2>4, <2>5, <2>10, StillReads
<1>2. CASE Lookup(r) /\ ~Finish(r)
  <2> DEFINE i == File(r, "R")
             m == req[r].at.name.msg
  <2>1. /\ Opens(r, "R") /\ m \in DOMAIN idx[i].back /\ OpenCache(r, "R")
        /\ req' = [req EXCEPT ![r].pos = idx[i].back[m],
                              ![r].excuse = @ \/ idx[i].wrong]
        /\ Goto(r, "find") /\ UNCHANGED path /\ pc[r] = "lookup"
        BY <1>2 DEF Lookup
  <2>2. /\ req'[r].op = req[r].op /\ req'[r].pos = idx[i].back[m]
        /\ req'[r].at = req[r].at
        /\ req'[r].excuse = (req[r].excuse \/ idx[i].wrong)
        BY <1>a, <2>1 DEF Reqs
  <2>3. Still(r) BY <1>a, <2>1, OpenCacheType DEF Still, Goto
  <2>4. Exclusive' BY <1>a, <2>1, OpenExclusive
  <2>5. pc'[r] = "find" BY <1>a, <2>1 DEF Goto
  <2>6. ASSUME Reading(r), ~req'[r].excuse PROVE Owns(r)' /\ Match(r)'
    <3>1. Owns(r) BY <1>a, <2>1, <2>2, <2>6 DEF Reader
    <3>2. Owns(r)' /\ held'[r] = held[r] /\ i = held[r]
          BY <1>a, <2>1, <3>1, OpenExclusive
    <3>3. idx'[held'[r]] = idx[i] /\ i \in Inodes BY <1>d, <3>1, <3>2 DEF Owns
    <3>4. idx[i].recs[idx[i].back[m]].msg = m
          BY <2>1, <2>2, <2>6, <3>3 DEF ReadInv, AllLead, Leads
    <3> QED BY <2>2, <3>2, <3>3, <3>4 DEF Match
  <2>7. Reader(r)' BY <2>2, <2>5, <2>6 DEF Reader, Reading, Building, Displaying
  <2> QED BY <1>b, <2>3, <2>4, <2>7, StillReads
<1>3. CASE (Find(r) \/ Mark(r)) /\ ~Finish(r)
  <2>1. PICK m \in {"R", "W"} :
          /\ OpenCache(r, m)
          /\ \E e \in Exact(Recs(File(r, m))[req[r].pos]) : path' = [path EXCEPT ![r] = e]
          /\ Fetches(r, m, req[r].pos)
          /\ UNCHANGED req
          /\ \/ pc[r] = "find" /\ Goto(r, "show")
             \/ pc[r] = "mark" /\ Goto(r, "rename")
        BY <1>3 DEF Find, Mark
  <2>2. PICK e \in Exact(Recs(File(r, m))[req[r].pos]) : path' = [path EXCEPT ![r] = e]
        BY <2>1
  <2>3. path'[r] = e /\ \A q \in Requests : q # r => path'[q] = path[q]
        BY <1>a, <2>2
  <2>4. e.msg = Recs(File(r, m))[req[r].pos].msg BY DEF Exact, Found
  <2>5. Still(r) BY <1>a, <2>1, <2>3, OpenCacheType DEF Still, Goto
  <2>6. Exclusive' BY <1>a, <2>1, OpenExclusive
  <2>7. pc[r] \in {"find", "mark"} /\ pc'[r] \in {"show", "rename"}
        BY <1>a, <2>1 DEF Goto
  <2>8. ASSUME Reading(r), ~req[r].excuse
        PROVE  Owns(r)' /\ Match(r)' /\ path'[r].msg = req[r].at.name.msg
    <3>1. Owns(r) /\ Match(r) BY <1>a, <2>7, <2>8 DEF Reader, Displaying
    <3>2. Owns(r)' /\ held'[r] = held[r] /\ File(r, m) = held[r]
          BY <1>a, <2>1, <3>1, OpenExclusive
    <3>3. idx'[held'[r]] = idx[held[r]] BY <1>d, <3>1, <3>2
    <3>4. req[r].pos \in DOMAIN idx[held[r]].recs
          BY <2>1, <3>2 DEF Fetches, Has, Recs
    <3>5. Match(r)' BY <2>1, <3>1, <3>2, <3>3 DEF Match
    <3>6. path'[r].msg = req[r].at.name.msg
          BY <2>3, <2>4, <3>1, <3>2, <3>4 DEF Match, Recs
    <3> QED BY <3>2, <3>5, <3>6
  <2>9. Reader(r)' BY <2>1, <2>7, <2>8 DEF Reader, Reading, Building, Displaying
  <2> QED BY <1>b, <2>5, <2>6, <2>9, StillReads
<1>4. CASE Show(r) /\ ~Finish(r)
  <2>1. Goto(r, "mark") /\ UNCHANGED <<req, held, mode, path>> /\ pc[r] = "show"
        BY <1>4 DEF Show
  <2>2. pc'[r] = "mark" /\ Still(r) BY <1>a, <2>1 DEF Goto, Still
  <2>3. Exclusive' BY <1>a, <2>1 DEF Exclusive
  <2>4. Owns(r) => Owns(r)' /\ idx'[held'[r]] = idx[held[r]]
        BY <1>d, <2>1 DEF Owns
  <2>5. Owns(r) /\ Match(r) => Match(r)' BY <2>1, <2>4 DEF Match
  <2>6. Reader(r)'
        BY <1>a, <2>1, <2>2, <2>4, <2>5 DEF Reader, Reading, Building, Displaying
  <2> QED BY <1>b, <2>2, <2>3, <2>6, StillReads
<1> QED BY <1>c, <1>1, <1>2, <1>3, <1>4

\* update_foldermsgs: the file is one that nobody else owns.
LEMMA UpdateReads ==
  ASSUME TypeInv, ReadInv, NEW r \in Requests, Update(r)
  PROVE  ReadInv'
<1> DEFINE i == File(r, "W")
           p == req[r].pos
           b == idx[i].wrong \/ Misplaced(i, path[r], p)
<1>1. CASE Fetches(r, "W", p)
  <2>1. i \in Inodes /\ IsFile(idx[i]) /\ p \in DOMAIN idx[i].recs
        BY <1>1, OpenedFile DEF Fetches, Has, Recs
  <2>2. Files([idx EXCEPT ![i].recs[p] = path[r], ![i].wrong = b])
        BY <1>1 DEF Update
  <2>3. ~Misplaced(i, path[r], p) => idx[i].recs[p].msg = path[r].msg
        BY DEF Misplaced, Recs
  <2>4. Still(r) /\ Exclusive' /\ Reader(r)'
    <3>1. CASE Finish(r) BY <3>1, FinishStill DEF ReadInv
    <3>2. CASE ~Finish(r)
      <4>1. ~Reading(r) /\ OpenCache(r, "W") /\ UNCHANGED <<req, path>>
            BY <1>1, <3>2 DEF Update
      <4>2. PICK l \in {"purge", "locate"} : Goto(r, l) BY <1>1, <3>2 DEF Update
      <4>3. Still(r)
            BY <4>1, <4>2, OpenCacheType DEF Still, Goto, TypeInv, LocalOK
      <4>4. Exclusive' BY <4>1, OpenExclusive DEF ReadInv
      <4> QED BY <4>1, <4>3, <4>4 DEF Reader, Reading
    <3> QED BY <3>1, <3>2
  <2>5. ASSUME NEW q \in Requests, q # r, Owns(q) PROVE held[q] # i
    <3>1. Opens(r, "W") BY <1>1 DEF Fetches
    <3> QED BY <2>5, <3>1, InodesAssumption
            DEF Opens, File, Reuses, AlreadyOpen, Unlocked, Owns, ReadInv, Exclusive
  <2> HIDE DEF i, p, b
  <2>6. PICK y : y = [idx[i] EXCEPT !.recs[p] = path[r], !.wrong = b] OBVIOUS
  <2>7. \A j \in Inodes : [idx EXCEPT ![i].recs[p] = path[r], ![i].wrong = b][j]
                            = IF j = i THEN y ELSE idx[j]
        BY <2>1, <2>6 DEF TypeInv, FilesOK
  <2>8. Apart(r)
    <3>1. ASSUME NEW q \in Requests, q # r, Owns(q) PROVE idx'[held[q]] = idx[held[q]]
      <4>1. held'[q] = held[q] /\ held[q] \in Inodes /\ held[q] # i
            BY <2>4, <2>5, <3>1 DEF Still, Owns
      <4> QED BY <2>2, <2>7, <4>1, InUseKept
    <3> QED BY <2>4, <3>1 DEF Still, Apart
  <2>9. Leads(y)
    <3>1. /\ y.back = idx[i].back /\ y.wrong = b
          /\ y.recs = [idx[i].recs EXCEPT ![p] = path[r]]
          BY <2>1, <2>6 DEF IsFile
    <3>2. ASSUME ~b, NEW m \in DOMAIN idx[i].back
          PROVE  y.recs[idx[i].back[m]].msg = m
      <4>1. idx[i].recs[idx[i].back[m]].msg = m
            BY <2>1, <3>2 DEF ReadInv, AllLead, Leads, b
      <4>2. idx[i].recs[p].msg = path[r].msg BY <2>3, <3>2 DEF b, i, p
      <4>3. idx[i].back[m] \in DOMAIN idx[i].recs BY <2>1, <3>2 DEF IsFile, IsIndex
      <4> QED BY <3>1, <4>1, <4>2, <4>3
    <3> QED BY <3>1, <3>2 DEF Leads
  <2>10. AllLead'
    <3>1. Leads(EmptyIndex)
      <4>1. DOMAIN EmptyIndex.back = {} BY DEF EmptyIndex, NewIndex, Reverse
      <4> QED BY <4>1 DEF Leads
    <3>2. ASSUME NEW j \in Inodes PROVE Leads(idx'[j])
      <4>1. idx'[j] = EmptyIndex \/ idx'[j] = y \/ idx'[j] = idx[j]
            BY <2>2, <2>7 DEF Files
      <4> QED BY <2>9, <3>1, <4>1 DEF ReadInv, AllLead
    <3> QED BY <3>2 DEF AllLead, Leads
  <2> QED BY <2>4, <2>8, <2>10, ApartReaders DEF ReadInv
<1>2. CASE ~Fetches(r, "W", p) BY <1>2, FinishReads DEF Update
<1> QED BY <1>1, <1>2

\* The other steps of a request.
LEMMA ServeReads ==
  ASSUME TypeInv, ReadInv, NEW r \in Requests,
         \/ Page(r) \/ Locate(r) \/ Unflagged(r) \/ Rename(r) \/ Purge(r)
         \/ Purged(r) \/ Redirect(r) \/ Kill(r)
  PROVE  ReadInv'
<1>a. /\ pc \in [Requests -> PCs] /\ req \in [Requests -> Reqs]
      /\ path \in [Requests -> Names \cup {None}]
      /\ Exclusive /\ Reader(r)
      BY DEF TypeInv, LocalOK, ReadInv
<1>b. SameFiles \/ UNCHANGED idx
      BY DEF Page, Locate, Unflagged, Rename, Purge, Purged, Redirect, Kill, file
<1>c. CASE Finish(r) BY <1>b, <1>c, FinishReads
<1>d. UNCHANGED <<held, mode>> => Exclusive' BY <1>a DEF Exclusive
<1>1. CASE Page(r)
  <2>1. UNCHANGED <<req, held, mode, path>> /\ pc'[r] = "purge" /\ Still(r)
        BY <1>1, <1>a DEF Page, Goto, Still
  <2>2. Reader(r)' BY <2>1 DEF Reader, Building, Displaying
  <2> QED BY <1>b, <1>d, <2>1, <2>2, StillReads
<1>2. CASE Locate(r)
  <2>1. PICK x \in req[r].todo :
          /\ req' = [req EXCEPT ![r].todo = @ \ {x}, ![r].at = x, ![r].pos = x.pos]
          /\ \/ UNCHANGED path
             \/ \E e \in Exact(x.name) : path' = [path EXCEPT ![r] = e]
        BY <1>2 DEF Locate
  <2>2. PICK l \in PCs : Goto(r, l) BY <1>2 DEF Locate, PCs
  <2>3. UNCHANGED <<held, mode>> BY <1>2 DEF Locate
  <2>4. ~Reading(r) BY <1>2, <1>a DEF Locate, Reader
  <2>5. req'[r].op = req[r].op BY <1>a, <2>1 DEF Reqs
  <2>6. Still(r) BY <1>a, <2>1, <2>2, <2>3 DEF Still, Goto
  <2>7. Reader(r)' BY <2>4, <2>5 DEF Reader, Reading
  <2> QED BY <1>b, <1>d, <2>3, <2>6, <2>7, StillReads
<1>3. CASE Unflagged(r) /\ ~Finish(r)
  <2>1. ~Reading(r) /\ UNCHANGED <<req, held, mode, path>>
        BY <1>3 DEF Unflagged, AfterMark
  <2>2. PICK l \in {"purge", "locate"} : Goto(r, l)
        BY <1>3 DEF Unflagged, AfterMark
  <2>3. Still(r) BY <1>a, <2>1, <2>2 DEF Still, Goto
  <2>4. Reader(r)' BY <2>1 DEF Reader, Reading
  <2> QED BY <1>b, <1>d, <2>1, <2>3, <2>4, StillReads
<1>4. CASE Rename(r)
  <2>1. UNCHANGED <<req, held, mode, idx>> /\ Goto(r, "update") /\ pc[r] = "rename"
        /\ path' = [path EXCEPT ![r] = AddFlag(path[r], Flag(r))]
        BY <1>4 DEF Rename, file
  <2>2. pc'[r] = "update" /\ Still(r) BY <1>a, <2>1 DEF Goto, Still
  <2>3. path'[r].msg = path[r].msg
    <3>1. path[r] \in Names BY <2>1 DEF TypeInv, LocalOK, Control
    <3>2. AddFlag(path[r], Flag(r)).msg = path[r].msg
          BY <3>1, AddFlagType DEF Flag
    <3> QED BY <1>a, <2>1, <3>2
  <2>4. Reader(r)'
        BY <1>a, <2>1, <2>2, <2>3
        DEF Reader, Reading, Owns, Match, Building, Displaying
  <2> QED BY <1>b, <1>d, <2>1, <2>2, <2>4, StillReads
<1>5. CASE Purge(r)
  <2>1. UNCHANGED <<pc, req, held, mode, path, idx>> BY <1>5 DEF Purge, local, file
  <2>2. Still(r) BY <2>1 DEF Still
  <2>3. Reader(r)' BY <1>a, <2>1 DEF Reader, Reading, Owns, Match
  <2> QED BY <1>b, <1>d, <2>1, <2>2, <2>3, StillReads
<1>6. CASE Purged(r) /\ ~Finish(r)
  <2>1. Goto(r, "open") /\ UNCHANGED <<req, held, mode, path>> /\ ~Reading(r)
        BY <1>6 DEF Purged, Reading
  <2>2. Still(r) BY <1>a, <2>1 DEF Goto, Still
  <2>3. Reader(r)' BY <2>1 DEF Reader, Reading
  <2> QED BY <1>b, <1>d, <2>1, <2>2, <2>3, StillReads
<1>7. CASE (Redirect(r) \/ Kill(r)) /\ ~Finish(r) BY <1>7 DEF Redirect, Kill
<1> QED BY <1>c, <1>1, <1>2, <1>3, <1>4, <1>5, <1>6, <1>7

\* A new request.
LEMMA StartReads ==
  ASSUME TypeInv, ReadInv, NEW r \in Requests, Start(r)
  PROVE  ReadInv'
<1>1. ASSUME NEW op, NEW todo, NEW at, NEW pos, NEW l \in PCs,
             op = "readmsg" => l = "read",
             op = "preview" => l = "remove",
             Begin(r, op, todo, at, pos, l)
      PROVE  ReadInv'
  <2>1. /\ UNCHANGED <<held, mode, path, idx>> /\ Still(r)
        /\ pc'[r] = l /\ req'[r].op = op
        BY <1>1 DEF Begin, Goto, Still, file, TypeInv, LocalOK
  <2>2. Exclusive' BY <2>1 DEF ReadInv, Exclusive
  <2>3. Reader(r)' BY <1>1, <2>1 DEF Reader, Reading, Building, Displaying
  <2> QED BY <2>1, <2>2, <2>3, StillReads
<1>2. {"open", "read", "find", "locate", "remove"} \subseteq PCs BY DEF PCs
<1>3. CASE StartFolder(r) BY <1>1, <1>2, <1>3 DEF StartFolder
<1>4. CASE StartRead(r) BY <1>1, <1>2, <1>4 DEF StartRead
<1>5. CASE StartFetch(r) BY <1>1, <1>2, <1>5 DEF StartFetch
<1>6. CASE StartDelete(r) BY <1>1, <1>2, <1>6 DEF StartDelete
<1>7. CASE StartDraft(r) BY <1>1, <1>2, <1>7 DEF StartDraft
<1> QED BY <1>3, <1>4, <1>5, <1>6, <1>7 DEF Start

LEMMA ReadSteps == TypeInv /\ ReadInv /\ [Next]_vars => ReadInv'
<1> SUFFICES ASSUME TypeInv, ReadInv, [Next]_vars PROVE ReadInv'
    OBVIOUS
<1>1. ASSUME NEW r \in Requests, Start(r) \/ Reload(r) \/ Serve(r) \/ Kill(r)
      PROVE  ReadInv'
  <2>1. \/ Start(r) \/ SaveEnd(r) \/ Update(r) \/ Kill(r)
        \/ (\/ ReloadOpen(r) \/ ReloadStat(r) \/ Check(r) \/ Remove(r)
            \/ SaveStart(r) \/ ReadName(r))
        \/ (Read(r) \/ Lookup(r) \/ Find(r) \/ Show(r) \/ Mark(r))
        \/ (\/ Page(r) \/ Locate(r) \/ Unflagged(r) \/ Rename(r) \/ Purge(r)
            \/ Purged(r) \/ Redirect(r) \/ Kill(r))
        BY <1>1 DEF Reload, Serve
  <2> QED BY <2>1, StartReads, SaveReads, UpdateReads, ReloadReads, FindReads,
             ServeReads
<1>2. CASE Arrive \/ Tick \/ UNCHANGED vars
  <2>1. UNCHANGED <<pc, req, held, mode, path, idx>>
        BY <1>2 DEF Arrive, Tick, vars, local, file
  <2> QED BY <2>1 DEF ReadInv, Exclusive, AllLead, Leads, Reader, Reading, Owns,
                      Match
<1> QED BY <1>1, <1>2 DEF Next

\* The message a page displays and marks as read is the one whose name its
\* buttons carry, whatever others do to the folder and to its index meanwhile,
\* if the index was in the preferred order to begin with -- and, for a preview,
\* if the index was not busy, being made, incomplete or overwritten.
\* (folder_initnextprev, folder_showmsg, maildir_markread)
THEOREM ShowsTheorem == Spec => []ShowsWhatItNames
<1>1. Spec => [](TypeInv /\ ReadInv)
      BY InitTypes, StepTypes, InitRead, ReadSteps, PTL DEF Spec
<1> QED BY <1>1, ReadInvShows, PTL

-----------------------------------------------------------------------------
(* The page of a folder lists what was there.                              *)

\* What r has watched is what there is; a file that lists what r has watched;
\* a scan of q that will.
Watched(r) == span[r].all \subseteq entries /\ entries \subseteq span[r].some

Fits(x, r) ==
  ~x.wrong =>
    /\ span[r].all \subseteq {x.recs[p] : p \in DOMAIN x.recs}
    /\ {x.recs[p] : p \in DOMAIN x.recs} \subseteq span[r].some

Covers(q, r) ==
  pc[q] = "scan" => /\ scan[q].seen \subseteq span[r].some
                    /\ span[r].all \subseteq scan[q].seen \cup scan[q].due

\* Whoever is reading the directory began after r did; so did the index that
\* r has open, or will open, when it comes to its order.
Sure(r) ==
  /\ Watched(r)
  /\ \A q \in Requests : Covers(q, r)
  /\ pc[r] \in {"check", "page"} /\ held[r] \in Inodes => Fits(idx[held[r]], r)
  /\ pc[r] = "check" /\ held[r] = None /\ named # None => Fits(idx[named], r)

Fresh(r) ==
  /\ pc[r] = "page" => req[r].op = "folder"
  /\ req[r].op = "folder" =>
       /\ pc[r] # "read"
       /\ pc[r] = "stat" => Owns(r)
       /\ pc[r] \in Building => held[r] = None
       /\ pc[r] = "check" => Owns(r) \/ held[r] = None
       /\ Watching(r) /\ ~req[r].excuse => Sure(r)

FreshInv == \A r \in Requests : Fresh(r)

LEMMA FreshInvPages == TypeInv /\ FreshInv => PageIsFresh
<1> SUFFICES ASSUME TypeInv, FreshInv, NEW r \in Requests, pc[r] = "page",
                    ~req[r].excuse, ~idx[held[r]].wrong
             PROVE  /\ span[r].all \subseteq Listed(held[r])
                    /\ Listed(held[r]) \subseteq span[r].some
    BY DEF PageIsFresh
<1>1. held[r] \in Inodes BY DEF TypeInv, LocalOK, Control
<1>2. Sure(r) BY DEF FreshInv, Fresh, Watching
<1> QED BY <1>1, <1>2 DEF Sure, Fits, Listed

LEMMA InitFresh == Init => FreshInv
<1> SUFFICES ASSUME Init PROVE FreshInv OBVIOUS
<1>1. \A r \in Requests : pc[r] = "idle" /\ req[r].op # "folder"
      BY DEF Init, NoReq
<1> QED BY <1>1 DEF FreshInv, Fresh

\* A page needs nothing of a request that does something else.
LEMMA OtherwiseFresh ==
  ASSUME NEW r \in Requests, pc'[r] # "page",
         \/ req'[r].op # "folder"
         \/ pc'[r] \notin {"read", "stat", "check", "open"} \cup Building
  PROVE  Fresh(r)'
BY DEF Fresh, Watching

\* The files r may list still fit.
KeepsFits(r) ==
  /\ held[r] \in Inodes /\ Fits(idx[held[r]], r) => Fits(idx[held[r]], r)'
  /\ named' # None =>
       \/ Fits(idx[named], r)'
       \/ named' = named /\ ~Fits(idx[named], r)

LEMMA StaysFresh ==
  ASSUME NEW r \in Requests, Fresh(r),
         pc'[r] = pc[r], req'[r] = req[r], held'[r] = held[r], mode'[r] = mode[r],
         Watching(r) /\ Sure(r) =>
           /\ Watched(r)' /\ \A q \in Requests : Covers(q, r)'
           /\ KeepsFits(r)
  PROVE  Fresh(r)'
<1>1. Owns(r)' = Owns(r) /\ Watching(r)' = Watching(r) BY DEF Owns, Watching
<1>2. Watching(r) /\ Sure(r) => Sure(r)' BY DEF Sure, KeepsFits
<1> QED BY <1>1, <1>2 DEF Fresh

\* The others stand still, and so does what they have watched.
Aside(r) ==
  \A q \in Requests : q # r =>
    /\ pc'[q] = pc[q] /\ req'[q] = req[q] /\ held'[q] = held[q]
    /\ mode'[q] = mode[q] /\ scan'[q] = scan[q] /\ span'[q] = span[q]

LEMMA AsideFresh ==
  ASSUME TypeInv, FreshInv, NEW r \in Requests, Aside(r), UNCHANGED entries,
         \A q \in Requests : q # r /\ Watching(q) /\ Sure(q) =>
           Covers(r, q)' /\ KeepsFits(q),
         Fresh(r)'
  PROVE  FreshInv'
<1>1. ASSUME NEW q \in Requests, q # r PROVE Fresh(q)'
  <2>1. Fresh(q) BY DEF FreshInv
  <2>2. /\ pc'[q] = pc[q] /\ req'[q] = req[q] /\ held'[q] = held[q]
        /\ mode'[q] = mode[q] /\ span'[q] = span[q]
        BY <1>1 DEF Aside
  <2>3. ASSUME Watching(q), Sure(q)
        PROVE  Watched(q)' /\ KeepsFits(q) /\ \A p \in Requests : Covers(p, q)'
    <3>1. Watched(q)' BY <2>2, <2>3 DEF Sure, Watched
    <3>2. ASSUME NEW p \in Requests, p # r PROVE Covers(p, q)'
      <4>1. pc'[p] = pc[p] /\ scan'[p] = scan[p] BY <3>2 DEF Aside
      <4> QED BY <2>2, <2>3, <4>1 DEF Sure, Covers
    <3> QED BY <1>1, <2>3, <3>1, <3>2
  <2> QED BY <2>1, <2>2, <2>3, StaysFresh
<1> QED BY <1>1 DEF FreshInv

\* Files that are only forgotten by those who cannot reach them.
LEMMA SameFits ==
  ASSUME SameFiles \/ (Files(idx) /\ named' = None) \/ UNCHANGED file, TypeInv,
         NEW q \in Requests, held'[q] = held[q], span'[q] = span[q]
  PROVE  KeepsFits(q)
<1>1. held[q] \in Inodes => idx'[held[q]] = idx[held[q]]
      BY KeptInUse DEF SameFiles, file
<1>2. named' # None => named' = named /\ idx'[named] = idx[named]
  <2>1. named \in Inodes \cup {None} BY DEF TypeInv, FilesOK
  <2> QED BY <2>1 DEF SameFiles, Files, InUse, file
<1>3. held[q] \in Inodes /\ Fits(idx[held[q]], q) => Fits(idx[held[q]], q)'
      BY <1>1 DEF Fits
<1>4. named' # None /\ Fits(idx[named], q) => Fits(idx[named], q)'
      BY <1>2 DEF Fits
<1> QED BY <1>2, <1>3, <1>4 DEF KeepsFits

LEMMA QuietFresh ==
  ASSUME TypeInv, FreshInv, NEW r \in Requests, Aside(r), UNCHANGED entries,
         SameFiles \/ (Files(idx) /\ named' = None) \/ UNCHANGED file,
         pc'[r] # "scan", Fresh(r)'
  PROVE  FreshInv'
<1>1. \A q \in Requests : Covers(r, q)' BY DEF Covers
<1>2. \A q \in Requests : q # r => KeepsFits(q) BY SameFits DEF Aside
<1> QED BY <1>1, <1>2, AsideFresh

LEMMA FinishFresh ==
  ASSUME TypeInv, FreshInv, NEW r \in Requests, Finish(r), UNCHANGED entries,
         SameFiles \/ (Files(idx) /\ named' = None) \/ UNCHANGED file
  PROVE  FreshInv'
<1>1. pc'[r] = "idle" /\ Aside(r)
      BY DEF Finish, Goto, Aside, TypeInv, LocalOK, WorldOK
<1>2. Fresh(r)' BY <1>1, OtherwiseFresh DEF Building
<1> QED BY <1>1, <1>2, QuietFresh

\* maildir_reload
LEMMA ReloadFresh ==
  ASSUME TypeInv, IndexInv, Exclusive, FreshInv, NEW r \in Requests,
         ReloadOpen(r) \/ ReloadStat(r) \/ Check(r) \/ Remove(r)
  PROVE  FreshInv'
<1> USE DEF Building
<1>a. /\ pc \in [Requests -> PCs] /\ req \in [Requests -> Reqs]
      /\ held \in [Requests -> Inodes \cup {None}]
      /\ mode \in [Requests -> {"R", "W"}]
      /\ Fresh(r)
      BY DEF TypeInv, LocalOK, FreshInv
<1>b. UNCHANGED entries /\ (SameFiles \/ (Files(idx) /\ named' = None))
      BY DEF ReloadOpen, ReloadStat, Check, Remove, dir
<1>c. ASSUME Aside(r), UNCHANGED span, pc'[r] # "scan", Sure(r)
      PROVE  Watched(r)' /\ \A q \in Requests : Covers(q, r)'
  <2>1. Watched(r)' BY <1>b, <1>c DEF Sure, Watched
  <2>2. Covers(r, r)' BY <1>c DEF Covers
  <2>3. ASSUME NEW q \in Requests, q # r PROVE Covers(q, r)'
    <3>1. pc'[q] = pc[q] /\ scan'[q] = scan[q] BY <1>c, <2>3 DEF Aside
    <3> QED BY <1>c, <3>1 DEF Sure, Covers
  <2> QED BY <2>1, <2>2, <2>3
<1>d. ASSUME SameFiles, held'[r] \in Inodes, UNCHANGED span, NEW x, x = idx[held'[r]],
             Fits(x, r)
      PROVE  Fits(idx[held[r]], r)'
  <2>1. idx'[held'[r]] = x BY <1>d, KeptInUse
  <2> QED BY <1>d, <2>1 DEF Fits
<1>e. None \notin Inodes BY InodesAssumption
<1>1. CASE ReloadOpen(r)
  <2>1. /\ OpenCache(r, "W") /\ SameFiles /\ UNCHANGED <<scan, span>>
        /\ pc[r] = "open"
        /\ Goto(r, IF Opens(r, "W") THEN "stat" ELSE "check")
        BY <1>1 DEF ReloadOpen, dir
  <2>2. /\ pc'[r] = (IF Opens(r, "W") THEN "stat" ELSE "check")
        /\ req'[r].op = req[r].op
        /\ req'[r].excuse = (req[r].excuse \/ (Locked(r) /\ req[r].op \in Listing))
        BY <1>1, <1>a DEF ReloadOpen, Goto, Excuse, Reqs
  <2>3. Aside(r)
        BY <1>1, <1>a, <2>1, OpenCacheType DEF ReloadOpen, Aside, Goto, Excuse
  <2>4. Opens(r, "W") => Owns(r)' BY <2>1, OpenExclusive
  <2>5. ~Opens(r, "W") => held'[r] = None BY <2>1, OpenCacheType
  <2>6. ASSUME req[r].op = "folder", ~req'[r].excuse PROVE Sure(r)'
    <3>1. Sure(r) /\ ~Locked(r)
          BY <1>a, <2>1, <2>2, <2>6 DEF Fresh, Watching, Listing
    <3>2. named # None => Opens(r, "W") BY <3>1 DEF Locked
    <3>3. Watched(r)' /\ \A q \in Requests : Covers(q, r)'
          BY <1>c, <2>1, <2>2, <2>3, <3>1
    <3>4. UNCHANGED named BY <2>1 DEF SameFiles
    <3> QED BY <1>e, <2>2, <2>5, <3>2, <3>3, <3>4 DEF Sure
  <2>7. Fresh(r)' BY <2>2, <2>4, <2>5, <2>6 DEF Fresh
  <2> QED BY <1>b, <2>2, <2>3, <2>7, QuietFresh
<1>2. CASE ReloadStat(r)
  <2>1. UNCHANGED <<req, scan, span>> /\ SameFiles /\ pc[r] = "stat"
        BY <1>2 DEF ReloadStat, dir
  <2>2. CASE Outdated(held[r]) /\ Goto(r, "stamp") /\ Close(r)
    <3>1. pc'[r] = "stamp" /\ held'[r] = None /\ Aside(r)
          BY <1>a, <2>1, <2>2 DEF Goto, Close, Aside
    <3>2. ASSUME Watching(r), ~req[r].excuse PROVE Sure(r)'
      <4>1. Sure(r) BY <1>a, <3>2 DEF Fresh, Watching
      <4>2. Watched(r)' /\ \A q \in Requests : Covers(q, r)'
            BY <1>c, <2>1, <3>1, <4>1
      <4> QED BY <3>1, <4>2 DEF Sure
    <3>3. Fresh(r)' BY <2>1, <3>1, <3>2 DEF Fresh, Watching
    <3> QED BY <1>b, <3>1, <3>3, QuietFresh
  <2>3. CASE ~Outdated(held[r]) /\ Goto(r, "check") /\ UNCHANGED <<held, mode>>
    <3>1. pc'[r] = "check" /\ held'[r] = held[r] /\ Aside(r)
          BY <1>a, <2>1, <2>3 DEF Goto, Aside
    <3>2. ASSUME req[r].op = "folder" PROVE Owns(r)'
          BY <1>a, <2>1, <2>3, <3>2 DEF Fresh, Owns
    <3>3. ASSUME req[r].op = "folder", ~req[r].excuse PROVE Sure(r)'
      <4>1. Sure(r) BY <1>a, <2>1, <3>3 DEF Fresh, Watching
      <4>2. Watched(r)' /\ \A q \in Requests : Covers(q, r)'
            BY <1>c, <2>1, <3>1, <4>1
      <4>3. held[r] \in Inodes /\ IsFile(idx[held[r]])
            BY <1>a, <2>1, <3>3 DEF Fresh, Owns, TypeInv, FilesOK
      <4>4. mtime < idx[held[r]].save
            BY <2>3, <4>3 DEF Outdated, IsFile, IsIndex, Times, TypeInv, WorldOK
      <4>5. PICK x : x = idx[held[r]] OBVIOUS
      <4>6. ~x.wrong => {x.recs[p] : p \in DOMAIN x.recs} = entries
            BY <4>3, <4>4, <4>5 DEF IndexInv, AllRight, Right, Lists
      <4>7. Fits(x, r) BY <4>1, <4>6 DEF Sure, Watched, Fits
      <4>8. Fits(idx[held[r]], r)' BY <1>d, <2>1, <3>1, <4>3, <4>5, <4>7
      <4> QED BY <1>e, <3>1, <4>2, <4>3, <4>8 DEF Sure
    <3>4. Fresh(r)' BY <2>1, <3>1, <3>2, <3>3 DEF Fresh
    <3> QED BY <1>b, <3>1, <3>4, QuietFresh
  <2> QED BY <1>2, <2>2, <2>3 DEF ReloadStat
<1>3. CASE Check(r)
  <2>1. UNCHANGED <<req, scan, span>> /\ SameFiles /\ pc[r] = "check"
        BY <1>3 DEF Check, dir
  <2>2. CASE InOrder(r) /\ OpenCache(r, "W") /\ Goto(r, AfterCheck(r))
    <3>1. pc'[r] = AfterCheck(r) /\ Aside(r)
          BY <1>a, <2>1, <2>2, OpenCacheType DEF Goto, Aside
    <3>2. CASE req[r].op # "folder"
      <4>1. AfterCheck(r) \in {"find", "lookup", "next"} BY <3>2 DEF AfterCheck
      <4>2. Fresh(r)' BY <2>1, <3>1, <3>2, <4>1, OtherwiseFresh
      <4> QED BY <1>b, <3>1, <4>1, <4>2, QuietFresh
    <3>3. CASE req[r].op = "folder"
      <4>1. pc'[r] = "page" BY <3>1, <3>3 DEF AfterCheck
      <4>2. Opens(r, "W") BY <2>2 DEF InOrder
      <4>3. held'[r] = File(r, "W") /\ held'[r] \in Inodes
            BY <2>2, <4>2, OpenCacheType
      <4>4. ASSUME ~req[r].excuse PROVE Sure(r)'
        <5>1. Sure(r) BY <1>a, <2>1, <3>3, <4>4 DEF Fresh, Watching
        <5>2. Watched(r)' /\ \A q \in Requests : Covers(q, r)'
              BY <1>c, <2>1, <3>1, <4>1, <5>1
        <5>3. PICK x : x = idx[File(r, "W")] OBVIOUS
        <5>4. Fits(x, r)
          <6>1. CASE Owns(r)
                BY <2>1, <5>1, <5>3, <6>1, InodesAssumption
                DEF Owns, Sure, File, Reuses, AlreadyOpen
          <6>2. CASE held[r] = None
                BY <2>1, <4>2, <5>1, <5>3, <6>2
                DEF Sure, File, Opens, Reuses, AlreadyOpen
          <6> QED BY <1>a, <2>1, <3>3, <6>1, <6>2 DEF Fresh
        <5>5. Fits(idx[held[r]], r)' BY <1>d, <2>1, <4>3, <5>3, <5>4
        <5> QED BY <4>1, <5>2, <5>5 DEF Sure
      <4>5. Fresh(r)' BY <2>1, <3>3, <4>1, <4>4 DEF Fresh
      <4> QED BY <1>b, <3>1, <4>1, <4>5, QuietFresh
    <3> QED BY <3>2, <3>3
  <2>3. CASE Close(r) /\ Goto(r, "stamp")
    <3>1. pc'[r] = "stamp" /\ held'[r] = None /\ Aside(r)
          BY <1>a, <2>1, <2>3 DEF Goto, Close, Aside
    <3>2. ASSUME Watching(r), ~req[r].excuse PROVE Sure(r)'
      <4>1. Sure(r) BY <1>a, <3>2 DEF Fresh, Watching
      <4>2. Watched(r)' /\ \A q \in Requests : Covers(q, r)'
            BY <1>c, <2>1, <3>1, <4>1
      <4> QED BY <3>1, <4>2 DEF Sure
    <3>3. Fresh(r)' BY <2>1, <3>1, <3>2 DEF Fresh, Watching
    <3> QED BY <1>b, <3>1, <3>3, QuietFresh
  <2> QED BY <1>3, <2>2, <2>3 DEF Check
<1>4. CASE Remove(r)
  <2>1. CASE req[r].op = "preview"
    <3>1. UNCHANGED <<req, held, mode, scan, span>> /\ Goto(r, "open")
          BY <1>4, <2>1 DEF Remove
    <3>2. pc'[r] = "open" /\ Aside(r) BY <1>a, <3>1 DEF Goto, Aside
    <3>3. Fresh(r)' BY <2>1, <3>1, <3>2, OtherwiseFresh
    <3> QED BY <1>b, <3>2, <3>3, QuietFresh
  <2>2. CASE req[r].op # "preview"
    <3>1. Finish(r) BY <1>4, <2>2 DEF Remove
    <3> QED BY <1>b, <3>1, FinishFresh
  <2> QED BY <2>1, <2>2
<1> QED BY <1>1, <1>2, <1>3, <1>4

\* maildir_save_start and readdir
LEMMA ScanFresh ==
  ASSUME TypeInv, FreshInv, NEW r \in Requests,
         SaveStart(r) \/ ReadName(r)
  PROVE  FreshInv'
<1> USE DEF Building
<1>a. /\ pc \in [Requests -> PCs] /\ scan \in [Requests -> Scans] /\ Fresh(r)
      BY DEF TypeInv, LocalOK, FreshInv
<1>1. /\ UNCHANGED <<req, held, mode, entries, span, idx, named>>
      /\ pc[r] \in Building /\ pc'[r] \in Building
      /\ \A q \in Requests : q # r => pc'[q] = pc[q] /\ scan'[q] = scan[q]
      BY <1>a DEF SaveStart, ReadName, Goto, dir, file
<1>2. Aside(r) BY <1>1 DEF Aside
<1>3. ASSUME NEW q \in Requests, Sure(q) PROVE Covers(r, q)'
  <2>1. Watched(q) /\ Covers(r, q) BY <1>3 DEF Sure
  <2>2. CASE SaveStart(r)
    <3>1. pc'[r] = "scan" /\ scan'[r] = [due |-> entries, seen |-> {}]
          BY <1>a, <2>2 DEF SaveStart, Goto
    <3> QED BY <1>1, <2>1, <3>1 DEF Covers, Watched
  <2>3. CASE ReadName(r)
    <3>1. PICK e \in entries : scan' = [scan EXCEPT ![r].seen = @ \cup {e}]
          BY <2>3 DEF ReadName
    <3>2. scan'[r].due = scan[r].due /\ scan'[r].seen = scan[r].seen \cup {e}
          BY <1>a, <3>1 DEF Scans
    <3>3. pc'[r] = "scan" /\ pc[r] = "scan" BY <2>3 DEF ReadName
    <3>4. e \in span[q].some BY <2>1 DEF Watched
    <3> QED BY <1>1, <2>1, <3>2, <3>3, <3>4 DEF Covers
  <2> QED BY <2>2, <2>3
<1>4. \A q \in Requests : KeepsFits(q) BY <1>1, SameFits DEF file
<1>5. Fresh(r)'
  <2>1. ASSUME Watching(r), Sure(r) PROVE Sure(r)'
    <3>1. Watched(r)' BY <1>1, <2>1 DEF Sure, Watched
    <3>2. ASSUME NEW q \in Requests PROVE Covers(q, r)'
      <4>1. CASE q = r BY <1>3, <2>1, <4>1
      <4>2. CASE q # r BY <1>1, <2>1, <4>2 DEF Sure, Covers
      <4> QED BY <4>1, <4>2
    <3> QED BY <1>1, <3>1, <3>2 DEF Sure
  <2> QED BY <1>a, <1>1, <2>1 DEF Fresh, Watching
<1> QED BY <1>1, <1>2, <1>3, <1>4, <1>5, AsideFresh

\* maildir_save_end
LEMMA SaveFresh ==
  ASSUME TypeInv, FreshInv, NEW r \in Requests, SaveEnd(r)
  PROVE  FreshInv'
<1> USE DEF Building
<1> DEFINE i == CHOOSE j \in Inodes \ InUse : TRUE
           S == scan[r].seen
           o == req[r].order
           w == ~Complete(r)
<1>a. /\ pc \in [Requests -> PCs] /\ scan \in [Requests -> Scans] /\ Fresh(r)
      /\ held \in [Requests -> Inodes \cup {None}]
      BY DEF TypeInv, LocalOK, FreshInv
<1>1. i \in Inodes /\ i \notin InUse BY DEF SaveEnd
<1>2. PICK l \in Listings(S, o) : Files([idx EXCEPT ![i] = NewIndex(SaveTime(r), o, l, w)])
      BY DEF SaveEnd
<1>3. named' = i BY DEF SaveEnd
<1> HIDE DEF i, w
<1>4. PICK y : y = NewIndex(SaveTime(r), o, l, w) OBVIOUS
<1>5. {y.recs[p] : p \in DOMAIN y.recs} = S
  <2>1. l \in [0..Cardinality(S)-1 -> S] /\ \A e \in S : \E k \in DOMAIN l : l[k] = e
        BY <1>2 DEF Listings
  <2>2. y.recs = l BY <1>4 DEF NewIndex
  <2> QED BY <2>1, <2>2
<1>6. /\ UNCHANGED <<req, held, mode, entries, span>>
      /\ pc[r] = "scan" /\ pc'[r] = "check"
      /\ \A q \in Requests : q # r => pc'[q] = pc[q] /\ scan'[q] = scan[q]
      BY <1>a DEF SaveEnd, Goto, dir
<1>7. Aside(r) BY <1>6 DEF Aside
<1>8. \A j \in Inodes : [idx EXCEPT ![i] = y][j] = IF j = i THEN y ELSE idx[j]
      BY <1>1 DEF TypeInv, FilesOK
<1>9. Files([idx EXCEPT ![i] = y]) BY <1>2, <1>4
<1>10. idx'[named'] = y BY <1>1, <1>3, <1>8, <1>9 DEF Files, InUse
<1>11. ASSUME NEW q \in Requests, held[q] \in Inodes PROVE idx'[held[q]] = idx[held[q]]
  <2>1. held[q] # i BY <1>1 DEF InUse
  <2>2. held'[q] = held[q] BY <1>6
  <2> QED BY <1>8, <1>9, <1>11, <2>1, <2>2, InUseKept
<1>12. ASSUME NEW q \in Requests, Sure(q) PROVE Fits(idx[named], q)'
  <2>1. Covers(r, q) /\ Watched(q) BY <1>12 DEF Sure
  <2>2. ~y.wrong => Complete(r) BY <1>4 DEF NewIndex, w
  <2>3. ASSUME ~y.wrong PROVE span[q].all \subseteq S
    <3>1. span[q].all \subseteq entries /\ span[q].all \subseteq S \cup scan[r].due
          BY <1>6, <2>1 DEF Covers, Watched
    <3>2. scan[r].due \cap entries \subseteq S BY <2>2, <2>3 DEF Complete
    <3> QED BY <3>1, <3>2
  <2>4. Fits(y, q) BY <1>5, <1>6, <2>1, <2>3 DEF Covers, Fits
  <2> QED BY <1>6, <1>10, <2>4 DEF Fits
<1>13. ASSUME NEW q \in Requests, Sure(q) PROVE KeepsFits(q)
  <2>1. held[q] \in Inodes /\ Fits(idx[held[q]], q) => Fits(idx[held[q]], q)'
        BY <1>6, <1>11 DEF Fits
  <2> QED BY <1>12, <1>13, <2>1 DEF KeepsFits
<1>14. \A q \in Requests : Covers(r, q)' BY <1>6 DEF Covers
<1>15. Fresh(r)'
  <2>1. ASSUME req[r].op = "folder", ~req[r].excuse PROVE Sure(r)'
    <3>1. Sure(r) BY <1>a, <1>6, <2>1 DEF Fresh, Watching
    <3>2. Watched(r)' BY <1>6, <3>1 DEF Sure, Watched
    <3>3. ASSUME NEW q \in Requests PROVE Covers(q, r)'
      <4>1. CASE q = r BY <1>14, <4>1
      <4>2. CASE q # r BY <1>6, <3>1, <4>2 DEF Sure, Covers
      <4> QED BY <4>1, <4>2
    <3>4. held'[r] \notin Inodes
          BY <1>a, <1>6, <2>1, InodesAssumption DEF Fresh
    <3>5. Fits(idx[named], r)' BY <1>12, <3>1
    <3> QED BY <3>2, <3>3, <3>4, <3>5 DEF Sure
  <2>2. req[r].op = "folder" => held[r] = None BY <1>a, <1>6 DEF Fresh
  <2> QED BY <1>6, <2>1, <2>2 DEF Fresh
<1> QED BY <1>6, <1>7, <1>13, <1>14, <1>15, AsideFresh

\* A name that belongs where it is written keeps the file as fitting as it was.
LEMMA WrittenFits ==
  ASSUME TypeInv, IndexInv, NEW x, IsFile(x), NEW p \in DOMAIN x.recs, NEW e,
         NEW y, y.wrong = (x.wrong \/ e \notin entries \/ x.recs[p].msg # e.msg),
         y.recs = [x.recs EXCEPT ![p] = e],
         NEW q \in Requests, Watched(q), Fits(x, q)
  PROVE  Fits(y, q)
<1> SUFFICES ASSUME ~y.wrong
             PROVE  /\ span[q].all \subseteq {y.recs[k] : k \in DOMAIN y.recs}
                    /\ {y.recs[k] : k \in DOMAIN y.recs} \subseteq span[q].some
    BY DEF Fits
<1>1. ~x.wrong /\ e \in entries /\ x.recs[p].msg = e.msg OBVIOUS
<1>2. DOMAIN y.recs = DOMAIN x.recs /\ y.recs[p] = e
      /\ \A k \in DOMAIN x.recs : k # p => y.recs[k] = x.recs[k]
      BY DEF IsFile, IsIndex
<1>3. /\ \A z \in span[q].all : \E k \in DOMAIN x.recs : x.recs[k] = z
      /\ \A k \in DOMAIN x.recs : x.recs[k] \in span[q].some
      BY <1>1 DEF Fits
<1>4. span[q].all \subseteq entries /\ e \in span[q].some
      BY <1>1 DEF Watched
<1>5. ASSUME NEW z \in span[q].all PROVE \E k \in DOMAIN y.recs : y.recs[k] = z
  <2>1. PICK k \in DOMAIN x.recs : x.recs[k] = z BY <1>3
  <2>2. CASE k = p
    <3>1. z \in entries /\ z.msg = e.msg BY <1>1, <1>4, <2>1, <2>2
    <3>2. z = e BY <1>1, <3>1 DEF IndexInv, OneName
    <3> QED BY <1>2, <3>2
  <2>3. CASE k # p BY <1>2, <2>1, <2>3
  <2> QED BY <2>2, <2>3
<1>6. \A k \in DOMAIN y.recs : y.recs[k] \in span[q].some BY <1>2, <1>3, <1>4
<1> QED BY <1>5, <1>6

\* update_foldermsgs
LEMMA UpdateFresh ==
  ASSUME TypeInv, IndexInv, FreshInv, NEW r \in Requests, Update(r)
  PROVE  FreshInv'
<1> DEFINE i == File(r, "W")
           p == req[r].pos
           e == path[r]
           b == idx[i].wrong \/ Misplaced(i, e, p)
<1>a. UNCHANGED entries BY DEF Update
<1>1. CASE Fetches(r, "W", p)
  <2>1. i \in Inodes /\ IsFile(idx[i]) /\ p \in DOMAIN idx[i].recs
        BY <1>1, OpenedFile DEF Fetches, Has, Recs
  <2>2. Files([idx EXCEPT ![i].recs[p] = e, ![i].wrong = b]) /\ UNCHANGED named
        BY <1>1 DEF Update
  <2>3. b = (idx[i].wrong \/ e \notin entries \/ idx[i].recs[p].msg # e.msg)
        BY DEF Misplaced, Recs
  <2>4. Aside(r) /\ pc'[r] \in {"idle", "purge", "locate"}
    <3>1. CASE Finish(r)
          BY <3>1 DEF Finish, Goto, Aside, TypeInv, LocalOK, WorldOK
    <3>2. CASE ~Finish(r)
      <4>1. OpenCache(r, "W") /\ UNCHANGED <<req, scan, span>>
            BY <1>1, <3>2 DEF Update
      <4>2. PICK k \in {"purge", "locate"} : Goto(r, k) BY <1>1, <3>2 DEF Update
      <4> QED BY <4>1, <4>2, OpenCacheType DEF Aside, Goto, TypeInv, LocalOK
    <3> QED BY <3>1, <3>2
  <2> HIDE DEF i, p, b, e
  <2>5. PICK y : y = [idx[i] EXCEPT !.recs[p] = e, !.wrong = b] OBVIOUS
  <2>6. y.wrong = b /\ y.recs = [idx[i].recs EXCEPT ![p] = e]
        BY <2>1, <2>5 DEF IsFile
  <2>7. \A j \in Inodes : [idx EXCEPT ![i].recs[p] = e, ![i].wrong = b][j]
                            = IF j = i THEN y ELSE idx[j]
        BY <2>1, <2>5 DEF TypeInv, FilesOK
  <2>8. ASSUME NEW q \in Requests, q # r, Sure(q),
               NEW j \in Inodes, j \in InUse', Fits(idx[j], q)
        PROVE  Fits(idx'[j], q) /\ Fits(idx[j], q)'
    <3>1. idx'[j] = IF j = i THEN y ELSE idx[j] BY <2>2, <2>7, <2>8 DEF Files
    <3>2. CASE j = i
      <4>1. PICK x : x = idx[i] OBVIOUS
      <4>2. Fits(y, q)
            BY <2>1, <2>3, <2>6, <2>8, <3>2, <4>1, WrittenFits DEF Sure
      <4> QED BY <2>4, <2>8, <3>1, <3>2, <4>2 DEF Fits, Aside
    <3>3. CASE j # i BY <2>4, <2>8, <3>1, <3>3 DEF Fits, Aside
    <3> QED BY <3>2, <3>3
  <2>9. ASSUME NEW q \in Requests, q # r, Sure(q) PROVE KeepsFits(q)
    <3>1. held[q] \in Inodes /\ Fits(idx[held[q]], q) => Fits(idx[held[q]], q)'
      <4>1. held'[q] = held[q] BY <2>4, <2>9 DEF Aside
      <4>2. held[q] \in InUse' BY <4>1 DEF InUse
      <4> QED BY <2>8, <2>9, <4>1, <4>2
    <3>2. named # None /\ Fits(idx[named], q) => Fits(idx[named], q)'
      <4>1. named \in InUse' /\ named' = named BY <2>2 DEF InUse
      <4>2. named \in Inodes \cup {None} BY DEF TypeInv, FilesOK
      <4> QED BY <2>8, <2>9, <4>1, <4>2
    <3> QED BY <2>2, <3>1, <3>2 DEF KeepsFits
  <2>10. \A q \in Requests : Covers(r, q)' BY <2>4 DEF Covers
  <2>11. Fresh(r)' BY <2>4, OtherwiseFresh DEF Building
  <2> QED BY <1>a, <2>4, <2>9, <2>10, <2>11, AsideFresh
<1>2. CASE ~Fetches(r, "W", p)
  <2>1. Finish(r) /\ SameFiles BY <1>2 DEF Update
  <2> QED BY <1>a, <2>1, FinishFresh
<1> QED BY <1>1, <1>2

\* The directory changes: a request watches.
LEMMA StoreFresh ==
  ASSUME TypeInv, FreshInv, NEW E, Store(E),
         UNCHANGED <<req, held, mode, scan, idx, named>>,
         \A q \in Requests : pc'[q] = pc[q] \/ pc'[q] = "update"
  PROVE  FreshInv'
<1>1. ASSUME NEW q \in Requests, pc'[q] = pc[q] PROVE Fresh(q)'
  <2>1. ASSUME Watching(q), Sure(q)
        PROVE  Watched(q)' /\ KeepsFits(q) /\ \A p \in Requests : Covers(p, q)'
    <3>1. span'[q].all = span[q].all \cap E /\ span'[q].some = span[q].some \cup E
          BY <2>1 DEF Store
    <3>2. entries' = E BY DEF Store
    <3>3. Watched(q)' BY <3>1, <3>2 DEF Watched
    <3>4. ASSUME NEW p \in Requests PROVE Covers(p, q)'
      <4>1. Covers(p, q) BY <2>1 DEF Sure
      <4>2. pc'[p] = pc[p] \/ pc'[p] = "update" OBVIOUS
      <4> QED BY <3>1, <4>1, <4>2 DEF Covers
    <3>5. ASSUME NEW x, Fits(x, q)
          PROVE  x.wrong \/ /\ span'[q].all \subseteq {x.recs[p] : p \in DOMAIN x.recs}
                            /\ {x.recs[p] : p \in DOMAIN x.recs} \subseteq span'[q].some
          BY <3>1, <3>5 DEF Fits
    <3>6. \A j : Fits(idx[j], q) => Fits(idx[j], q)' BY <3>5 DEF Fits
    <3>7. KeepsFits(q) BY <3>6 DEF KeepsFits
    <3> QED BY <3>3, <3>4, <3>7
  <2>2. Fresh(q) BY DEF FreshInv
  <2> QED BY <1>1, <2>1, <2>2, StaysFresh
<1>2. ASSUME NEW q \in Requests, pc'[q] = "update" PROVE Fresh(q)'
      BY <1>2, OtherwiseFresh DEF Building
<1> QED BY <1>1, <1>2 DEF FreshInv

LEMMA ChangedFresh ==
  ASSUME TypeInv, FreshInv,
         Arrive \/ \E r \in Requests : Purge(r) \/ Rename(r)
  PROVE  FreshInv'
<1>1. CASE Arrive
  <2>1. PICK E : Store(E) BY <1>1 DEF Arrive
  <2>2. UNCHANGED <<pc, req, held, mode, scan, idx, named>>
        BY <1>1 DEF Arrive, local, file
  <2> QED BY <2>1, <2>2, StoreFresh
<1>2. ASSUME NEW r \in Requests, Purge(r) PROVE FreshInv'
  <2>1. PICK E : Store(E) BY <1>2 DEF Purge
  <2>2. UNCHANGED <<pc, req, held, mode, scan, idx, named>>
        BY <1>2 DEF Purge, local, file
  <2> QED BY <2>1, <2>2, StoreFresh
<1>3. ASSUME NEW r \in Requests, Rename(r) PROVE FreshInv'
  <2>1. /\ UNCHANGED <<req, held, mode, scan, idx, named>>
        /\ pc'[r] = "update" /\ \A q \in Requests : q # r => pc'[q] = pc[q]
        BY <1>3 DEF Rename, file, Goto, TypeInv, LocalOK
  <2>2. CASE path[r] \in entries
    <3>1. PICK E : Store(E) BY <1>3, <2>2 DEF Rename
    <3> QED BY <2>1, <3>1, StoreFresh
  <2>3. CASE path[r] \notin entries
    <3>1. UNCHANGED <<entries, span>> BY <1>3, <2>3 DEF Rename, dir
    <3>2. Aside(r) BY <2>1, <3>1 DEF Aside
    <3>3. Fresh(r)' BY <2>1, OtherwiseFresh DEF Building
    <3> QED BY <2>1, <3>1, <3>2, <3>3, QuietFresh DEF file
  <2> QED BY <2>2, <2>3
<1> QED BY <1>1, <1>2, <1>3

\* The other steps of a request.
LEMMA ServeFresh ==
  ASSUME TypeInv, FreshInv, NEW r \in Requests,
         \/ Page(r) \/ Read(r) \/ Lookup(r) \/ Find(r) \/ Show(r) \/ Mark(r)
         \/ Locate(r) \/ Unflagged(r) \/ Purged(r) \/ Redirect(r) \/ Kill(r)
  PROVE  FreshInv'
<1>a. /\ pc \in [Requests -> PCs] /\ req \in [Requests -> Reqs]
      /\ held \in [Requests -> Inodes \cup {None}]
      /\ mode \in [Requests -> {"R", "W"}]
      /\ span \in [Requests -> Spans] /\ Fresh(r)
      BY DEF TypeInv, LocalOK, WorldOK, FreshInv
<1>b. UNCHANGED entries /\ (SameFiles \/ UNCHANGED file)
      BY DEF Page, Read, Lookup, Find, Show, Mark, Locate, Unflagged, Purged,
             Redirect, Kill, dir
<1>c. CASE Finish(r) BY <1>b, <1>c, FinishFresh
<1>d. ASSUME Aside(r), pc'[r] # "page", pc'[r] # "scan",
             \/ req'[r].op # "folder"
             \/ pc'[r] \notin {"read", "stat", "check", "open"} \cup Building
      PROVE  FreshInv'
      BY <1>b, <1>d, OtherwiseFresh, QuietFresh
<1>1. CASE Page(r)
  <2>1. Aside(r) /\ pc'[r] = "purge" BY <1>1, <1>a DEF Page, Aside, Goto
  <2> QED BY <1>d, <2>1 DEF Building
<1>2. CASE Read(r) /\ ~Finish(r)
  <2>1. /\ OpenCache(r, "W") /\ UNCHANGED <<scan, span>> /\ Goto(r, "check")
        /\ \E x, b : req' = [req EXCEPT ![r].at = x, ![r].excuse = b]
        /\ pc[r] = "read"
        BY <1>2 DEF Read
  <2>2. req'[r].op = req[r].op /\ pc'[r] = "check" BY <1>a, <2>1 DEF Reqs, Goto
  <2>3. Aside(r) BY <1>a, <2>1, OpenCacheType DEF Aside, Goto
  <2>4. req[r].op # "folder" BY <1>a, <2>1 DEF Fresh
  <2> QED BY <1>d, <2>2, <2>3, <2>4
<1>3. CASE (Lookup(r) \/ Find(r) \/ Mark(r)) /\ ~Finish(r)
  <2>1. PICK m \in {"R", "W"} : OpenCache(r, m)
        BY <1>3 DEF Lookup, Find, Mark
  <2>2. PICK l \in {"find", "show", "rename"} : Goto(r, l)
        BY <1>3 DEF Lookup, Find, Mark
  <2>3. UNCHANGED <<scan, span>> BY <1>3 DEF Lookup, Find, Mark
  <2>4. \A q \in Requests : q # r => req'[q] = req[q]
        BY <1>3, <1>a DEF Lookup, Find, Mark
  <2>5. Aside(r) BY <1>a, <2>1, <2>2, <2>3, <2>4, OpenCacheType DEF Aside, Goto
  <2>6. pc'[r] = l BY <1>a, <2>2 DEF Goto
  <2> QED BY <1>d, <2>2, <2>5, <2>6 DEF Building
<1>4. CASE (Show(r) \/ Unflagged(r)) /\ ~Finish(r)
  <2>1. UNCHANGED <<req, held, mode, scan, span>>
        BY <1>4 DEF Show, Unflagged, AfterMark
  <2>2. PICK l \in {"mark", "purge", "locate"} : Goto(r, l)
        BY <1>4 DEF Show, Unflagged, AfterMark
  <2>3. Aside(r) /\ pc'[r] = l BY <1>a, <2>1, <2>2 DEF Aside, Goto
  <2> QED BY <1>d, <2>2, <2>3 DEF Building
<1>5. CASE Locate(r)
  <2>1. UNCHANGED <<held, mode, scan, span>> BY <1>5 DEF Locate, dir
  <2>2. PICK l \in {"purge", "locate", "rename"} : Goto(r, l) BY <1>5 DEF Locate
  <2>3. \A q \in Requests : q # r => req'[q] = req[q] BY <1>5, <1>a DEF Locate
  <2>4. Aside(r) /\ pc'[r] = l BY <1>a, <2>1, <2>2, <2>3 DEF Aside, Goto
  <2> QED BY <1>d, <2>2, <2>4 DEF Building
<1>6. CASE Purged(r) /\ ~Finish(r)
  <2>1. /\ UNCHANGED <<req, held, mode, scan, span>> /\ Goto(r, "open")
        /\ req[r].op = "delmsg"
        BY <1>6 DEF Purged
  <2>2. Aside(r) /\ pc'[r] = "open" /\ req'[r].op = "delmsg"
        BY <1>a, <2>1 DEF Aside, Goto
  <2> QED BY <1>d, <2>2
<1>7. CASE (Redirect(r) \/ Kill(r)) /\ ~Finish(r) BY <1>7 DEF Redirect, Kill
<1> QED BY <1>c, <1>1, <1>2, <1>3, <1>4, <1>5, <1>6, <1>7

\* A new request watches from now on; unless it is excused nobody is reading
\* the directory.
LEMMA StartFresh ==
  ASSUME TypeInv, FreshInv, NEW r \in Requests, Start(r)
  PROVE  FreshInv'
<1>1. ASSUME NEW op, NEW todo, NEW at, NEW pos, NEW l \in PCs,
             l \in {"open", "read", "find", "locate", "remove"},
             op = "folder" => l = "open",
             Begin(r, op, todo, at, pos, l)
      PROVE  FreshInv'
  <2>1. /\ UNCHANGED <<held, mode, scan, entries, file>>
        /\ pc'[r] = l /\ req'[r].op = op
        /\ req'[r].excuse = (BuiltBefore /\ op \in Listing)
        /\ \A q \in Requests : q # r =>
             pc'[q] = pc[q] /\ req'[q] = req[q] /\ span'[q] = span[q]
        /\ op = "folder" => span'[r] = [all |-> entries, some |-> entries]
        BY <1>1 DEF Begin, Goto, TypeInv, LocalOK, WorldOK
  <2>2. Aside(r) BY <2>1 DEF Aside
  <2>3. ASSUME op = "folder", ~BuiltBefore PROVE Sure(r)'
    <3>1. Watched(r)' BY <2>1, <2>3 DEF Watched
    <3>2. ASSUME NEW q \in Requests PROVE Covers(q, r)'
      <4>1. pc'[q] # "scan"
            BY <1>1, <2>1, <2>3 DEF BuiltBefore, Building
      <4> QED BY <4>1 DEF Covers
    <3> QED BY <1>1, <2>1, <2>3, <3>1, <3>2 DEF Sure
  <2>4. Fresh(r)' BY <1>1, <2>1, <2>3 DEF Fresh, Building, Listing
  <2> QED BY <1>1, <2>1, <2>2, <2>4, QuietFresh
<1>2. {"open", "read", "find", "locate", "remove"} \subseteq PCs BY DEF PCs
<1>3. CASE StartFolder(r) BY <1>1, <1>2, <1>3 DEF StartFolder
<1>4. CASE StartRead(r) BY <1>1, <1>2, <1>4 DEF StartRead
<1>5. CASE StartFetch(r) BY <1>1, <1>2, <1>5 DEF StartFetch
<1>6. CASE StartDelete(r) BY <1>1, <1>2, <1>6 DEF StartDelete
<1>7. CASE StartDraft(r) BY <1>1, <1>2, <1>7 DEF StartDraft
<1> QED BY <1>3, <1>4, <1>5, <1>6, <1>7 DEF Start

LEMMA FreshSteps ==
  TypeInv /\ IndexInv /\ ReadInv /\ FreshInv /\ [Next]_vars => FreshInv'
<1> SUFFICES ASSUME TypeInv, IndexInv, Exclusive, FreshInv, [Next]_vars
             PROVE  FreshInv'
    BY DEF ReadInv
<1>1. ASSUME NEW r \in Requests, Start(r) \/ Reload(r) \/ Serve(r) \/ Kill(r)
      PROVE  FreshInv'
  <2>1. \/ Start(r) \/ SaveEnd(r) \/ Update(r)
        \/ (ReloadOpen(r) \/ ReloadStat(r) \/ Check(r) \/ Remove(r))
        \/ (SaveStart(r) \/ ReadName(r))
        \/ (Purge(r) \/ Rename(r))
        \/ (\/ Page(r) \/ Read(r) \/ Lookup(r) \/ Find(r) \/ Show(r) \/ Mark(r)
            \/ Locate(r) \/ Unflagged(r) \/ Purged(r) \/ Redirect(r) \/ Kill(r))
        BY <1>1 DEF Reload, Serve
  <2> QED BY <2>1, StartFresh, SaveFresh, UpdateFresh, ReloadFresh, ScanFresh,
             ChangedFresh, ServeFresh
<1>2. CASE Arrive BY <1>2, ChangedFresh
<1>3. CASE Tick \/ UNCHANGED vars
  <2>1. UNCHANGED <<pc, req, held, mode, scan, span, entries, idx, named>>
        BY <1>3 DEF Tick, vars, local, file, dir
  <2>2. ASSUME NEW r \in Requests PROVE Sure(r)' <=> Sure(r)
        BY <2>1 DEF Sure, Watched, Covers, Fits
  <2>3. ASSUME NEW r \in Requests PROVE Fresh(r)' <=> Fresh(r)
        BY <2>1, <2>2 DEF Fresh, Owns, Watching
  <2> QED BY <2>3 DEF FreshInv
<1> QED BY <1>1, <1>2, <1>3 DEF Next

\* The page of a folder lists all that was in the folder during the request and
\* nothing that was never in it, if the index was not busy when it was opened, not
\* being made when the request began, made of the whole directory, and not
\* overwritten with a name that does not belong there.
\* (folder_contents, maildir_reload, maildir_getfoldermsgs)
THEOREM FreshTheorem == Spec => []PageIsFresh
<1>1. Spec => [](TypeInv /\ IndexInv /\ ReadInv /\ FreshInv)
      BY InitTypes, StepTypes, InitIndex, IndexSteps, InitRead, ReadSteps,
         InitFresh, FreshSteps, PTL DEF Spec
<1> QED BY <1>1, FreshInvPages, PTL
=============================================================================
