------------------------ MODULE MaildirQuota_proofs ------------------------
(***************************************************************************)
(* Proofs about MaildirQuota: the types; that an accepted recount in a     *)
(* quiet second is exact; that maildirsize balances while nothing fails    *)
(* and nobody disturbs a count; that a refusal rests on a recent count;    *)
(* that without faults a long file is not lengthened for ever; and that    *)
(* the writers overshoot a quota by no more than one message for every     *)
(* process but one.                                                        *)
(***************************************************************************)
EXTENDS MaildirQuota, FiniteSetTheorems, NaturalsInduction,
        WellFoundedInduction, TLAPS

USE DEF NoQuota

-----------------------------------------------------------------------------
(* The directories.                                                        *)

\* The scan order and the order of the second look name exactly the counted
\* directories (countcurnew, statcurnew).
LEMMA DirsFacts ==
  /\ NDirs \in Nat /\ NDirs > 0
  /\ AnyDir \in Dirs
  /\ \A k \in 1..NDirs : ScanDir(k) \in Dirs /\ StatDir(k) \in Dirs
  /\ \A d \in Dirs : \E k \in 1..NDirs : ScanDir(k) = d
  /\ \A d \in Dirs : \E k \in 1..NDirs : StatDir(k) = d
<1> DEFINE n == Len(Folders)
<1>1. n \in Nat /\ n > 0 BY FolderAssumption
<1>2. AnyDir \in Dirs BY <1>1 DEF AnyDir, Dirs
<1>3. ASSUME NEW k \in 1..NDirs
      PROVE  ScanDir(k) \in Dirs /\ StatDir(k) \in Dirs
  <2>1. (k + 1) \div 2 \in 1..n BY <1>1, <1>3 DEF NDirs
  <2> QED BY <2>1 DEF ScanDir, StatDir, Dirs
<1>4. ASSUME NEW d \in Dirs
      PROVE  /\ \E k \in 1..NDirs : ScanDir(k) = d
             /\ \E k \in 1..NDirs : StatDir(k) = d
  <2>1. PICK j \in 1..n, s \in {"new", "cur"} : d = <<Folders[j], s>>
        BY DEF Dirs
  <2>2. /\ 2 * j \in 1..NDirs /\ 2 * j - 1 \in 1..NDirs
        /\ (2 * j + 1) \div 2 = j /\ (2 * j - 1 + 1) \div 2 = j
        /\ (2 * j) % 2 = 0 /\ (2 * j - 1) % 2 = 1
        BY <1>1, <2>1 DEF NDirs
  <2>3. CASE s = "new"
    <3>1. ScanDir(2 * j - 1) = d BY <2>1, <2>2, <2>3 DEF ScanDir
    <3>2. StatDir(2 * j) = d BY <2>1, <2>2, <2>3 DEF StatDir
    <3> QED BY <3>1, <3>2, <2>2
  <2>4. CASE s = "cur"
    <3>1. ScanDir(2 * j) = d BY <2>1, <2>2, <2>4 DEF ScanDir
    <3>2. StatDir(2 * j - 1) = d BY <2>1, <2>2, <2>4 DEF StatDir
    <3> QED BY <3>1, <3>2, <2>2
  <2> QED BY <2>1, <2>3, <2>4
<1>5. NDirs \in Nat /\ NDirs > 0 BY <1>1 DEF NDirs
<1> QED BY <1>2, <1>3, <1>4, <1>5

\* A count of directory entries is a number (docount).
LEMMA CopiesType ==
  ASSUME NEW S \in SUBSET (Msgs \X Dirs), NEW m
  PROVE  Copies(S, m) \in Nat
<1>1. IsFiniteSet(1..Len(Folders))
      BY FolderAssumption, FS_Interval
<1>2. IsFiniteSet({Folders[k] : k \in 1..Len(Folders)})
  <2> DEFINE n == Len(Folders)
             names == {Folders[k] : k \in 1..n}
             f == [k \in 1..n |-> Folders[k]]
  <2>1. f \in Surjection(1..n, names) BY DEF Surjection
  <2> QED BY <1>1, <2>1, FS_Surjection
<1>3. IsFiniteSet({"new", "cur"})
  <2>1. IsFiniteSet({"new"}) /\ IsFiniteSet({"cur"}) BY FS_Singleton
  <2>2. IsFiniteSet({"new"} \cup {"cur"}) BY <2>1, FS_Union
  <2>3. {"new", "cur"} = {"new"} \cup {"cur"} OBVIOUS
  <2> QED BY <2>2, <2>3
<1>4. IsFiniteSet(Dirs) BY <1>2, <1>3, FS_Product DEF Dirs
<1>5. IsFiniteSet(Msgs \X Dirs) BY <1>4, MsgsAssumption, FS_Product
<1>6. IsFiniteSet({e \in S : e[1] = m})
  <2>1. {e \in S : e[1] = m} \subseteq Msgs \X Dirs OBVIOUS
  <2> QED BY <1>5, <2>1, FS_Subset
<1> QED BY <1>6, FS_CardinalityType DEF Copies

-----------------------------------------------------------------------------
(* Type correctness.                                                       *)

\* What a process holds.
LocalOK ==
  /\ pc \in [Procs -> PCs]
  /\ op \in [Procs -> AllOps]
  /\ msg \in [Procs -> Msgs \cup {None}]
  /\ dir \in [Procs -> Dirs]
  /\ tries \in [Procs -> 0..MaxTries]
  /\ newquota \in [Procs -> QuotaValues]
  /\ info \in [Procs -> Infos]
  /\ count \in [Procs -> Counts]

\* What the processes share.
SharedOK ==
  /\ now \in Times
  /\ at \in [Msgs -> SUBSET Dirs]
  /\ mtime \in [Dirs -> Times]
  /\ link \in Inodes \cup {None}
  /\ file \in [Inodes -> Files]
  /\ ops \in 0..MaxOps
  /\ clean \in BOOLEAN

\* A directory that is still to be read or looked at exists.
PositionOK ==
  \A p \in Procs : pc[p] \in {"stat", "read", "restat"} => count[p].pos <= NDirs

TypeInv == TypeOK /\ PositionOK

\* The type invariant in its two parts: what the processes share and what
\* each of them holds.
LEMMA TypeSplit == TypeOK <=> SharedOK /\ LocalOK
BY DEF TypeOK, SharedOK, LocalOK

\* The values that the processes start from have their types
\* (maildir_openquotafile_init, maildir_closequotafile).
LEMMA BlankTypes ==
  /\ NoQuota \in QuotaValues
  /\ Empty \in Accounts
  /\ 0 \in Times
  /\ 0 \in Lines /\ 1 \in Lines /\ TooLong \in Nat
  /\ NoInfo \in Infos
  /\ NoCount \in Counts
  /\ NoFile \in Files
<1>1. NoQuota \in QuotaValues BY DEF QuotaValues
<1>2. Empty \in Accounts BY DEF Empty, Accounts
<1>3. 0 \in Times BY BoundsAssumption DEF Times
<1>4. Cardinality(Procs) \in Nat BY ProcsAssumption, FS_CardinalityType
<1>5. 0 \in Lines /\ 1 \in Lines /\ TooLong \in Nat
      BY <1>4, BoundsAssumption DEF Lines, TooLong
<1>6. NoInfo \in Infos BY <1>1, <1>2, <1>3, <1>5 DEF NoInfo, Infos
<1>7. NoCount \in Counts BY <1>3, DirsFacts DEF NoCount, Counts
<1>8. NoFile \in Files BY <1>1, <1>2, <1>3, <1>5 DEF NoFile, Files
<1> QED BY <1>1, <1>2, <1>3, <1>5, <1>6, <1>7, <1>8

\* A line added to an account gives an account (maildir_addquota).
LEMMA PlusType ==
  ASSUME NEW a \in Accounts, NEW m, NEW n \in Int
  PROVE  Plus(a, m, n) \in Accounts
<1>1. a \in [Msgs -> Int] BY DEF Accounts
<1>2. ASSUME NEW x \in Msgs PROVE Plus(a, m, n)[x] \in Int
      BY <1>1 DEF Plus
<1>3. Plus(a, m, n) = [x \in Msgs |-> Plus(a, m, n)[x]]
      BY <1>1 DEF Plus
<1> QED BY <1>2, <1>3 DEF Accounts

\* The initial maildir is typed.
LEMMA InitType == Init => TypeInv
<1> SUFFICES ASSUME Init PROVE TypeInv
    OBVIOUS
<1> USE BlankTypes, DirsFacts, BoundsAssumption
<1>1. LocalOK
  <2>1. /\ pc = [p \in Procs |-> "idle"] /\ op = [p \in Procs |-> "set"]
        /\ msg = [p \in Procs |-> None] /\ dir = [p \in Procs |-> AnyDir]
        /\ tries = [p \in Procs |-> 0]
        /\ newquota = [p \in Procs |-> NoQuota]
        /\ info = [p \in Procs |-> NoInfo] /\ count = [p \in Procs |-> NoCount]
        BY DEF Init
  <2>2. "idle" \in PCs /\ "set" \in AllOps /\ 0 \in 0..MaxTries
        BY DEF PCs, AllOps
  <2> QED BY <2>1, <2>2 DEF LocalOK
<1>2. at \in [Msgs -> SUBSET Dirs]
  <2>1. <<Folders[1], "cur">> \in Dirs BY FolderAssumption DEF Dirs
  <2>2. PICK S \in SUBSET Msgs :
          at = [m \in Msgs |->
                 IF m \in S THEN {<<Folders[1], "cur">>} ELSE {}]
        BY DEF Init
  <2> QED BY <2>1, <2>2
<1>3. file \in [Inodes -> Files]
  <2>1. PICK S \in SUBSET Msgs, q \in Quotas :
          file = [i \in Inodes |->
            IF i # link THEN NoFile
            ELSE [NoFile EXCEPT !.quota = q,
                    !.account = [m \in Msgs |-> IF m \in S THEN 1 ELSE 0],
                    !.nlines = 1]]
        BY DEF Init
  <2>2. [NoFile EXCEPT !.quota = q,
           !.account = [m \in Msgs |-> IF m \in S THEN 1 ELSE 0],
           !.nlines = 1] \in Files
    <3>1. [m \in Msgs |-> IF m \in S THEN 1 ELSE 0] \in Accounts
          BY DEF Accounts
    <3>2. q \in QuotaValues BY DEF QuotaValues
    <3> QED BY <3>1, <3>2 DEF NoFile, Files
  <2> QED BY <2>1, <2>2
<1>4. SharedOK
  <2>1. /\ now = 0 /\ mtime = [d \in Dirs |-> 0] /\ ops = 0 /\ clean = TRUE
        /\ link \in Inodes \cup {None}
        BY DEF Init
  <2>2. 0 \in 0..MaxOps OBVIOUS
  <2> QED BY <1>2, <1>3, <2>1, <2>2 DEF SharedOK
<1>5. PositionOK BY DEF Init, PositionOK
<1> QED BY <1>1, <1>4, <1>5, TypeSplit DEF TypeInv

\* The end of an operation (maildir_closequotafile).
LEMMA DoneType ==
  ASSUME TypeInv, NEW p \in Procs, Done(p)
  PROVE  LocalOK' /\ PositionOK'
<1> USE BlankTypes, DirsFacts, BoundsAssumption
<1>1. LocalOK BY TypeSplit DEF TypeInv
<1>2. LocalOK' BY <1>1 DEF Done, LocalOK, PCs, AllOps
<1>3. PositionOK' BY <1>1 DEF Done, TypeInv, PositionOK, LocalOK
<1> QED BY <1>2, <1>3

\* Going on with another struct maildirsize keeps the types.
LEMMA GotoType ==
  ASSUME TypeInv, NEW p \in Procs, NEW l \in PCs \ Counting,
         NEW inf \in Infos, NEW n \in 0..MaxTries, Goto(p, l, inf, n)
  PROVE  /\ pc' \in [Procs -> PCs] /\ info' \in [Procs -> Infos]
         /\ count' \in [Procs -> Counts] /\ tries' \in [Procs -> 0..MaxTries]
         /\ PositionOK'
<1> USE BlankTypes, BoundsAssumption
<1>1. LocalOK BY TypeSplit DEF TypeInv
<1>2. /\ pc' \in [Procs -> PCs] /\ info' \in [Procs -> Infos]
      /\ count' \in [Procs -> Counts] /\ tries' \in [Procs -> 0..MaxTries]
      BY <1>1 DEF Goto, LocalOK
<1>3. PositionOK'
      BY <1>1 DEF Goto, TypeInv, PositionOK, LocalOK, Counting
<1> QED BY <1>2, <1>3

\* Whatever a caller does with the result of maildir_checkquota keeps the
\* types of what the process holds.
LEMMA ReturnType ==
  ASSUME TypeInv, NEW p \in Procs, NEW rc, NEW inf \in Infos,
         Return(p, rc, inf)
  PROVE  LocalOK' /\ PositionOK'
<1> USE BlankTypes, BoundsAssumption
<1>1. LocalOK BY TypeSplit DEF TypeInv
<1>2. /\ {"open", "record", "check", "link"} \subseteq PCs \ Counting
      /\ Admitted(p) \in PCs \ Counting
      /\ 0 \in 0..MaxTries
      BY DEF PCs, Counting, Admitted
<1>3. CASE Done(p) BY <1>3, DoneType
<1>4. ASSUME NEW l \in PCs \ Counting, NEW j \in Infos, NEW n \in 0..MaxTries,
             Goto(p, l, j, n), op' \in [Procs -> AllOps],
             newquota' \in [Procs -> QuotaValues], UNCHANGED <<msg, dir>>
      PROVE  LocalOK' /\ PositionOK'
      BY <1>1, <1>4, GotoType DEF LocalOK
<1>5. CASE Goto(p, "open", NoInfo, 0) /\ UNCHANGED <<op, msg, dir>>
           /\ newquota' = [newquota EXCEPT ![p] = NoQuota]
      BY <1>1, <1>2, <1>4, <1>5 DEF LocalOK
<1>6. CASE ForceIt(p)
      BY <1>1, <1>2, <1>4, <1>6 DEF LocalOK, ForceIt, AllOps
<1>7. CASE UNCHANGED args /\ Goto(p, "record", inf, 0)
      BY <1>1, <1>2, <1>4, <1>7 DEF LocalOK, args
<1>8. CASE UNCHANGED args /\ Goto(p, Admitted(p), inf, 0)
      BY <1>1, <1>2, <1>4, <1>8 DEF LocalOK, args
<1>9. CASE UNCHANGED args /\ Goto(p, Admitted(p), NoInfo, 0)
      BY <1>1, <1>2, <1>4, <1>9 DEF LocalOK, args
<1>10. CASE UNCHANGED args /\ tries[p] + 1 < MaxTries
            /\ Goto(p, "check", inf, tries[p] + 1)
  <2>1. tries[p] + 1 \in 0..MaxTries BY <1>1, <1>10 DEF LocalOK
  <2> QED BY <1>1, <1>2, <1>4, <1>10, <2>1 DEF LocalOK, args
<1> QED
    BY <1>3, <1>5, <1>6, <1>7, <1>8, <1>9, <1>10 DEF Return

\* Every step keeps the types.
LEMMA NextType == TypeInv /\ [Next]_vars => TypeInv'
<1> SUFFICES ASSUME TypeInv, [Next]_vars PROVE TypeInv'
    OBVIOUS
<1> USE BlankTypes, DirsFacts, BoundsAssumption
<1>1. SharedOK /\ LocalOK /\ PositionOK BY TypeSplit DEF TypeInv
<1>2. (SharedOK' /\ LocalOK' /\ PositionOK') => TypeInv'
      BY DEF TypeInv, TypeOK, SharedOK, LocalOK
<1>3. ASSUME NEW p \in Procs, Start(p) PROVE TypeInv'
  <2>1. PICK o \in Ops, m \in Msgs \cup {None}, d \in Dirs, q \in QuotaValues :
          /\ op' = [op EXCEPT ![p] = o]
          /\ msg' = [msg EXCEPT ![p] = m]
          /\ dir' = [dir EXCEPT ![p] = d]
          /\ newquota' = [newquota EXCEPT ![p] = q]
          /\ pc' = [pc EXCEPT ![p] = IF o = "move" THEN "linkdest" ELSE "open"]
        BY <1>3 DEF Start
  <2>2. LocalOK'
        BY <1>1, <1>3, <2>1, OpsAssumption DEF Start, LocalOK, PCs
  <2>3. PositionOK'
        BY <1>1, <1>3, <2>1 DEF Start, LocalOK, PositionOK
  <2>4. SharedOK'
        BY <1>1, <1>3 DEF Start, SharedOK, maildir, size
  <2> QED BY <1>2, <2>2, <2>3, <2>4
<1>4. ASSUME NEW p \in Procs, NEW i \in Inodes \cup {None}, OpenAs(p, i),
             clean' \in BOOLEAN
      PROVE  TypeInv'
  <2>1. ReadFile(i) \in Infos
    <3>1. CASE i = None BY <3>1 DEF ReadFile
    <3>2. CASE i # None
      <4>1. file[i] \in Files BY <1>1, <3>2 DEF SharedOK
      <4> QED BY <3>2, <4>1 DEF ReadFile, Files, Infos, Lines
    <3> QED BY <3>1, <3>2
  <2>2. newquota[p] \in QuotaValues BY <1>1 DEF LocalOK
  <2>3. /\ Imposed(p, ReadFile(i)) \in Infos
        /\ [Imposed(p, ReadFile(i)) EXCEPT !.recalculation_needed = TRUE]
             \in Infos
        BY <2>1, <2>2 DEF Imposed, Infos
  <2>4. Blank(newquota[p]) \in Infos
        BY <2>2 DEF Blank, NoInfo, Infos
  <2>5. LocalOK'
    <3>1. newquota' \in [Procs -> QuotaValues]
          BY <1>1, <1>4 DEF OpenAs, LocalOK
    <3>2. \E j \in Infos : info' = [info EXCEPT ![p] = j]
          BY <1>4, <2>3, <2>4 DEF OpenAs
    <3>3. pc' = [pc EXCEPT ![p] = "check"] /\ UNCHANGED <<op, msg, dir, tries, count>>
          BY <1>4 DEF OpenAs
    <3> QED BY <1>1, <3>1, <3>2, <3>3 DEF LocalOK, PCs
  <2>6. PositionOK' BY <1>1, <1>4 DEF OpenAs, PositionOK, LocalOK
  <2>7. SharedOK' BY <1>1, <1>4 DEF OpenAs, SharedOK, maildir, size
  <2> QED BY <1>2, <2>5, <2>6, <2>7
<1>5. ASSUME NEW p \in Procs, NEW rc, NEW inf \in Infos, Return(p, rc, inf),
             SharedOK'
      PROVE  TypeInv'
      BY <1>2, <1>5, ReturnType
<1>6. ASSUME NEW p \in Procs, Admit(p) \/ Refuse(p) \/ InstallFails(p) \/ Accept(p)
      PROVE  TypeInv'
  <2>1. info[p] \in Infos BY <1>1 DEF LocalOK
  <2>2. SharedOK'
        BY <1>1, <1>6
        DEF Admit, Refuse, InstallFails, Accept, SharedOK, maildir, size
  <2> QED BY <1>5, <1>6, <2>1, <2>2 DEF Admit, Refuse, InstallFails, Accept
<1>7. ASSUME NEW p \in Procs, Recount(p) PROVE TypeInv'
  <2>1. [NoCount EXCEPT !.began = now] \in Counts
        BY <1>1 DEF SharedOK, NoCount, Counts
  <2>2. LocalOK' BY <1>1, <1>7, <2>1 DEF Recount, LocalOK, PCs, Counting, args
  <2>3. PositionOK'
        BY <1>1, <1>7 DEF Recount, PositionOK, LocalOK, NoCount
  <2>4. SharedOK' BY <1>1, <1>7 DEF Recount, SharedOK, maildir, size
  <2> QED BY <1>2, <2>2, <2>3, <2>4
<1>8. ASSUME NEW p \in Procs, StatDirectory(p) PROVE TypeInv'
  <2>1. count[p] \in Counts BY <1>1 DEF LocalOK
  <2>2. count[p].pos \in 1..NDirs
        BY <1>1, <1>8, <2>1 DEF PositionOK, StatDirectory, Counts
  <2>3. mtime[ScanDir(count[p].pos)] \in Times BY <1>1, <2>2 DEF SharedOK
  <2>4. Later(count[p].maxtime, mtime[ScanDir(count[p].pos)]) \in Times
        BY <2>1, <2>3 DEF Later, Counts
  <2>5. [count[p] EXCEPT !.maxtime =
           Later(@, mtime[ScanDir(count[p].pos)])] \in Counts
        BY <2>1, <2>4 DEF Counts
  <2>6. LocalOK'
        BY <1>1, <1>8, <2>5 DEF StatDirectory, LocalOK, PCs, Counting, args
  <2>7. PositionOK'
        BY <1>1, <1>8 DEF StatDirectory, PositionOK, LocalOK, Counts
  <2>8. SharedOK' BY <1>1, <1>8 DEF StatDirectory, SharedOK, maildir, size
  <2> QED BY <1>2, <2>6, <2>7, <2>8
<1>9. ASSUME NEW p \in Procs, ReadDirectory(p) PROVE TypeInv'
  <2> DEFINE k == count[p].pos
             c == [count[p] EXCEPT
                     !.seen = @ \cup {e \in Entries : e[2] = ScanDir(k)},
                     !.pos = k + 1]
  <2>1. count[p] \in Counts BY <1>1 DEF LocalOK
  <2>2. k \in 1..NDirs
        BY <1>1, <1>9, <2>1 DEF PositionOK, ReadDirectory, Counts
  <2>3. c \in Counts
    <3>1. {e \in Entries : e[2] = ScanDir(k)} \subseteq Msgs \X Dirs
          BY DEF Entries
    <3>2. count[p].seen \cup {e \in Entries : e[2] = ScanDir(k)}
            \in SUBSET (Msgs \X Dirs)
          BY <2>1, <3>1 DEF Counts
    <3>3. k + 1 \in 1..NDirs + 1 BY <2>2
    <3> QED BY <2>1, <3>2, <3>3 DEF Counts
  <2>4. /\ count' = [count EXCEPT ![p] = c]
        /\ pc' = [pc EXCEPT ![p] = IF k = NDirs THEN "install" ELSE "stat"]
        BY <1>9 DEF ReadDirectory
  <2>5. LocalOK'
    <3>1. UNCHANGED <<op, msg, dir, tries, newquota, info>>
          BY <1>9 DEF ReadDirectory, args
    <3>2. count' \in [Procs -> Counts] BY <1>1, <2>3, <2>4 DEF LocalOK
    <3>3. pc' \in [Procs -> PCs] BY <1>1, <2>4 DEF LocalOK, PCs, Counting
    <3> QED BY <1>1, <3>1, <3>2, <3>3 DEF LocalOK
  <2>6. PositionOK'
        BY <1>1, <2>1, <2>2, <2>4 DEF PositionOK, LocalOK, Counts
  <2>7. SharedOK' BY <1>1, <1>9 DEF ReadDirectory, SharedOK, maildir, size
  <2> QED BY <1>2, <2>5, <2>6, <2>7
<1>10. ASSUME NEW p \in Procs, Install(p) PROVE TypeInv'
  <2>1. count[p] \in Counts /\ info[p] \in Infos BY <1>1 DEF LocalOK
  <2>2. PICK i \in Inodes : /\ file' = [file EXCEPT ![i] = Recounted(p)]
                            /\ link' = i
                            /\ info' = [info EXCEPT ![p] = Switched(p, i)]
        BY <1>10 DEF Install, Unused
  <2>3. \A m \in Msgs : Copies(count[p].seen, m) \in Int
        BY <2>1, CopiesType DEF Counts
  <2>4. [m \in Msgs |-> Copies(count[p].seen, m)] \in Accounts
        BY <2>3 DEF Accounts
  <2>5. Recounted(p) \in Files
        BY <1>1, <2>1, <2>4 DEF Recounted, Files, Infos, SharedOK
  <2>6. Switched(p, i) \in Infos
        BY <2>1, <2>4 DEF Switched, Recounted, Infos
  <2>7. [count[p] EXCEPT !.pos = 1, !.snap = Entries] \in Counts
    <3>1. Entries \in SUBSET (Msgs \X Dirs) BY DEF Entries
    <3>2. 1 \in 1..NDirs + 1 OBVIOUS
    <3> QED BY <2>1, <3>1, <3>2 DEF Counts
  <2>8. /\ count' = [count EXCEPT ![p] = [@ EXCEPT !.pos = 1, !.snap = Entries]]
        /\ pc' = [pc EXCEPT ![p] = "restat"]
        BY <1>10 DEF Install
  <2>9. LocalOK'
        BY <1>1, <1>10, <2>2, <2>6, <2>7, <2>8
        DEF Install, LocalOK, PCs, Counting, args
  <2>10. PositionOK'
        BY <1>1, <2>1, <2>8 DEF PositionOK, LocalOK, Counts
  <2>11. SharedOK'
        BY <1>1, <1>10, <2>2, <2>5 DEF Install, SharedOK, maildir
  <2> QED BY <1>2, <2>9, <2>10, <2>11
<1>11. ASSUME NEW p \in Procs, Restat(p) PROVE TypeInv'
  <2> DEFINE k == count[p].pos
             c == [count[p] EXCEPT !.tm = Later(@, mtime[StatDir(k)]),
                                   !.pos = k + 1]
  <2>1. count[p] \in Counts BY <1>1 DEF LocalOK
  <2>2. k \in 1..NDirs
        BY <1>1, <1>11, <2>1 DEF PositionOK, Restat, Counts
  <2>3. mtime[StatDir(k)] \in Times BY <1>1, <2>2 DEF SharedOK
  <2>4. c \in Counts
    <3>1. Later(count[p].tm, mtime[StatDir(k)]) \in Times
          BY <2>1, <2>3 DEF Later, Counts
    <3>2. k + 1 \in 1..NDirs + 1 BY <2>2
    <3> QED BY <2>1, <3>1, <3>2 DEF Counts
  <2>5. /\ count' = [count EXCEPT ![p] = c]
        /\ pc' = [pc EXCEPT ![p] = IF k = NDirs THEN "verdict" ELSE "restat"]
        BY <1>11 DEF Restat
  <2>6. LocalOK'
        BY <1>1, <1>11, <2>4, <2>5 DEF Restat, LocalOK, PCs, Counting, args
  <2>7. PositionOK'
        BY <1>1, <2>1, <2>2, <2>5 DEF PositionOK, LocalOK, Counts
  <2>8. SharedOK' BY <1>1, <1>11 DEF Restat, SharedOK, maildir, size
  <2> QED BY <1>2, <2>6, <2>7, <2>8
<1>12. ASSUME NEW p \in Procs, Raced(p) PROVE TypeInv'
  <2>1. Outdated(info[p]) \in Infos BY <1>1 DEF LocalOK, Outdated, Infos
  <2>2. SharedOK' BY <1>1, <1>12 DEF Raced, SharedOK, maildir
  <2> QED BY <1>5, <1>12, <2>1, <2>2 DEF Raced
<1>13. ASSUME NEW p \in Procs, Record(p) \/ RecordFails(p) PROVE TypeInv'
  <2>1. ASSUME NEW i \in Inodes PROVE Appended(file[i], p) \in Files
    <3>1. file[i] \in Files BY <1>1 DEF SharedOK
    <3>2. Sign(p) \in Int BY DEF Sign
    <3>3. Plus(file[i].account, msg[p], Sign(p)) \in Accounts
          BY <3>1, <3>2, PlusType DEF Files
    <3>4. (IF file[i].nlines = TooLong THEN file[i].nlines
           ELSE file[i].nlines + 1) \in Lines
          BY <3>1 DEF Files, Lines
    <3>5. now \in Times BY <1>1 DEF SharedOK
    <3> QED BY <3>1, <3>3, <3>4, <3>5 DEF Appended, Files
  <2>2. file' \in [Inodes -> Files]
        BY <1>1, <1>13, <2>1 DEF Record, RecordFails, SharedOK, size
  <2>3. SharedOK'
        BY <1>1, <1>13, <2>2 DEF Record, RecordFails, SharedOK, maildir, size
  <2>4. LocalOK' /\ PositionOK'
    <3>1. AfterRecord(p) BY <1>13 DEF Record, RecordFails
    <3>2. CASE Done(p) BY <3>2, DoneType
    <3>3. CASE /\ Goto(p, IF op[p] = "delete" THEN "remove" ELSE "link", NoInfo, 0)
               /\ UNCHANGED args
      <4>1. (IF op[p] = "delete" THEN "remove" ELSE "link") \in PCs \ Counting
            BY DEF PCs, Counting
      <4>2. 0 \in 0..MaxTries OBVIOUS
      <4> QED BY <1>1, <3>3, <4>1, <4>2, GotoType DEF LocalOK, args
    <3> QED BY <3>1, <3>2, <3>3 DEF AfterRecord
  <2> QED BY <1>2, <2>3, <2>4
<1>14. ASSUME NEW p \in Procs, Link(p) PROVE TypeInv'
  <2>1. dir[p] \in Dirs /\ info[p] \in Infos BY <1>1 DEF LocalOK
  <2>2. SharedOK' BY <1>1, <1>14, <2>1 DEF Link, SharedOK, size
  <2>3. LocalOK' /\ PositionOK'
    <3>1. CASE Done(p) BY <3>1, DoneType
    <3>2. CASE Goto(p, "record", info[p], 0) /\ UNCHANGED args
      <4>1. "record" \in PCs \ Counting /\ 0 \in 0..MaxTries
            BY DEF PCs, Counting
      <4> QED BY <1>1, <2>1, <3>2, <4>1, GotoType DEF LocalOK, args
    <3> QED BY <1>14, <3>1, <3>2 DEF Link
  <2> QED BY <1>2, <2>2, <2>3
<1>15. ASSUME NEW p \in Procs, LinkFails(p) \/ LinkDestFails(p) \/ Crash(p)
       PROVE  TypeInv'
  <2>1. SharedOK'
        BY <1>1, <1>15
        DEF LinkFails, LinkDestFails, Crash, SharedOK, maildir, size
  <2> QED BY <1>2, <1>15, <2>1, DoneType DEF LinkFails, LinkDestFails, Crash
<1>16. ASSUME NEW p \in Procs, Remove(p) PROVE TypeInv'
  <2>1. SharedOK' BY <1>1, <1>16 DEF Remove, SharedOK, size
  <2> QED BY <1>2, <1>16, <2>1, DoneType DEF Remove
<1>17. ASSUME NEW p \in Procs, LinkDest(p) PROVE TypeInv'
  <2>1. SharedOK'
    <3>1. PICK d \in Dirs :
            /\ at' = [at EXCEPT ![msg[p]] = @ \cup {d}]
            /\ mtime' = [mtime EXCEPT ![d] = now]
          BY <1>17 DEF LinkDest
    <3>2. now' = now /\ UNCHANGED size /\ ops' = ops /\ clean' \in BOOLEAN
          BY <1>1, <1>17 DEF LinkDest, SharedOK
    <3> QED BY <1>1, <3>1, <3>2 DEF SharedOK, size
  <2>2. "remove" \in PCs \ Counting /\ 0 \in 0..MaxTries
        BY DEF PCs, Counting
  <2>3. Goto(p, "remove", NoInfo, 0) /\ UNCHANGED args BY <1>17 DEF LinkDest
  <2>4. LocalOK' /\ PositionOK'
        BY <1>1, <2>2, <2>3, GotoType DEF LocalOK, args
  <2> QED BY <1>2, <2>1, <2>4
<1>18. ASSUME UNCHANGED local, SharedOK' PROVE TypeInv'
       BY <1>1, <1>2, <1>18 DEF local, args, LocalOK, PositionOK
<1>19. CASE Tick
  <2>1. SharedOK' BY <1>1, <1>19 DEF Tick, SharedOK, Times, maildir, size, local
  <2> QED BY <1>18, <1>19, <2>1 DEF Tick
<1>20. ASSUME NEW m \in Msgs, CheckNew(m) PROVE TypeInv'
  <2>1. PICK k \in 1..Len(Folders) :
          /\ at' = [at EXCEPT ![m] = (@ \ {<<Folders[k], "new">>})
                                      \cup {<<Folders[k], "cur">>}]
          /\ mtime' = [mtime EXCEPT ![<<Folders[k], "new">>] = now,
                                    ![<<Folders[k], "cur">>] = now]
        BY <1>20 DEF CheckNew
  <2>2. <<Folders[k], "cur">> \in Dirs BY DEF Dirs
  <2>3. now' = now /\ link' = link /\ file' = file /\ ops' = ops
        /\ clean' \in BOOLEAN
        BY <1>1, <1>20 DEF CheckNew, size, local, SharedOK
  <2>4. SharedOK' BY <1>1, <2>1, <2>2, <2>3 DEF SharedOK
  <2> QED BY <1>18, <1>20, <2>4 DEF CheckNew
<1>21. ASSUME NEW m \in Msgs, SetFlag(m) PROVE TypeInv'
  <2>1. SharedOK' BY <1>1, <1>21 DEF SetFlag, SharedOK, size, local
  <2> QED BY <1>18, <1>21, <2>1 DEF SetFlag
<1>22. CASE UNCHANGED vars
  <2>1. UNCHANGED local /\ SharedOK'
        BY <1>1, <1>22 DEF vars, local, args, SharedOK
  <2> QED BY <1>18, <2>1
<1>23. ASSUME NEW p \in Procs, Work(p) \/ Fault(p) PROVE TypeInv'
  <2>1. CASE Open(p) BY <1>1, <1>4, <2>1 DEF Open, SharedOK
  <2>2. CASE OpenFails(p) BY <1>4, <2>2 DEF OpenFails
  <2> QED
      BY <1>6, <1>7, <1>8, <1>9, <1>10, <1>11, <1>12, <1>13, <1>14, <1>15,
         <1>16, <1>17, <1>23, <2>1, <2>2
      DEF Work, Fault
<1> QED
    BY <1>3, <1>19, <1>20, <1>21, <1>22, <1>23 DEF Next, Normal

\* maildirsize, the directories and what every process holds keep their
\* types in every behaviour, faults included.
THEOREM TypeCorrect == Spec => []TypeOK
<1>1. TypeInv => TypeOK BY DEF TypeInv
<1> QED BY InitType, NextType, <1>1, PTL DEF Spec

-----------------------------------------------------------------------------
(* An accepted recount in a quiet second is exact.                         *)
(*                                                                         *)
(* A directory whose timestamp is older than the start of the count has    *)
(* not changed since, so what was read of it still holds.  One that did    *)
(* change keeps a timestamp at least as young as that start, and the       *)
(* second look finds it.                                                   *)

ClockOK == \A d \in Dirs : mtime[d] <= now

\* Of the directories before position k, those that have not changed since
\* the count began are seen as they are.
ReadOK(p, k) ==
  /\ count[p].seen \subseteq {e \in Msgs \X Dirs :
                               \E j \in 1..k - 1 : e[2] = ScanDir(j)}
  /\ \A j \in 1..k - 1 : mtime[ScanDir(j)] < count[p].began =>
       \A m \in Msgs : <<m, ScanDir(j)>> \in count[p].seen
                        <=> ScanDir(j) \in at[m]

\* If what was seen is not what was stored at the rename, then some directory
\* tells so, and the second look has not passed it without noticing.
LookOK(p) ==
  \/ count[p].seen = count[p].snap
  \/ \E k \in 1..NDirs : /\ mtime[StatDir(k)] >= count[p].began
                         /\ k < count[p].pos => count[p].tm >= count[p].began

RecountOK(p) ==
  /\ pc[p] \in {"stat", "read"} => ReadOK(p, count[p].pos)
  /\ pc[p] = "install" => ReadOK(p, NDirs + 1)
  /\ pc[p] \in Counting => count[p].began <= now
  /\ pc[p] = "restat" => LookOK(p)
  /\ pc[p] = "verdict" =>
       count[p].seen = count[p].snap \/ count[p].tm >= count[p].began

RecountInv == TypeInv /\ ClockOK /\ \A p \in Procs : RecountOK(p)

\* A step leaves a directory alone or dates it with the present second.
StoreStep ==
  /\ now <= now' /\ now' \in Times
  /\ at' \in [Msgs -> SUBSET Dirs] /\ mtime' \in [Dirs -> Times]
  /\ \A d \in Dirs :
       \/ mtime'[d] = now
       \/ /\ mtime'[d] = mtime[d]
          /\ \A m \in Msgs : d \in at'[m] <=> d \in at[m]

\* Linking, removing, moving and flagging all date the directory they touch.
LEMMA NextStoreStep == TypeInv /\ [Next]_vars => StoreStep
<1> SUFFICES ASSUME TypeInv, [Next]_vars PROVE StoreStep
    OBVIOUS
<1>1. SharedOK /\ LocalOK BY TypeSplit DEF TypeInv
<1>2. SharedOK'
  <2>1. TypeInv' BY NextType
  <2>2. TypeOK' BY <2>1 DEF TypeInv
  <2> QED BY <2>2 DEF TypeOK, SharedOK
<1>3. /\ now \in Times /\ now' \in Times
      /\ at \in [Msgs -> SUBSET Dirs] /\ mtime \in [Dirs -> Times]
      /\ at' \in [Msgs -> SUBSET Dirs] /\ mtime' \in [Dirs -> Times]
      BY <1>1, <1>2 DEF SharedOK
<1>4. CASE now' = now /\ UNCHANGED maildir
      BY <1>3, <1>4 DEF StoreStep, maildir, Times
<1>5. ASSUME now' = now, NEW m, NEW d \in Dirs, NEW D \in SUBSET Dirs,
             at' = [at EXCEPT ![m] = D],
             m \in Msgs => \A c \in Dirs : c # d => (c \in D <=> c \in at[m]),
             mtime' = [mtime EXCEPT ![d] = now]
      PROVE  StoreStep
  <2>1. ASSUME NEW c \in Dirs, c # d, NEW x \in Msgs
        PROVE  c \in at'[x] <=> c \in at[x]
        BY <1>3, <1>5, <2>1
  <2>2. ASSUME NEW c \in Dirs, c # d PROVE mtime'[c] = mtime[c]
        BY <1>3, <1>5, <2>2
  <2>3. mtime'[d] = now BY <1>3, <1>5
  <2> QED BY <1>3, <1>5, <2>1, <2>2, <2>3 DEF StoreStep, Times
<1>6. ASSUME NEW p \in Procs, Link(p) PROVE StoreStep
  <2>1. dir[p] \in Dirs BY <1>1 DEF LocalOK
  <2>2. CASE msg[p] \in Msgs
    <3> DEFINE D == at[msg[p]] \cup {dir[p]}
    <3>1. D \in SUBSET Dirs BY <1>3, <2>1, <2>2
    <3>2. /\ at' = [at EXCEPT ![msg[p]] = D]
          /\ mtime' = [mtime EXCEPT ![dir[p]] = now] /\ now' = now
          BY <1>6 DEF Link
    <3>3. \A c \in Dirs : c # dir[p] => (c \in D <=> c \in at[msg[p]])
          OBVIOUS
    <3> HIDE DEF D
    <3> QED BY <1>5, <2>1, <3>1, <3>2, <3>3
  <2>3. CASE msg[p] \notin Msgs
    <3>1. at' = at BY <1>3, <1>6, <2>3 DEF Link
    <3>2. mtime' = [mtime EXCEPT ![dir[p]] = now] /\ now' = now
          BY <1>6 DEF Link
    <3> QED BY <1>3, <2>1, <3>1, <3>2 DEF StoreStep, Times
  <2> QED BY <2>2, <2>3
<1>7. ASSUME NEW p \in Procs, Remove(p) PROVE StoreStep
  <2>1. dir[p] \in Dirs BY <1>1 DEF LocalOK
  <2>2. CASE msg[p] \in Msgs
    <3> DEFINE D == at[msg[p]] \ {dir[p]}
    <3>1. D \in SUBSET Dirs BY <1>3, <2>1, <2>2
    <3>2. /\ at' = [at EXCEPT ![msg[p]] = D]
          /\ mtime' = [mtime EXCEPT ![dir[p]] = now] /\ now' = now
          BY <1>7 DEF Remove
    <3>3. \A c \in Dirs : c # dir[p] => (c \in D <=> c \in at[msg[p]])
          OBVIOUS
    <3> HIDE DEF D
    <3> QED BY <1>5, <2>1, <3>1, <3>2, <3>3
  <2>3. CASE msg[p] \notin Msgs
    <3>1. at' = at BY <1>3, <1>7, <2>3 DEF Remove
    <3>2. mtime' = [mtime EXCEPT ![dir[p]] = now] /\ now' = now
          BY <1>7 DEF Remove
    <3> QED BY <1>3, <2>1, <3>1, <3>2 DEF StoreStep, Times
  <2> QED BY <2>2, <2>3
<1>8. ASSUME NEW p \in Procs, LinkDest(p) PROVE StoreStep
  <2>1. PICK d \in Dirs : /\ at' = [at EXCEPT ![msg[p]] = @ \cup {d}]
                          /\ mtime' = [mtime EXCEPT ![d] = now]
        BY <1>8 DEF LinkDest
  <2>2. now' = now BY <1>8 DEF LinkDest
  <2>3. CASE msg[p] \in Msgs
    <3> DEFINE D == at[msg[p]] \cup {d}
    <3>1. D \in SUBSET Dirs BY <1>3, <2>3
    <3>2. at' = [at EXCEPT ![msg[p]] = D] BY <2>1
    <3>3. \A c \in Dirs : c # d => (c \in D <=> c \in at[msg[p]])
          OBVIOUS
    <3> HIDE DEF D
    <3> QED BY <1>5, <2>1, <2>2, <3>1, <3>2, <3>3
  <2>4. CASE msg[p] \notin Msgs
    <3>1. at' = at BY <1>3, <2>1, <2>4
    <3> QED BY <1>3, <2>1, <2>2, <3>1 DEF StoreStep, Times
  <2> QED BY <2>3, <2>4
<1>9. ASSUME NEW m \in Msgs, CheckNew(m) PROVE StoreStep
  <2>1. PICK k \in 1..Len(Folders) :
          /\ at' = [at EXCEPT ![m] = (@ \ {<<Folders[k], "new">>})
                                      \cup {<<Folders[k], "cur">>}]
          /\ mtime' = [mtime EXCEPT ![<<Folders[k], "new">>] = now,
                                    ![<<Folders[k], "cur">>] = now]
          /\ now' = now
        BY <1>9 DEF CheckNew
  <2> DEFINE new == <<Folders[k], "new">>
             cur == <<Folders[k], "cur">>
  <2>2. new \in Dirs /\ cur \in Dirs BY DEF Dirs
  <2>3. ASSUME NEW c \in Dirs, c # new, c # cur
        PROVE  /\ mtime'[c] = mtime[c]
               /\ \A x \in Msgs : c \in at'[x] <=> c \in at[x]
        BY <1>3, <2>1, <2>3
  <2>4. mtime'[new] = now /\ mtime'[cur] = now BY <1>3, <2>1, <2>2
  <2> HIDE DEF new, cur
  <2>5. ASSUME NEW c \in Dirs
        PROVE  \/ mtime'[c] = now
               \/ /\ mtime'[c] = mtime[c]
                  /\ \A x \in Msgs : c \in at'[x] <=> c \in at[x]
        BY <2>3, <2>4
  <2>6. now' = now BY <2>1
  <2> QED BY <1>3, <2>5, <2>6 DEF StoreStep, Times
<1>10. ASSUME NEW m \in Msgs, SetFlag(m) PROVE StoreStep
  <2>1. PICK d \in at[m] : mtime' = [mtime EXCEPT ![d] = now]
        BY <1>10 DEF SetFlag
  <2>2. now' = now /\ at' = at /\ d \in Dirs BY <1>3, <1>10 DEF SetFlag
  <2> QED BY <1>3, <2>1, <2>2 DEF StoreStep, Times
<1>11. CASE Tick
       BY <1>3, <1>11 DEF Tick, StoreStep, Times, maildir
<1>12. CASE UNCHANGED vars BY <1>4, <1>12 DEF vars, maildir
<1>13. ASSUME NEW p \in Procs, Start(p) \/ Fault(p) PROVE StoreStep
       BY <1>4, <1>13
       DEF Start, Fault, OpenFails, OpenAs, InstallFails, RecordFails,
           LinkFails, LinkDestFails, Crash
<1>14. ASSUME NEW p \in Procs, Work(p) PROVE StoreStep
       BY <1>4, <1>6, <1>7, <1>8, <1>14
       DEF Work, Open, OpenAs, Admit, Refuse, Recount, StatDirectory,
           ReadDirectory, Install, Restat, Accept, Raced, Record
<1> QED
    BY <1>9, <1>10, <1>11, <1>12, <1>13, <1>14 DEF Next, Normal

\* Time and the directories move on under a process that stands still.
LEMMA RecountStable ==
  ASSUME RecountInv, StoreStep, NEW p \in Procs,
         pc'[p] = pc[p], count'[p] = count[p]
  PROVE  RecountOK(p)'
<1> DEFINE c == count[p]
<1>1. /\ c \in Counts /\ now \in Times /\ mtime \in [Dirs -> Times]
      BY TypeSplit DEF RecountInv, TypeInv, LocalOK, SharedOK
<1>2. RecountOK(p) BY DEF RecountInv
<1>3. c.began \in Int /\ c.tm \in Int /\ now \in Int /\ now' \in Int
      BY <1>1 DEF Counts, Times, StoreStep
<1>4. ASSUME pc[p] \in Counting, NEW d \in Dirs, mtime'[d] < c.began
      PROVE  /\ mtime[d] < c.began
             /\ \A m \in Msgs : d \in at'[m] <=> d \in at[m]
  <2>1. c.began <= now BY <1>2, <1>4 DEF RecountOK
  <2>2. mtime'[d] # now BY <1>3, <1>4, <2>1
  <2> QED BY <1>4, <2>2 DEF StoreStep
<1>5. ASSUME pc[p] \in Counting, NEW d \in Dirs, mtime[d] >= c.began
      PROVE  mtime'[d] >= c.began
  <2>1. c.began <= now BY <1>2, <1>5 DEF RecountOK
  <2>2. mtime'[d] = now \/ mtime'[d] = mtime[d] BY DEF StoreStep
  <2> QED BY <1>5, <2>1, <2>2
<1>6. ASSUME NEW k \in 1..NDirs + 1, pc[p] \in Counting, ReadOK(p, k)
      PROVE  ReadOK(p, k)'
  <2>1. \A j \in 1..k - 1 : ScanDir(j) \in Dirs BY <1>6, DirsFacts
  <2> QED BY <1>4, <1>6, <2>1 DEF ReadOK
<1>7. ASSUME pc[p] = "restat", LookOK(p) PROVE LookOK(p)'
  <2>1. pc[p] \in Counting BY <1>7 DEF Counting
  <2>2. \A k \in 1..NDirs : StatDir(k) \in Dirs BY DirsFacts
  <2> QED BY <1>5, <1>7, <2>1, <2>2 DEF LookOK
<1>8. pc[p] \in {"stat", "read"} => ReadOK(p, c.pos)'
  <2> SUFFICES ASSUME pc[p] \in {"stat", "read"} PROVE ReadOK(p, c.pos)'
      OBVIOUS
  <2>1. pc[p] \in Counting BY DEF Counting
  <2>2. c.pos \in 1..NDirs + 1 BY <1>1 DEF Counts
  <2>3. ReadOK(p, c.pos) BY <1>2 DEF RecountOK
  <2> QED BY <2>1, <2>2, <2>3, <1>6 DEF ReadOK
<1>9. pc[p] = "install" => ReadOK(p, NDirs + 1)'
  <2> SUFFICES ASSUME pc[p] = "install" PROVE ReadOK(p, NDirs + 1)'
      OBVIOUS
  <2>1. pc[p] \in Counting BY DEF Counting
  <2>2. NDirs + 1 \in 1..NDirs + 1 BY DirsFacts
  <2>3. ReadOK(p, NDirs + 1) BY <1>2 DEF RecountOK
  <2> QED BY <2>1, <2>2, <2>3, <1>6
<1>10. pc[p] \in Counting => c.began <= now'
       BY <1>2, <1>3 DEF RecountOK, StoreStep, Times
<1>11. pc[p] = "restat" => LookOK(p)' BY <1>2, <1>7 DEF RecountOK
<1>12. pc[p] = "verdict" => c.seen = c.snap \/ c.tm >= c.began
       BY <1>2 DEF RecountOK
<1> QED BY <1>8, <1>9, <1>10, <1>11, <1>12 DEF RecountOK, ReadOK

\* A process that leaves the recount owes nothing.
LEMMA RecountLeft ==
  ASSUME NEW p \in Procs, pc'[p] \notin Counting \cup {"verdict"}
  PROVE  RecountOK(p)'
BY DEF RecountOK, Counting

\* The steps of the recount itself.
LEMMA RecountStep ==
  ASSUME RecountInv, [Next]_vars, NEW p \in Procs,
         \/ Recount(p) \/ StatDirectory(p) \/ ReadDirectory(p)
         \/ Install(p) \/ Restat(p)
  PROVE  RecountOK(p)'
<1> DEFINE c == count[p]
<1> USE DirsFacts
<1>1. /\ pc \in [Procs -> PCs] /\ count \in [Procs -> Counts] /\ c \in Counts
      /\ now \in Times /\ mtime \in [Dirs -> Times] /\ PositionOK
      BY TypeSplit DEF RecountInv, TypeInv, LocalOK, SharedOK
<1>2. RecountOK(p) /\ ClockOK BY DEF RecountInv
<1>3. /\ c.began \in Int /\ c.tm \in Int /\ now \in Int /\ c.pos \in 1..NDirs + 1
      /\ c.seen \in SUBSET (Msgs \X Dirs)
      BY <1>1 DEF Counts, Times
<1>4. CASE Recount(p)
  <2>1. /\ pc'[p] = "stat" /\ now' = now
        /\ count'[p] = [NoCount EXCEPT !.began = now]
        BY <1>1, <1>4 DEF Recount
  <2>2. /\ count'[p].pos = 1 /\ count'[p].seen = {} /\ count'[p].began = now
        BY <2>1 DEF NoCount
  <2>3. ReadOK(p, count[p].pos)' BY <2>2 DEF ReadOK
  <2> QED BY <1>3, <2>1, <2>2, <2>3 DEF RecountOK, Counting
<1>5. CASE StatDirectory(p)
  <2>1. /\ pc[p] = "stat" /\ pc'[p] = "read" /\ now' = now /\ UNCHANGED maildir
        /\ count'[p] = [c EXCEPT !.maxtime = Later(@, mtime[ScanDir(c.pos)])]
        BY <1>1, <1>5 DEF StatDirectory
  <2>2. /\ count'[p].pos = c.pos /\ count'[p].seen = c.seen
        /\ count'[p].began = c.began
        BY <1>1, <2>1 DEF Counts
  <2>3. ReadOK(p, c.pos) BY <1>2, <2>1 DEF RecountOK
  <2>4. ReadOK(p, count[p].pos)' BY <2>1, <2>2, <2>3 DEF ReadOK, maildir
  <2> QED BY <1>2, <2>1, <2>2, <2>4 DEF RecountOK, Counting
<1>6. CASE ReadDirectory(p)
  <2>3. PICK k \in 1..NDirs : k = c.pos
    <3>1. c.pos \in 1..NDirs BY <1>1, <1>3, <1>6 DEF PositionOK, ReadDirectory
    <3> QED BY <3>1
  <2> DEFINE D == {e \in Entries : e[2] = ScanDir(k)}
  <2>1. /\ pc[p] = "read" /\ now' = now /\ UNCHANGED maildir
        /\ pc'[p] = IF k = NDirs THEN "install" ELSE "stat"
        /\ count'[p] = [c EXCEPT !.seen = @ \cup D, !.pos = k + 1]
        BY <1>1, <1>6, <2>3 DEF ReadDirectory
  <2>2. /\ count'[p].pos = k + 1 /\ count'[p].seen = c.seen \cup D
        /\ count'[p].began = c.began
        BY <1>1, <2>1 DEF Counts
  <2>4. ReadOK(p, k) BY <1>2, <2>1, <2>3 DEF RecountOK
  <2>5. ReadOK(p, k + 1)'
    <3>1. c.seen \cup D \subseteq {e \in Msgs \X Dirs :
                                  \E j \in 1..k + 1 - 1 : e[2] = ScanDir(j)}
          BY <2>3, <2>4 DEF ReadOK, Entries
    <3>2. ASSUME NEW j \in 1..k + 1 - 1, mtime[ScanDir(j)] < c.began,
                 NEW m \in Msgs
          PROVE  <<m, ScanDir(j)>> \in c.seen \cup D <=> ScanDir(j) \in at[m]
      <4>1. ScanDir(j) \in Dirs BY <2>3, <3>2
      <4>2. <<m, ScanDir(j)>> \in Entries <=> ScanDir(j) \in at[m]
            BY <4>1 DEF Entries
      <4>3. CASE ScanDir(j) = ScanDir(k)
        <5>1. <<m, ScanDir(j)>> \in D <=> ScanDir(j) \in at[m]
              BY <4>2, <4>3
        <5>2. <<m, ScanDir(j)>> \in c.seen => ScanDir(j) \in at[m]
          <6> SUFFICES ASSUME <<m, ScanDir(j)>> \in c.seen
                       PROVE  ScanDir(j) \in at[m]
              OBVIOUS
          <6>1. PICK i \in 1..k - 1 : ScanDir(i) = ScanDir(j)
                BY <2>4 DEF ReadOK
          <6>2. mtime[ScanDir(i)] < c.began BY <3>2, <6>1
          <6> QED BY <2>4, <6>1, <6>2 DEF ReadOK
        <5> QED BY <5>1, <5>2
      <4>4. CASE ScanDir(j) # ScanDir(k)
        <5>1. j \in 1..k - 1 BY <2>3, <4>4
        <5>2. <<m, ScanDir(j)>> \notin D BY <4>4
        <5> QED BY <2>4, <3>2, <5>1, <5>2 DEF ReadOK
      <4> QED BY <4>3, <4>4
    <3>3. /\ count'[p].seen \subseteq {e \in Msgs \X Dirs :
                                  \E j \in 1..k + 1 - 1 : e[2] = ScanDir(j)}
          /\ \A j \in 1..k + 1 - 1 : mtime'[ScanDir(j)] < count'[p].began =>
               \A m \in Msgs : <<m, ScanDir(j)>> \in count'[p].seen
                               <=> ScanDir(j) \in at'[m]
      <4>1. mtime' = mtime /\ at' = at BY <2>1 DEF maildir
      <4> HIDE DEF D
      <4> QED BY <2>2, <3>1, <3>2, <4>1
    <3> QED BY <3>3 DEF ReadOK
  <2>6. c.began <= now BY <1>2, <2>1 DEF RecountOK, Counting
  <2>7. CASE k = NDirs
    <3>1. pc'[p] = "install" BY <2>1, <2>7
    <3>2. ReadOK(p, NDirs + 1)' BY <2>5, <2>7 DEF ReadOK
    <3> QED BY <2>1, <2>2, <2>6, <3>1, <3>2 DEF RecountOK, Counting
  <2>8. CASE k # NDirs
    <3>1. pc'[p] = "stat" BY <2>1, <2>8
    <3>2. ReadOK(p, count[p].pos)' BY <2>2, <2>5 DEF ReadOK
    <3> QED BY <2>1, <2>2, <2>6, <3>1, <3>2 DEF RecountOK, Counting
  <2> QED BY <2>7, <2>8
<1>7. CASE Install(p)
  <2>1. /\ pc[p] = "install" /\ pc'[p] = "restat" /\ now' = now
        /\ UNCHANGED maildir
        /\ count'[p] = [c EXCEPT !.pos = 1, !.snap = Entries]
        BY <1>1, <1>7 DEF Install
  <2>2. /\ count'[p].pos = 1 /\ count'[p].snap = Entries
        /\ count'[p].seen = c.seen /\ count'[p].began = c.began
        BY <1>1, <2>1 DEF Counts
  <2>3. ReadOK(p, NDirs + 1) /\ c.began <= now
        BY <1>2, <2>1 DEF RecountOK, Counting
  <2>4. CASE \E d \in Dirs : mtime[d] >= c.began
    <3>1. PICK k \in 1..NDirs : mtime[StatDir(k)] >= c.began BY <2>4
    <3>2. LookOK(p)' BY <2>1, <2>2, <3>1 DEF LookOK, maildir
    <3> QED BY <2>1, <2>2, <2>3, <3>2 DEF RecountOK, Counting
  <2>5. CASE \A d \in Dirs : ~(mtime[d] >= c.began)
    <3>1. ASSUME NEW m \in Msgs, NEW d \in Dirs
          PROVE  <<m, d>> \in c.seen <=> <<m, d>> \in Entries
      <4>1. PICK j \in 1..NDirs : ScanDir(j) = d OBVIOUS
      <4>2. mtime[d] \in Int BY <1>1 DEF Times
      <4>3. mtime[ScanDir(j)] < c.began BY <1>3, <2>5, <4>1, <4>2
      <4>4. j \in 1..NDirs + 1 - 1 OBVIOUS
      <4> QED BY <2>3, <4>1, <4>3, <4>4 DEF ReadOK, Entries
    <3>2. c.seen = Entries BY <1>3, <3>1 DEF Entries
    <3>3. LookOK(p)' BY <2>2, <3>2 DEF LookOK
    <3> QED BY <2>1, <2>2, <2>3, <3>3 DEF RecountOK, Counting
  <2> QED BY <2>4, <2>5
<1>8. CASE Restat(p)
  <2>3. PICK k \in 1..NDirs : k = c.pos
    <3>1. c.pos \in 1..NDirs BY <1>1, <1>3, <1>8 DEF PositionOK, Restat
    <3> QED BY <3>1
  <2>1. /\ pc[p] = "restat" /\ now' = now /\ UNCHANGED maildir
        /\ pc'[p] = IF k = NDirs THEN "verdict" ELSE "restat"
        /\ count'[p] = [c EXCEPT !.tm = Later(@, mtime[StatDir(k)]),
                                 !.pos = k + 1]
        BY <1>1, <1>8, <2>3 DEF Restat
  <2>2. /\ count'[p].pos = k + 1 /\ count'[p].tm = Later(c.tm, mtime[StatDir(k)])
        /\ count'[p].snap = c.snap
        /\ count'[p].seen = c.seen /\ count'[p].began = c.began
        BY <1>1, <2>1 DEF Counts
  <2>4. LookOK(p) /\ c.began <= now BY <1>2, <2>1 DEF RecountOK, Counting
  <2>5. CASE c.seen = c.snap
        BY <2>1, <2>2, <2>4, <2>5 DEF RecountOK, LookOK, Counting
  <2>6. CASE c.seen # c.snap
    <3>1. PICK j \in 1..NDirs : /\ mtime[StatDir(j)] >= c.began
                                /\ j < k => c.tm >= c.began
          BY <2>3, <2>4, <2>6 DEF LookOK
    <3>2. mtime[StatDir(k)] \in Int /\ mtime[StatDir(j)] \in Int
          BY <1>1, <2>3 DEF Times
    <3>3. j < k + 1 => Later(c.tm, mtime[StatDir(k)]) >= c.began
      <4>1. \A s, t, b \in Int : s >= b \/ t >= b => Later(s, t) >= b
            BY DEF Later
      <4>2. CASE j = k
        <5>1. mtime[StatDir(k)] >= c.began BY <3>1, <4>2
        <5> QED BY <1>3, <3>2, <4>1, <5>1
      <4>3. CASE j < k
        <5>1. c.tm >= c.began BY <3>1, <4>3
        <5> QED BY <1>3, <3>2, <4>1, <5>1
      <4>4. j < k + 1 => j = k \/ j < k BY <2>3
      <4> QED BY <4>2, <4>3, <4>4
    <3>4. CASE k = NDirs
      <4>1. count'[p].tm >= count'[p].began BY <2>2, <3>1, <3>3, <3>4
      <4> QED BY <2>1, <3>4, <4>1 DEF RecountOK, Counting
    <3>5. CASE k # NDirs
      <4>1. mtime' = mtime BY <2>1 DEF maildir
      <4>2. /\ mtime'[StatDir(j)] >= count'[p].began
            /\ j < count'[p].pos => count'[p].tm >= count'[p].began
        <5>1. mtime'[StatDir(j)] >= count'[p].began BY <2>2, <3>1, <4>1
        <5>2. j < count'[p].pos => count'[p].tm >= count'[p].began
              BY <2>2, <3>3
        <5> QED BY <5>1, <5>2
      <4>3. LookOK(p)' BY <4>2 DEF LookOK
      <4> QED BY <2>1, <2>2, <2>4, <3>5, <4>3 DEF RecountOK, Counting
    <3> QED BY <3>4, <3>5
  <2> QED BY <2>5, <2>6
<1> QED BY <1>4, <1>5, <1>6, <1>7, <1>8

\* A step of one process leaves the place and the count of the others alone,
\* and a step that is not part of a recount leads out of it.
LEMMA OtherStep ==
  ASSUME TypeInv, [Next]_vars, NEW p \in Procs
  PROVE  \/ pc'[p] = pc[p] /\ count'[p] = count[p]
         \/ pc'[p] \notin Counting \cup {"verdict"}
         \/ Recount(p) \/ StatDirectory(p) \/ ReadDirectory(p)
         \/ Install(p) \/ Restat(p)
<1> DEFINE Still == pc'[p] = pc[p] /\ count'[p] = count[p]
           Out == pc'[p] \notin Counting \cup {"verdict"}
<1>1. pc \in [Procs -> PCs] /\ count \in [Procs -> Counts]
      BY TypeSplit DEF TypeInv, LocalOK
<1>2. ASSUME NEW q \in Procs, Done(q) PROVE Still \/ Out
      BY <1>1, <1>2 DEF Done, Counting
<1>3. ASSUME NEW q \in Procs, NEW l, NEW inf, NEW n, Goto(q, l, inf, n),
             l \in {"open", "record", "check", "link", "remove"}
      PROVE  Still \/ Out
      BY <1>1, <1>3 DEF Goto, Counting
<1>4. ASSUME NEW q \in Procs, NEW rc, NEW inf, Return(q, rc, inf)
      PROVE  Still \/ Out
  <2>1. Admitted(q) \in {"link", "record"} BY DEF Admitted
  <2> QED BY <1>2, <1>3, <1>4, <2>1 DEF Return, ForceIt
<1>5. ASSUME NEW q \in Procs, Start(q) PROVE Still \/ Out
  <2>1. \E l \in {"linkdest", "open"} : pc' = [pc EXCEPT ![q] = l]
        BY <1>5 DEF Start
  <2>2. count' = count BY <1>5 DEF Start
  <2> QED BY <1>1, <2>1, <2>2 DEF Counting
<1>6. ASSUME NEW q \in Procs, NEW i, OpenAs(q, i) PROVE Still \/ Out
      BY <1>1, <1>6 DEF OpenAs, Counting
<1>7. ASSUME NEW q \in Procs, Fault(q) PROVE Still \/ Out
  <2>1. CASE RecordFails(q)
        BY <1>2, <1>3, <2>1 DEF RecordFails, AfterRecord
  <2> QED
      BY <1>2, <1>4, <1>6, <1>7, <2>1
      DEF Fault, OpenFails, InstallFails, LinkFails, LinkDestFails, Crash
<1>8. ASSUME NEW q \in Procs,
             \/ Recount(q) \/ StatDirectory(q) \/ ReadDirectory(q)
             \/ Install(q) \/ Restat(q)
      PROVE  q = p \/ Still
      BY <1>1, <1>8
      DEF Recount, StatDirectory, ReadDirectory, Install, Restat
<1>9. ASSUME NEW q \in Procs, Record(q) \/ Link(q) \/ Remove(q) \/ LinkDest(q)
      PROVE  Still \/ Out
      BY <1>2, <1>3, <1>9 DEF Record, AfterRecord, Link, Remove, LinkDest
<1>10. ASSUME NEW q \in Procs, Open(q) \/ Admit(q) \/ Refuse(q) \/ Accept(q)
                               \/ Raced(q)
       PROVE  Still \/ Out
       BY <1>4, <1>6, <1>10 DEF Open, Admit, Refuse, Accept, Raced
<1>11. CASE Tick BY <1>11 DEF Tick, local
<1>12. CASE \E m \in Msgs : CheckNew(m) \/ SetFlag(m)
       BY <1>12 DEF CheckNew, SetFlag, local
<1>13. CASE UNCHANGED vars BY <1>13 DEF vars
<1>14. ASSUME NEW q \in Procs, Work(q)
       PROVE  \/ Still \/ Out
              \/ Recount(p) \/ StatDirectory(p) \/ ReadDirectory(p)
              \/ Install(p) \/ Restat(p)
       BY <1>8, <1>9, <1>10, <1>14 DEF Work
<1> QED
    BY <1>5, <1>7, <1>11, <1>12, <1>13, <1>14 DEF Next, Normal

\* No step of a process, of the world or of a crash breaks the recount
\* invariant (maildir_quota_recalculate, maildir_addquota).
LEMMA RecountInductive == RecountInv /\ [Next]_vars => RecountInv'
<1> SUFFICES ASSUME RecountInv, [Next]_vars PROVE RecountInv'
    OBVIOUS
<1>1. TypeInv' BY NextType DEF RecountInv
<1>2. StoreStep BY NextStoreStep DEF RecountInv
<1>3. ClockOK'
  <2>1. /\ now \in Times /\ mtime \in [Dirs -> Times]
        BY TypeSplit DEF RecountInv, TypeInv, SharedOK
  <2>2. ASSUME NEW d \in Dirs PROVE mtime'[d] <= now'
    <3>1. mtime[d] \in Int /\ now \in Int /\ now' \in Int
          BY <1>2, <2>1 DEF StoreStep, Times
    <3>2. mtime[d] <= now /\ now <= now' BY <1>2 DEF StoreStep, RecountInv, ClockOK
    <3>3. mtime'[d] = now \/ mtime'[d] = mtime[d] BY <1>2 DEF StoreStep
    <3> QED BY <3>1, <3>2, <3>3
  <2> QED BY <2>2 DEF ClockOK
<1>4. ASSUME NEW p \in Procs PROVE RecountOK(p)'
      BY <1>2, OtherStep, RecountStable, RecountLeft, RecountStep
      DEF RecountInv
<1> QED BY <1>1, <1>3, <1>4 DEF RecountInv

\* Whatever the other processes do meanwhile, and whoever is killed: if the
\* second look finds no newer timestamp, and the newest one is older than the
\* second in which counting began, then the new maildirsize holds exactly
\* what was stored when it took over the name.
THEOREM QuietRecountTheorem == Spec => []QuietRecountIsExact
<1>1. Init => RecountInv
  <2> SUFFICES ASSUME Init PROVE RecountInv
      OBVIOUS
  <2>1. TypeInv BY InitType
  <2>2. ClockOK
    <3>1. now = 0 /\ mtime = [d \in Dirs |-> 0] BY DEF Init
    <3> QED BY <3>1 DEF ClockOK
  <2>3. \A p \in Procs : RecountOK(p)
    <3>1. pc = [p \in Procs |-> "idle"] BY DEF Init
    <3> QED BY <3>1 DEF RecountOK, Counting
  <2> QED BY <2>1, <2>2, <2>3 DEF RecountInv
<1>2. RecountInv => QuietRecountIsExact
  <2> SUFFICES ASSUME RecountInv, NEW p \in Procs, pc[p] = "verdict",
                      Undisturbed(p), count[p].maxtime < count[p].began
               PROVE  count[p].seen = count[p].snap
      BY DEF QuietRecountIsExact
  <2>1. count[p] \in Counts BY TypeSplit DEF RecountInv, TypeInv, LocalOK
  <2>2. ~(count[p].tm >= count[p].began)
        BY <2>1 DEF Undisturbed, Counts, Times
  <2> QED BY <2>2 DEF RecountInv, RecountOK
<1> QED BY <1>1, <1>2, RecountInductive, PTL DEF Spec

-----------------------------------------------------------------------------
(* What an operation may be doing, and with what.                          *)

OpOK(p) ==
  /\ pc[p] = "idle" => op[p] = "set"
  /\ op[p] \in {"set", "recalculate"} =>
       /\ msg[p] = None
       /\ pc[p] \in {"idle", "open", "check", "verdict"} \cup Counting
  /\ op[p] \in Adds \cup {"forced"} =>
       /\ msg[p] \in Msgs
       /\ pc[p] \in {"open", "check", "verdict", "record", "link"} \cup Counting
  /\ op[p] = "delete" =>
       /\ msg[p] \in Msgs /\ dir[p][2] = "cur"
       /\ pc[p] \in {"open", "check", "verdict", "record", "remove"}
                      \cup Counting
  /\ op[p] = "move" =>
       /\ msg[p] \in Msgs /\ dir[p][2] = "cur"
       /\ pc[p] \in {"linkdest", "remove"}
  /\ Setting(p) => op[p] \in {"set", "deliver", "pipe"}

\* No two processes have the same message in hand.
Unshared ==
  \A p, q \in Procs : msg[p] = msg[q] /\ msg[p] # None => p = q

OpsInv == TypeInv /\ Unshared /\ \A p \in Procs : OpOK(p)

\* The other processes stand still.
StepOf(p) ==
  \A q \in Procs \ {p} :
    /\ pc'[q] = pc[q] /\ op'[q] = op[q] /\ msg'[q] = msg[q]
    /\ dir'[q] = dir[q] /\ newquota'[q] = newquota[q]
    /\ info'[q] = info[q] /\ count'[q] = count[q]

\* Process p goes to l and holds an operation, a message, a directory, a
\* quota argument and a struct maildirsize.
Becomes(p, l, o, m, d, q, inf) ==
  /\ StepOf(p)
  /\ pc'[p] = l /\ op'[p] = o /\ msg'[p] = m /\ dir'[p] = d
  /\ newquota'[p] = q /\ info'[p] = inf

\* The end of an operation (maildir_closequotafile).
LEMMA DoneIs ==
  ASSUME LocalOK, NEW p \in Procs, Done(p)
  PROVE  Becomes(p, "idle", "set", None, AnyDir, NoQuota, NoInfo)
BY DEF LocalOK, Done, Becomes, StepOf

\* Going on with the same arguments.
LEMMA GotoIs ==
  ASSUME LocalOK, NEW p \in Procs, NEW l, NEW inf, NEW n,
         Goto(p, l, inf, n), UNCHANGED args
  PROVE  Becomes(p, l, op[p], msg[p], dir[p], newquota[p], inf)
BY DEF LocalOK, Goto, args, Becomes, StepOf

\* What becomes of a process with the result rc of maildir_checkquota.
LEMMA ReturnIs ==
  ASSUME LocalOK, NEW p \in Procs, NEW rc, NEW inf, Return(p, rc, inf)
  PROVE  \/ /\ Becomes(p, "idle", "set", None, AnyDir, NoQuota, NoInfo)
            /\ \/ op[p] \in {"set", "recalculate"}
               \/ op[p] \in {"deliver", "pipe"}
         \/ /\ Becomes(p, "open", op[p], msg[p], dir[p], NoQuota, NoInfo)
            /\ Setting(p) /\ op[p] # "set"
         \/ /\ Becomes(p, "record", op[p], msg[p], dir[p], newquota[p], inf)
            /\ op[p] \in {"delete", "forced"}
         \/ /\ Becomes(p, Admitted(p), op[p], msg[p], dir[p], newquota[p], inf)
            /\ op[p] \in Adds /\ rc = "ok" /\ ~Setting(p)
         \/ /\ Becomes(p, "check", op[p], msg[p], dir[p], newquota[p], inf)
            /\ op[p] \in Adds /\ rc = "again"
         \/ /\ Becomes(p, Admitted(p), op[p], msg[p], dir[p], newquota[p], NoInfo)
            /\ op[p] \in Adds /\ rc = "again"
         \/ /\ Becomes(p, "open", "forced", msg[p], dir[p], newquota[p], NoInfo)
            /\ op[p] = "save" /\ rc \in {"enospc", "eio"}
         \/ /\ Becomes(p, Admitted(p), op[p], msg[p], dir[p], newquota[p], NoInfo)
            /\ op[p] = "warn" /\ rc \in {"enospc", "eio"}
<1>1. ASSUME Goto(p, "open", NoInfo, 0), UNCHANGED <<op, msg, dir>>,
             newquota' = [newquota EXCEPT ![p] = NoQuota]
      PROVE  Becomes(p, "open", op[p], msg[p], dir[p], NoQuota, NoInfo)
      BY <1>1 DEF LocalOK, Goto, Becomes, StepOf
<1>2. ASSUME ForceIt(p)
      PROVE  Becomes(p, "open", "forced", msg[p], dir[p], newquota[p], NoInfo)
      BY <1>2 DEF LocalOK, ForceIt, Goto, Becomes, StepOf
<1>3. "save" \in Adds /\ "warn" \in Adds BY DEF Adds
<1> QED BY <1>1, <1>2, <1>3, DoneIs, GotoIs DEF Return

\* A step of one process that keeps its own part keeps the whole.
LEMMA OpsByOne ==
  ASSUME OpsInv, TypeInv', NEW p \in Procs, StepOf(p), OpOK(p)',
         msg'[p] \in {msg[p], None} \/ ~Busy(msg'[p])
  PROVE  OpsInv'
<1>1. ASSUME NEW q \in Procs \ {p} PROVE OpOK(q)'
  <2>1. OpOK(q) BY DEF OpsInv
  <2>2. /\ pc'[q] = pc[q] /\ op'[q] = op[q] /\ msg'[q] = msg[q]
        /\ dir'[q] = dir[q] /\ newquota'[q] = newquota[q]
        BY DEF StepOf
  <2> QED BY <2>1, <2>2 DEF OpOK, Setting
<1>2. \A q \in Procs \ {p} : msg'[q] = msg[q] BY DEF StepOf
<1>3. ASSUME NEW q \in Procs \ {p}, msg'[q] = msg'[p], msg'[p] # None
      PROVE  FALSE
  <2>1. msg[q] = msg'[p] BY <1>2, <1>3
  <2>2. msg[p] # msg'[p] BY <1>3, <2>1 DEF OpsInv, Unshared
  <2> QED BY <1>3, <2>1, <2>2 DEF Busy
<1>4. Unshared' BY <1>2, <1>3 DEF OpsInv, Unshared
<1> QED BY <1>1, <1>4 DEF OpsInv

\* The operations keep their arguments through maildir_checkquota.
LEMMA ReturnOps ==
  ASSUME OpsInv, NEW p \in Procs, NEW rc, NEW inf, Return(p, rc, inf),
         pc[p] \in {"check", "verdict", "install"}
  PROVE  StepOf(p) /\ OpOK(p)' /\ msg'[p] \in {msg[p], None}
<1>1. LocalOK /\ OpOK(p) BY TypeSplit DEF OpsInv, TypeInv
<1>2. op[p] \in AllOps /\ op[p] # "move"
      BY <1>1 DEF LocalOK, OpOK, Counting
<1>3. ASSUME NEW l \in {"open", "check", "record", "link"},
             NEW o, o = op[p] \/ (op[p] = "save" /\ o = "forced"), NEW q,
             q = newquota[p] \/ q = NoQuota, NEW j,
             Becomes(p, l, o, msg[p], dir[p], q, j),
             op[p] \in {"set", "recalculate"} => l \in {"open", "check"},
             op[p] = "delete" => l # "link"
      PROVE  StepOf(p) /\ OpOK(p)' /\ msg'[p] \in {msg[p], None}
  <2>1. Setting(p)' => o \in {"set", "deliver", "pipe"}
        BY <1>1, <1>3 DEF Becomes, OpOK, Setting
  <2> QED BY <1>1, <1>2, <1>3, <2>1 DEF Becomes, OpOK, AllOps, Adds, Counting
<1>4. ASSUME Becomes(p, "idle", "set", None, AnyDir, NoQuota, NoInfo)
      PROVE  StepOf(p) /\ OpOK(p)' /\ msg'[p] \in {msg[p], None}
      BY <1>4 DEF Becomes, OpOK, Setting, Adds
<1>5. Admitted(p) \in {"link", "record"} BY DEF Admitted
<1>6. Adds \cap {"set", "recalculate", "delete"} = {} BY DEF Adds
<1> QED BY <1>1, <1>2, <1>3, <1>4, <1>5, <1>6, ReturnIs

\* Every step keeps them.
LEMMA OpsInductive == OpsInv /\ [Next]_vars => OpsInv'
<1> SUFFICES ASSUME OpsInv, [Next]_vars PROVE OpsInv'
    OBVIOUS
<1>1. TypeInv' BY NextType DEF OpsInv
<1>2. LocalOK /\ SharedOK BY TypeSplit DEF OpsInv, TypeInv
<1>3. \A p \in Procs : OpOK(p) BY DEF OpsInv
<1>4. ASSUME NEW p \in Procs, Start(p) PROVE OpsInv'
  <2>1. PICK o \in Ops, m \in Msgs \cup {None}, d \in Dirs, q \in QuotaValues :
          /\ Request(o, m, d, q)
          /\ op' = [op EXCEPT ![p] = o]
          /\ msg' = [msg EXCEPT ![p] = m]
          /\ dir' = [dir EXCEPT ![p] = d]
          /\ newquota' = [newquota EXCEPT ![p] = q]
          /\ pc' = [pc EXCEPT ![p] = IF o = "move" THEN "linkdest" ELSE "open"]
        BY <1>4 DEF Start
  <2>2. StepOf(p) BY <1>2, <1>4, <2>1 DEF LocalOK, Start, StepOf
  <2>3. o \in AllOps \ {"forced"} BY OpsAssumption
  <2>4. /\ o \in Adds => m \in Msgs /\ ~Busy(m)
        /\ o \in {"delete", "move"} => m \in Msgs /\ ~Busy(m) /\ d[2] = "cur"
        /\ o \in {"set", "recalculate"} => m = None
        /\ o \notin {"set", "deliver", "pipe"} => q = NoQuota
        BY <2>1, <2>3 DEF Request, AllOps, Adds
  <2>5. OpOK(p)' BY <1>2, <2>1, <2>3, <2>4 DEF LocalOK, OpOK, Setting, AllOps, Adds
  <2>6. msg'[p] = m /\ (m = None \/ ~Busy(m))
        BY <1>2, <2>1, <2>3, <2>4 DEF LocalOK, AllOps, Adds
  <2> QED BY <1>1, <2>2, <2>5, <2>6, OpsByOne
<1>5. ASSUME NEW p \in Procs, Done(p) PROVE OpsInv'
  <2>1. Becomes(p, "idle", "set", None, AnyDir, NoQuota, NoInfo)
        BY <1>2, <1>5, DoneIs
  <2>2. StepOf(p) /\ OpOK(p)' /\ msg'[p] = None
        BY <2>1 DEF Becomes, OpOK, Setting, Adds
  <2> QED BY <1>1, <2>2, OpsByOne
<1>6. ASSUME NEW p \in Procs, NEW rc, NEW inf, Return(p, rc, inf),
             pc[p] \in {"check", "verdict", "install"}
      PROVE  OpsInv'
  <2>1. StepOf(p) /\ OpOK(p)' /\ msg'[p] \in {msg[p], None}
        BY <1>6, ReturnOps
  <2> QED BY <1>1, <2>1, OpsByOne
<1>7. ASSUME NEW p \in Procs, NEW i, OpenAs(p, i) PROVE OpsInv'
  <2>1. pc[p] = "open" /\ pc' = [pc EXCEPT ![p] = "check"]
        /\ UNCHANGED <<op, msg, dir, count>>
        BY <1>7 DEF OpenAs
  <2>2. \E j : info' = [info EXCEPT ![p] = j] BY <1>7 DEF OpenAs
  <2>3. newquota' = newquota \/ newquota' = [newquota EXCEPT ![p] = NoQuota]
        BY <1>7 DEF OpenAs
  <2>4. StepOf(p) BY <1>2, <2>1, <2>2, <2>3 DEF LocalOK, StepOf
  <2>5. newquota'[p] \in {newquota[p], NoQuota} BY <1>2, <2>3 DEF LocalOK
  <2>6. OpOK(p)' /\ msg'[p] = msg[p]
        BY <1>2, <1>3, <2>1, <2>5 DEF LocalOK, OpOK, Setting
  <2> QED BY <1>1, <2>4, <2>6, OpsByOne
<1>8. ASSUME NEW p \in Procs, NEW l, l \in Counting \cup {"verdict"},
             pc[p] \in Counting \cup {"check"}, pc' = [pc EXCEPT ![p] = l],
             UNCHANGED args, NEW j, info' = [info EXCEPT ![p] = j], NEW c,
             count' = [count EXCEPT ![p] = c]
      PROVE  OpsInv'
  <2>1. StepOf(p) BY <1>2, <1>8 DEF LocalOK, StepOf, args
  <2>2. pc'[p] = l /\ op' = op /\ msg' = msg /\ dir' = dir /\ newquota' = newquota
        BY <1>2, <1>8 DEF LocalOK, args
  <2>3. OpOK(p)' BY <1>3, <1>8, <2>2 DEF OpOK, Setting, Counting, Adds
  <2> QED BY <1>1, <2>1, <2>2, <2>3, OpsByOne
<1>9. ASSUME NEW p \in Procs, Recount(p) \/ StatDirectory(p) \/ ReadDirectory(p)
                              \/ Install(p) \/ Restat(p)
      PROVE  OpsInv'
  <2>1. pc[p] \in Counting \cup {"check"} /\ UNCHANGED args
        BY <1>9 DEF Recount, StatDirectory, ReadDirectory, Install, Restat, Counting
  <2>2. \E j : info' = [info EXCEPT ![p] = j]
    <3>1. info' = [info EXCEPT ![p] = info[p]] \/ \E i : info' = [info EXCEPT ![p] = Switched(p, i)]
          BY <1>2, <1>9 DEF LocalOK, Recount, StatDirectory, ReadDirectory, Install, Restat
    <3> QED BY <3>1
  <2>3. \E l \in Counting \cup {"verdict"} : pc' = [pc EXCEPT ![p] = l]
        BY <1>9 DEF Recount, StatDirectory, ReadDirectory, Install, Restat, Counting
  <2>4. \E c : count' = [count EXCEPT ![p] = c]
        BY <1>9 DEF Recount, StatDirectory, ReadDirectory, Install, Restat
  <2> QED BY <1>8, <2>1, <2>2, <2>3, <2>4
<1>10. ASSUME NEW p \in Procs, NEW l \in {"link", "record", "remove"}, NEW j,
              Becomes(p, l, op[p], msg[p], dir[p], newquota[p], j),
              pc[p] \in {"record", "link", "linkdest"},
              op[p] = "delete" => l # "link", op[p] = "move" => l = "remove",
              l = "remove" => op[p] \in {"move", "delete"}
       PROVE  OpsInv'
  <2>1. OpOK(p)' /\ StepOf(p) /\ msg'[p] = msg[p]
        BY <1>3, <1>10 DEF Becomes, OpOK, Setting, Counting, Adds
  <2> QED BY <1>1, <2>1, OpsByOne
<1>11. ASSUME NEW p \in Procs, AfterRecord(p), pc[p] = "record" PROVE OpsInv'
  <2>1. op[p] # "move" BY <1>3, <1>11 DEF OpOK
  <2>2. CASE op[p] = "deliver" BY <1>5, <1>11, <2>2 DEF AfterRecord
  <2>3. CASE op[p] = "delete"
    <3>1. Becomes(p, "remove", op[p], msg[p], dir[p], newquota[p], NoInfo)
          BY <1>2, <1>11, <2>3, GotoIs DEF AfterRecord
    <3> QED BY <1>10, <1>11, <2>1, <2>3, <3>1
  <2>4. CASE op[p] \notin {"deliver", "delete"}
    <3>1. Becomes(p, "link", op[p], msg[p], dir[p], newquota[p], NoInfo)
          BY <1>2, <1>11, <2>4, GotoIs DEF AfterRecord
    <3> QED BY <1>10, <1>11, <2>1, <2>4, <3>1
  <2> QED BY <2>2, <2>3, <2>4
<1>12. ASSUME NEW p \in Procs, Link(p) PROVE OpsInv'
  <2>1. CASE op[p] = "deliver"
    <3>1. Becomes(p, "record", op[p], msg[p], dir[p], newquota[p], info[p])
          BY <1>2, <1>12, <2>1, GotoIs DEF Link
    <3> QED BY <1>10, <1>12, <2>1, <3>1 DEF Link
  <2>2. CASE op[p] # "deliver" BY <1>5, <1>12, <2>2 DEF Link
  <2> QED BY <2>1, <2>2
<1>13. ASSUME NEW p \in Procs, LinkDest(p) PROVE OpsInv'
  <2>1. Becomes(p, "remove", op[p], msg[p], dir[p], newquota[p], NoInfo)
        BY <1>2, <1>13, GotoIs DEF LinkDest
  <2>2. pc[p] = "linkdest" BY <1>13 DEF LinkDest
  <2>3. op[p] = "move"
        BY <1>2, <1>3, <2>2 DEF LocalOK, OpOK, Counting, Adds, AllOps
  <2> QED BY <1>10, <2>1, <2>2, <2>3
<1>14. ASSUME UNCHANGED <<pc, args>> PROVE OpsInv'
       BY <1>1, <1>14 DEF OpsInv, args, OpOK, Setting, Unshared
<1>15. ASSUME NEW p \in Procs, Work(p) \/ Fault(p) PROVE OpsInv'
  <2>1. CASE Admit(p) \/ Refuse(p) \/ InstallFails(p) \/ Accept(p) \/ Raced(p)
        BY <1>6, <2>1 DEF Admit, Refuse, InstallFails, Accept, Raced
  <2>2. CASE Record(p) \/ RecordFails(p)
        BY <1>11, <2>2 DEF Record, RecordFails
  <2>3. CASE Open(p) \/ OpenFails(p) BY <1>7, <2>3 DEF Open, OpenFails
  <2>4. CASE Remove(p) \/ LinkFails(p) \/ LinkDestFails(p) \/ Crash(p)
        BY <1>5, <2>4 DEF Remove, LinkFails, LinkDestFails, Crash
  <2> QED BY <1>9, <1>12, <1>13, <1>15, <2>1, <2>2, <2>3, <2>4 DEF Work, Fault
<1>16. CASE Tick \/ (\E m \in Msgs : CheckNew(m) \/ SetFlag(m)) \/ UNCHANGED vars
       BY <1>14, <1>16 DEF Tick, CheckNew, SetFlag, local, vars, args
<1> QED BY <1>4, <1>15, <1>16 DEF Next, Normal

\* Nobody is at work at first.
LEMMA OpsInit == Init => OpsInv
<1> SUFFICES ASSUME Init PROVE OpsInv
    OBVIOUS
<1>1. TypeInv BY InitType
<1>2. /\ pc = [p \in Procs |-> "idle"] /\ op = [p \in Procs |-> "set"]
      /\ msg = [p \in Procs |-> None] /\ newquota = [p \in Procs |-> NoQuota]
      BY DEF Init
<1> QED BY <1>1, <1>2 DEF OpsInv, Unshared, OpOK, Setting, Adds

-----------------------------------------------------------------------------
(* Without faults and without interference maildirsize balances.           *)

\* By how much the file is ahead of the message that process p has in hand.
Pending(p) ==
  IF pc[p] = "record" /\ op[p] = "deliver" THEN -1
  ELSE IF pc[p] = "link" /\ op[p] # "deliver" THEN 1
  ELSE IF pc[p] = "remove" /\ op[p] = "delete" THEN -1 ELSE 0

Balance(m, n) == link # None => file[link].account[m] = Stored(m) + n

Single(m) == \E d \in Dirs : at[m] = {d}

\* A message that nobody has in hand.
Settled(m) == (at[m] = {} \/ Single(m)) /\ Balance(m, 0)

\* The entries of the message that process p has in hand.
Shape(p) ==
  /\ op[p] \in Adds \cup {"forced"} =>
       IF op[p] = "deliver" /\ pc[p] = "record"
       THEN Single(msg[p]) ELSE at[msg[p]] = {}
  /\ op[p] = "delete" => at[msg[p]] = {dir[p]}
  /\ op[p] = "move" =>
       IF pc[p] = "remove"
       THEN \E d \in Dirs \ {dir[p]} : d[2] = "cur" /\ at[msg[p]] = {dir[p], d}
       ELSE at[msg[p]] = {dir[p]}

Held(p) == msg[p] # None => Shape(p) /\ Balance(msg[p], Pending(p))

\* The descriptor of a process that looked at maildirsize is that of the file
\* the name leads to, or it has none but the quota it is about to set.
Current(p) ==
  /\ pc[p] \in {"restat", "verdict", "record"} => info[p].fd = link
  /\ pc[p] = "link" /\ op[p] = "deliver" => info[p].fd = link
  /\ pc[p] \in {"check", "stat", "read", "install"} =>
       \/ info[p].fd = link
       \/ info[p].fd = DevNull /\ Setting(p) /\ info[p].recalculation_needed

\* Who counts is alone, so what was read of a directory is what it holds.
Counted(p) ==
  /\ pc[p] \in Counting => Alone(p)
  /\ pc[p] \in {"stat", "read", "install"} =>
       count[p].seen = {e \in Entries :
                          \E j \in 1..count[p].pos - 1 : e[2] = ScanDir(j)}
  /\ pc[p] = "install" => count[p].pos = NDirs + 1

Balanced ==
  /\ \A m \in Msgs : ~Busy(m) => Settled(m)
  /\ \A p \in Procs : Held(p) /\ Current(p) /\ Counted(p)

LedgerInv == OpsInv /\ (clean => Balanced)

\* A step of one process keeps the balance if it keeps it for its own message
\* and leaves that of the others alone.
LEMMA BalancedByOne ==
  ASSUME OpsInv, OpsInv', Balanced, NEW p \in Procs, StepOf(p),
         pc[p] # "idle" \/ ~Scanning,
         \A m \in Msgs \ {msg[p]} : Settled(m) => Settled(m)',
         \A q \in Procs \ {p} : /\ Held(q) => Held(q)'
                                /\ Current(q) => Current(q)',
         Held(p)', Current(p)', Counted(p)',
         \A m \in Msgs : m = msg[p] /\ msg'[p] # m => Settled(m)'
  PROVE  Balanced'
<1>1. \A q \in Procs \ {p} : msg'[q] = msg[q] /\ pc'[q] = pc[q]
      BY DEF StepOf
<1>2. ASSUME NEW m \in Msgs, ~(Busy(m)') PROVE Settled(m)'
  <2>1. CASE m = msg[p]
    <3>1. msg'[p] # m BY <1>2 DEF Busy
    <3> QED BY <2>1, <3>1
  <2>2. CASE m # msg[p]
    <3>1. ~Busy(m) BY <1>1, <1>2, <2>2 DEF Busy
    <3> QED BY <2>2, <3>1 DEF Balanced
  <2> QED BY <2>1, <2>2
<1>3. ASSUME NEW q \in Procs \ {p} PROVE Held(q)' /\ Current(q)' /\ Counted(q)'
  <2>1. Held(q) /\ Current(q) /\ Counted(q) BY DEF Balanced
  <2>2. pc[q] \notin Counting BY <2>1 DEF Counted, Alone, Scanning
  <2>3. pc'[q] \notin Counting BY <1>1, <2>2
  <2>4. Counted(q)' BY <2>3 DEF Counted, Counting
  <2> QED BY <2>1, <2>4
<1>4. \A q \in Procs : Held(q)' /\ Current(q)' /\ Counted(q)' BY <1>3
<1> QED BY <1>2, <1>4 DEF Balanced

\* Nothing but the entries of m and its line in maildirsize changes.
OnlyAbout(m) ==
  /\ link' = link
  /\ \A x \in Msgs \ {m} :
       /\ at'[x] = at[x]
       /\ link # None => file'[link].account[x] = file[link].account[x]

\* The messages and descriptors of the other processes are left alone then.
LEMMA OthersKeep ==
  ASSUME OpsInv, NEW p \in Procs, StepOf(p), OnlyAbout(msg[p])
  PROVE  /\ \A m \in Msgs \ {msg[p]} : Settled(m) => Settled(m)'
         /\ \A q \in Procs \ {p} : /\ Held(q) => Held(q)'
                                   /\ Current(q) => Current(q)'
<1>1. ASSUME NEW m \in Msgs \ {msg[p]}
      PROVE  /\ Settled(m) => Settled(m)'
             /\ \A n : Balance(m, n) => Balance(m, n)'
  <2>1. /\ link' = link /\ at'[m] = at[m]
        /\ link # None => file'[link].account[m] = file[link].account[m]
        BY DEF OnlyAbout
  <2>2. Stored(m)' = Stored(m) BY <2>1 DEF Stored
  <2>3. \A n : Balance(m, n) => Balance(m, n)' BY <2>1, <2>2 DEF Balance
  <2>4. Single(m)' <=> Single(m) BY <2>1 DEF Single
  <2> QED BY <2>1, <2>3, <2>4 DEF Settled
<1>2. ASSUME NEW q \in Procs \ {p}
      PROVE  /\ Held(q) => Held(q)'
             /\ Current(q) => Current(q)'
  <2>1. /\ pc'[q] = pc[q] /\ op'[q] = op[q] /\ msg'[q] = msg[q]
        /\ dir'[q] = dir[q] /\ newquota'[q] = newquota[q]
        /\ info'[q] = info[q]
        BY DEF StepOf
  <2>2. Current(q) => Current(q)'
        BY <2>1 DEF Current, OnlyAbout, Setting
  <2>3. ASSUME Held(q), msg[q] # None PROVE Shape(q)' /\ Balance(msg[q], Pending(q))'
    <3>1. msg[q] \in Msgs \ {msg[p]}
      <4>1. msg[q] \in Msgs \cup {None}
            BY TypeSplit DEF OpsInv, TypeInv, LocalOK
      <4>2. msg[p] # msg[q] BY <2>3 DEF OpsInv, Unshared
      <4> QED BY <2>3, <4>1, <4>2
    <3>2. PICK m \in Msgs \ {msg[p]} : m = msg[q] BY <3>1
    <3>3. at'[m] = at[m] BY DEF OnlyAbout
    <3>4. Shape(q)' BY <2>1, <2>3, <3>2, <3>3 DEF Held, Shape, Single
    <3>5. PICK n : n = Pending(q) OBVIOUS
    <3>6. Pending(q)' = n BY <2>1, <3>5 DEF Pending
    <3>7. Balance(m, n)' BY <1>1, <2>3, <3>2, <3>5 DEF Held
    <3>8. Balance(msg[q], Pending(q))'
          BY <2>1, <3>2, <3>6, <3>7 DEF Balance, Stored
    <3> QED BY <3>4, <3>8
  <2> QED BY <2>1, <2>2, <2>3 DEF Held
<1> QED BY <1>1, <1>2

\* What maildir_checkquota returns without having disturbed anything.
LEMMA ReturnBalanced ==
  ASSUME OpsInv, OpsInv', Balanced, NEW p \in Procs, NEW rc, NEW inf,
         Return(p, rc, inf), inf = info[p], UNCHANGED <<at, link, file>>,
         pc[p] \in {"check", "verdict", "install"}, rc # "again",
         rc = "ok" \/ op[p] # "warn",
         inf.fd = link \/ (Setting(p) /\ rc # "ok")
  PROVE  Balanced'
<1>1. LocalOK /\ OpOK(p) /\ Held(p) /\ Current(p)
      BY TypeSplit DEF OpsInv, TypeInv, Balanced
<1>2. /\ StepOf(p) /\ msg'[p] \in {msg[p], None}
      BY ReturnOps
<1>3. OnlyAbout(msg[p]) BY DEF OnlyAbout
<1>4. pc[p] # "idle" OBVIOUS
<1>5. Pending(p) = 0 BY DEF Pending
<1>6. \A m : Balance(m, 0)' <=> Balance(m, 0) BY DEF Balance, Stored
<1>7. ASSUME msg[p] # None PROVE Shape(p) /\ Balance(msg[p], 0)
      BY <1>1, <1>5, <1>7 DEF Held
<1>8. ASSUME NEW l \in {"open", "link", "record"}, NEW o, NEW q, NEW j,
             Becomes(p, l, o, msg[p], dir[p], q, j),
             o = op[p] \/ (op[p] = "save" /\ o = "forced"),
             l = "open" \/ j.fd = link,
             l = "link" => o = "deliver", l = "record" => o # "deliver",
             l = "record" => o # "move"
      PROVE  Held(p)' /\ Current(p)' /\ Counted(p)'
  <2>1. Current(p)' /\ Counted(p)'
        BY <1>8 DEF Becomes, Current, Counted, Counting
  <2>2. Pending(p)' = 0 BY <1>8 DEF Becomes, Pending
  <2>3. op[p] # "move" BY <1>1 DEF OpOK, Counting
  <2>4. msg[p] # None => Shape(p)'
        BY <1>7, <1>8, <2>3 DEF Becomes, Shape, Single, Adds
  <2>5. msg[p] # None => Balance(msg[p], 0)'
        BY <1>6, <1>7, <1>8 DEF Becomes, Balance, Stored
  <2>6. msg[p] # None => Balance(msg[p], Pending(p))'
        BY <1>8, <2>2, <2>5 DEF Becomes, Balance, Stored
  <2> QED BY <1>8, <2>1, <2>4, <2>6 DEF Becomes, Held
<1>9. ASSUME Becomes(p, "idle", "set", None, AnyDir, NoQuota, NoInfo),
             op[p] \in {"set", "recalculate", "deliver", "pipe"}
      PROVE  /\ Held(p)' /\ Current(p)' /\ Counted(p)'
             /\ \A m \in Msgs : m = msg[p] /\ msg'[p] # m => Settled(m)'
  <2>1. Held(p)' /\ Current(p)' /\ Counted(p)'
        BY <1>9 DEF Becomes, Held, Current, Counted, Counting
  <2>2. ASSUME NEW m \in Msgs, m = msg[p] PROVE Settled(m)'
    <3>0. m # None BY NoneAssumption
    <3>1. op[p] \in {"deliver", "pipe"} BY <1>1, <1>9, <2>2, <3>0 DEF OpOK
    <3>2. at[m] = {} BY <1>7, <2>2, <3>0, <3>1 DEF Shape, Adds
    <3>3. Balance(m, 0) BY <1>7, <2>2, <3>0
    <3> QED BY <3>2, <3>3 DEF Settled, Balance, Stored
  <2> QED BY <1>9, <2>1, <2>2 DEF Becomes
<1>10. ASSUME Held(p)', Current(p)', Counted(p)',
              \A m \in Msgs : m = msg[p] /\ msg'[p] # m => Settled(m)'
       PROVE  Balanced'
       BY <1>2, <1>3, <1>4, <1>10, OthersKeep, BalancedByOne
<1>11. ASSUME NEW l, NEW o, NEW q, NEW j, Becomes(p, l, o, msg[p], dir[p], q, j)
       PROVE  msg'[p] = msg[p]
       BY <1>11 DEF Becomes
<1>12. CASE /\ Becomes(p, "idle", "set", None, AnyDir, NoQuota, NoInfo)
            /\ op[p] \in {"set", "recalculate", "deliver", "pipe"}
       BY <1>9, <1>10, <1>12
<1>13. CASE Becomes(p, "open", op[p], msg[p], dir[p], NoQuota, NoInfo)
       BY <1>8, <1>10, <1>11, <1>13
<1>14. CASE /\ Becomes(p, "record", op[p], msg[p], dir[p], newquota[p], inf)
            /\ op[p] \in {"delete", "forced"}
  <2>1. ~Setting(p) BY <1>1, <1>14 DEF OpOK
  <2> QED BY <1>8, <1>10, <1>11, <1>14, <2>1
<1>15. CASE /\ Becomes(p, Admitted(p), op[p], msg[p], dir[p], newquota[p], inf)
            /\ op[p] \in Adds /\ rc = "ok"
       BY <1>8, <1>10, <1>11, <1>15 DEF Admitted, Adds
<1>16. CASE /\ Becomes(p, "open", "forced", msg[p], dir[p], newquota[p], NoInfo)
            /\ op[p] = "save"
       BY <1>8, <1>10, <1>11, <1>16
<1> QED BY <1>1, <1>12, <1>13, <1>14, <1>15, <1>16, ReturnIs

\* A full count of the entries finds a message that is stored once, once.
LEMMA CopiesOfEntries ==
  ASSUME NEW m \in Msgs, at[m] = {} \/ Single(m)
  PROVE  Copies(Entries, m) = Stored(m)
<1>1. CASE at[m] = {}
  <2>1. {e \in Entries : e[1] = m} = {} BY <1>1 DEF Entries
  <2> QED BY <1>1, <2>1, FS_EmptySet DEF Copies, Stored
<1>2. CASE Single(m)
  <2>1. PICK d \in Dirs : at[m] = {d} BY <1>2 DEF Single
  <2>2. {e \in Entries : e[1] = m} = {<<m, d>>} BY <2>1 DEF Entries
  <2> QED BY <2>1, <2>2, FS_Singleton DEF Copies, Stored
<1> QED BY <1>1, <1>2

\* A process moves on within maildir_checkquota and touches nothing shared.
LEMMA LookBalanced ==
  ASSUME OpsInv, OpsInv', Balanced, NEW p \in Procs, StepOf(p),
         UNCHANGED <<at, link, file, op, msg, dir>>,
         pc[p] \in Counting \cup {"open", "check"},
         pc'[p] \in Counting \cup {"check", "verdict"},
         Current(p)', Counted(p)'
  PROVE  Balanced'
<1>1. OnlyAbout(msg[p]) BY DEF OnlyAbout
<1>2. pc[p] # "idle" BY DEF Counting
<1>3. Pending(p) = 0 /\ Pending(p)' = 0 BY DEF Pending, Counting
<1>4. op[p] = "move" => pc[p] \notin Counting \cup {"open", "check"}
      BY DEF OpsInv, OpOK, Counting
<1>5. Held(p)'
  <2>1. Held(p) BY DEF Balanced
  <2>2. Shape(p) => Shape(p)'
        BY <1>4 DEF Shape, Single, Counting
  <2>3. Balance(msg[p], 0) => Balance(msg[p], 0)' BY DEF Balance, Stored
  <2>4. Balance(msg[p], Pending(p)) => Balance(msg[p], Pending(p))'
        BY <1>3, <2>3 DEF Balance
  <2> QED BY <2>1, <2>2, <2>4 DEF Held
<1>6. \A m \in Msgs : ~(m = msg[p] /\ msg'[p] # m) OBVIOUS
<1> QED BY <1>1, <1>2, <1>5, <1>6, OthersKeep, BalancedByOne

\* The steps of a count that nobody disturbs (docheckquota).
LEMMA RecountBalanced ==
  ASSUME OpsInv, OpsInv', Balanced, NEW p \in Procs, clean',
         Recount(p) \/ StatDirectory(p) \/ ReadDirectory(p) \/ Restat(p)
  PROVE  Balanced'
<1>1. /\ LocalOK /\ Current(p) /\ Counted(p)
      BY TypeSplit DEF OpsInv, TypeInv, Balanced
<1>2. /\ UNCHANGED <<at, link, file, op, msg, dir, newquota, info>>
      /\ pc[p] \in Counting \cup {"check"}
      /\ pc'[p] \in Counting \cup {"verdict"}
      /\ \A q \in Procs \ {p} : pc'[q] = pc[q] /\ count'[q] = count[q]
      BY <1>1
      DEF LocalOK, Recount, StatDirectory, ReadDirectory, Restat, maildir, size, args,
          Counting
<1>3. StepOf(p) BY <1>2 DEF StepOf
<1>4. count[p] \in Counts BY <1>1 DEF LocalOK
<1>5. CASE Recount(p)
  <2>1. /\ pc'[p] = "stat" /\ pc[p] = "check" /\ Alone(p)
        /\ count'[p] = [NoCount EXCEPT !.began = now]
        BY <1>1, <1>5 DEF LocalOK, Recount
  <2>2. count'[p].pos = 1 /\ count'[p].seen = {} BY <2>1 DEF NoCount
  <2>3. Alone(p)' BY <1>2, <2>1 DEF Alone
  <2>4. Counted(p)' BY <2>1, <2>2, <2>3 DEF Counted, Counting
  <2>5. Current(p)' BY <1>1, <1>2, <2>1 DEF Current, Setting
  <2> QED BY <1>2, <1>3, <2>1, <2>4, <2>5, LookBalanced
<1>6. CASE StatDirectory(p)
  <2>1. /\ pc'[p] = "read" /\ pc[p] = "stat"
        /\ count'[p].pos = count[p].pos /\ count'[p].seen = count[p].seen
        BY <1>1, <1>4, <1>6 DEF LocalOK, StatDirectory, Counts
  <2>2. Alone(p)' BY <1>1, <1>2, <2>1 DEF Alone, Counted, Counting
  <2>3. Entries' = Entries BY <1>2 DEF Entries
  <2>4. Counted(p)' BY <1>1, <2>1, <2>2, <2>3 DEF Counted, Counting
  <2>5. Current(p)' BY <1>1, <1>2, <2>1 DEF Current, Setting
  <2> QED BY <1>2, <1>3, <2>1, <2>4, <2>5, LookBalanced DEF Counting
<1>7. CASE ReadDirectory(p)
  <2>0. PICK k \in 1..NDirs : k = count[p].pos
    <3>1. count[p].pos \in 1..NDirs
          BY <1>1, <1>4, <1>7, DirsFacts DEF OpsInv, TypeInv, PositionOK, ReadDirectory, Counts
    <3> QED BY <3>1
  <2>1. /\ pc'[p] = IF k = NDirs THEN "install" ELSE "stat"
        /\ pc[p] = "read"
        /\ count'[p].pos = k + 1
        /\ count'[p].seen = count[p].seen \cup {e \in Entries : e[2] = ScanDir(k)}
        BY <1>1, <1>4, <1>7, <2>0 DEF LocalOK, ReadDirectory, Counts
  <2>2. Alone(p)' BY <1>1, <1>2, <2>1 DEF Alone, Counted, Counting
  <2>3. Entries' = Entries BY <1>2 DEF Entries
  <2>4. count[p].seen = {e \in Entries : \E j \in 1..k - 1 : e[2] = ScanDir(j)}
        BY <1>1, <2>0, <2>1 DEF Counted
  <2>5. count'[p].seen = {e \in Entries : \E j \in 1..k + 1 - 1 : e[2] = ScanDir(j)}
    <3>1. ASSUME NEW e
          PROVE (\E j \in 1..k + 1 - 1 : e[2] = ScanDir(j))
                 <=> (\E j \in 1..k - 1 : e[2] = ScanDir(j)) \/ e[2] = ScanDir(k)
      <4>1. /\ 1..k + 1 - 1 = (1..k - 1) \cup {k} BY DirsFacts
      <4> QED BY <4>1
    <3> QED BY <2>1, <2>4, <3>1
  <2>6. pc'[p] = "install" => k + 1 = NDirs + 1 BY <2>1
  <2>7. Counted(p)' BY <2>1, <2>2, <2>3, <2>5, <2>6 DEF Counted, Counting
  <2>8. Current(p)' BY <1>1, <1>2, <2>1 DEF Current, Setting
  <2> QED BY <1>2, <1>3, <2>1, <2>7, <2>8, LookBalanced DEF Counting
<1>8. CASE Restat(p)
  <2>1. /\ pc'[p] \in {"restat", "verdict"} /\ pc[p] = "restat"
        BY <1>1, <1>8 DEF LocalOK, Restat
  <2>2. Alone(p)' BY <1>1, <1>2, <2>1 DEF Alone, Counted, Counting
  <2>4. Counted(p)' BY <2>1, <2>2 DEF Counted, Counting
  <2>5. Current(p)' BY <1>1, <1>2, <2>1 DEF Current, Setting
  <2> QED BY <1>2, <1>3, <2>1, <2>4, <2>5, LookBalanced DEF Counting
<1> QED BY <1>5, <1>6, <1>7, <1>8

\* The new maildirsize holds what an undisturbed count found.
LEMMA InstallBalanced ==
  ASSUME OpsInv, OpsInv', Balanced, NEW p \in Procs, Install(p)
  PROVE  Balanced'
<1>1. /\ LocalOK /\ SharedOK /\ Held(p) /\ Counted(p) /\ OpOK(p)
      BY TypeSplit DEF OpsInv, TypeInv, Balanced
<1>2. PICK i \in Inodes : /\ file' = [file EXCEPT ![i] = Recounted(p)]
                          /\ link' = i
                          /\ info' = [info EXCEPT ![p] = Switched(p, i)]
      BY DEF Install, Unused
<1>3. /\ pc[p] = "install" /\ pc' = [pc EXCEPT ![p] = "restat"]
      /\ at' = at /\ UNCHANGED args
      BY DEF Install, maildir
<1>4. Alone(p) BY <1>1, <1>3 DEF Counted, Counting
<1>5. \A q \in Procs \ {p} : pc[q] = "idle" /\ pc'[q] = "idle" /\ msg'[q] = None
  <2>1. ASSUME NEW q \in Procs \ {p} PROVE msg[q] = None
        BY <1>4 DEF Alone, OpsInv, OpOK
  <2> QED BY <1>1, <1>3, <1>4, <2>1 DEF Alone, LocalOK, args
<1>6. count[p].seen = Entries
  <2>1. \A e : e \in count[p].seen
               <=> e \in Entries
                   /\ \E j \in 1..count[p].pos - 1 : e[2] = ScanDir(j)
        BY <1>1, <1>3 DEF Counted
  <2>2. 1..count[p].pos - 1 = 1..NDirs
    <3>1. count[p].pos = NDirs + 1 BY <1>1, <1>3 DEF Counted
    <3>2. NDirs \in Nat BY DirsFacts
    <3> QED BY <3>1, <3>2
  <2>3. ASSUME NEW e \in Entries PROVE \E j \in 1..NDirs : e[2] = ScanDir(j)
    <3>1. e[2] \in Dirs BY DEF Entries
    <3> QED BY <3>1, DirsFacts
  <2> QED BY <2>1, <2>2, <2>3
<1>7. ASSUME NEW m \in Msgs PROVE at[m] = {} \/ Single(m)
  <2>1. CASE m = msg[p]
    <3>1. m # None BY NoneAssumption
    <3>2. Shape(p) /\ op[p] \in AllOps /\ op[p] # "move" /\ dir[p] \in Dirs
          BY <1>1, <1>3, <2>1, <3>1 DEF Held, LocalOK, OpOK, Counting
    <3>3. op[p] \in Adds \cup {"forced", "delete"}
          BY <1>1, <2>1, <3>1, <3>2 DEF OpOK, AllOps, Adds
    <3> QED BY <1>3, <2>1, <3>2, <3>3 DEF Shape, Single
  <2>2. CASE m # msg[p]
    <3>1. ~Busy(m)
      <4>1. \A q \in Procs \ {p} : msg[q] = None
            BY <1>4 DEF Alone, OpsInv, OpOK
      <4> QED BY <2>2, <4>1, NoneAssumption DEF Busy
    <3> QED BY <3>1 DEF Balanced, Settled
  <2> QED BY <2>1, <2>2
<1>8. ASSUME NEW m \in Msgs PROVE Balance(m, 0)'
  <2>1. file'[i].account[m] = Copies(Entries, m)
    <3>1. file'[i] = Recounted(p) BY <1>1, <1>2 DEF SharedOK
    <3> QED BY <1>6, <3>1 DEF Recounted
  <2>2. Copies(Entries, m) \in Nat /\ Copies(Entries, m) = Stored(m)
        BY <1>7, CopiesOfEntries, CopiesType DEF Entries
  <2>3. Stored(m)' = Stored(m) BY <1>3 DEF Stored
  <2> QED BY <1>2, <2>1, <2>2, <2>3 DEF Balance
<1>9. \A m \in Msgs : Settled(m)'
      BY <1>3, <1>7, <1>8 DEF Settled, Single
<1>10. Held(p)'
  <2>1. ASSUME msg'[p] # None PROVE Shape(p)' /\ Balance(msg[p], Pending(p))'
    <3>1. op' = op /\ msg' = msg /\ dir' = dir /\ pc'[p] = "restat"
          BY <1>1, <1>3 DEF args, LocalOK
    <3>2. PICK m \in Msgs : m = msg[p] BY <1>1, <2>1, <3>1 DEF LocalOK
    <3>3. Pending(p)' = 0 BY <3>1 DEF Pending
    <3>4. Balance(msg[p], Pending(p))' BY <1>8, <3>1, <3>2, <3>3 DEF Balance, Stored
    <3>5. op[p] # "move" BY <1>1, <1>3 DEF OpOK, Counting
    <3>6. Shape(p)' BY <1>1, <1>3, <2>1, <3>1, <3>5 DEF Held, Shape, Single
    <3> QED BY <3>4, <3>6
  <2> QED BY <2>1 DEF Held
<1>11. Current(p)'
  <2>1. info'[p].fd = i BY <1>1, <1>2 DEF LocalOK, Switched, Infos
  <2>2. pc'[p] = "restat" BY <1>1, <1>3 DEF LocalOK
  <2> QED BY <1>2, <2>1, <2>2 DEF Current
<1>12. Counted(p)'
  <2>1. pc'[p] = "restat" BY <1>1, <1>3 DEF LocalOK
  <2>2. Alone(p)' BY <1>5 DEF Alone
  <2> QED BY <2>1, <2>2 DEF Counted, Counting
<1>13. ASSUME NEW q \in Procs \ {p} PROVE Held(q)' /\ Current(q)' /\ Counted(q)'
       BY <1>5 DEF Held, Current, Counted, Counting
<1>14. \A q \in Procs : Held(q)' /\ Current(q)' /\ Counted(q)'
       BY <1>10, <1>11, <1>12, <1>13
<1> QED BY <1>9, <1>14 DEF Balanced

\* An operation starts with a message that nobody has in hand.
LEMMA StartBalanced ==
  ASSUME OpsInv, OpsInv', Balanced, NEW p \in Procs, Start(p), clean'
  PROVE  Balanced'
<1>1. /\ LocalOK /\ SharedOK /\ OpOK(p)
      BY TypeSplit DEF OpsInv, TypeInv
<1>2. PICK o \in Ops, m \in Msgs \cup {None}, d \in Dirs, q \in QuotaValues :
        /\ Request(o, m, d, q)
        /\ op' = [op EXCEPT ![p] = o]
        /\ msg' = [msg EXCEPT ![p] = m]
        /\ dir' = [dir EXCEPT ![p] = d]
        /\ newquota' = [newquota EXCEPT ![p] = q]
        /\ pc' = [pc EXCEPT ![p] = IF o = "move" THEN "linkdest" ELSE "open"]
      BY DEF Start
<1>3. /\ pc[p] = "idle" /\ ~Scanning /\ UNCHANGED <<at, link, file, info, count>>
      BY DEF Start, maildir, size
<1>4. StepOf(p) BY <1>1, <1>2, <1>3 DEF LocalOK, StepOf
<1>5. op'[p] = o /\ msg'[p] = m /\ dir'[p] = d
      /\ pc'[p] = IF o = "move" THEN "linkdest" ELSE "open"
      BY <1>1, <1>2 DEF LocalOK
<1>6. msg[p] = None BY <1>1, <1>3 DEF OpOK
<1>7. OnlyAbout(msg[p]) BY <1>3 DEF OnlyAbout
<1>8. Current(p)' /\ Counted(p)' BY <1>5 DEF Current, Counted, Counting
<1>9. Held(p)'
  <2>1. ASSUME m # None PROVE Shape(p)' /\ Balance(msg[p], Pending(p))'
    <3>0. o \in AllOps \ {"forced"} BY OpsAssumption
    <3>1. ~Busy(m) /\ m \in Msgs
      <4>1. o \notin {"set", "recalculate"} BY <1>2, <2>1 DEF Request
      <4> QED BY <1>2, <3>0, <4>1 DEF Request, AllOps
    <3>2. Settled(m) BY <3>1 DEF Balanced
    <3>3. Pending(p)' = 0 BY <1>5 DEF Pending
    <3>4. Balance(msg[p], Pending(p))'
          BY <1>3, <1>5, <3>2, <3>3 DEF Settled, Balance, Stored
    <3>5. /\ o \in Adds => at[m] = {}
          /\ o \in {"delete", "move"} => d \in at[m]
          BY <1>2, <3>0 DEF Request, Adds, AllOps
    <3>6. o \in {"delete", "move"} => at[m] = {d}
          BY <3>2, <3>5 DEF Settled, Single
    <3>7. Shape(p)' BY <1>3, <1>5, <3>0, <3>5, <3>6 DEF Shape
    <3> QED BY <3>4, <3>7
  <2> QED BY <1>5, <2>1 DEF Held
<1>10. \A x \in Msgs : ~(x = msg[p] /\ msg'[p] # x) BY <1>6, NoneAssumption
<1> QED
    BY <1>3, <1>4, <1>7, <1>8, <1>9, <1>10, OthersKeep, BalancedByOne

\* The file is opened by its name (do_maildir_openquotafile).
LEMMA OpenBalanced ==
  ASSUME OpsInv, OpsInv', Balanced, NEW p \in Procs, OpenAs(p, link)
  PROVE  Balanced'
<1>1. /\ LocalOK /\ SharedOK /\ OpOK(p)
      BY TypeSplit DEF OpsInv, TypeInv
<1>2. /\ pc[p] = "open" /\ pc' = [pc EXCEPT ![p] = "check"] /\ pc'[p] = "check"
      /\ UNCHANGED <<at, link, file, op, msg, dir, count>>
      BY <1>1 DEF OpenAs, maildir, size, LocalOK
<1>3. \/ info' = [info EXCEPT ![p] = Blank(newquota[p])] /\ Setting(p)
         /\ UNCHANGED newquota
      \/ \E j : /\ info' = [info EXCEPT ![p] = j] /\ j.fd = link
                /\ newquota' = [newquota EXCEPT ![p] = NoQuota]
  <2>1. CASE Setting(p) /\ (op[p] = "set" \/ link = None)
             /\ info' = [info EXCEPT ![p] = Blank(newquota[p])]
             /\ UNCHANGED newquota
        BY <2>1
  <2> DEFINE inf == Imposed(p, ReadFile(link))
             j == IF op[p] = "recalculate" /\ link # None
                  THEN [inf EXCEPT !.recalculation_needed = TRUE] ELSE inf
  <2>2. CASE info' = [info EXCEPT ![p] = j]
             /\ newquota' = [newquota EXCEPT ![p] = NoQuota]
    <3>1. ReadFile(link).fd = link BY DEF ReadFile, NoInfo
    <3>2. inf.fd = link BY <3>1 DEF Imposed, ReadFile, NoInfo
    <3>3. j.fd = link BY <3>2 DEF Imposed, ReadFile, NoInfo
    <3> QED BY <2>2, <3>3
  <2> QED BY <2>1, <2>2 DEF OpenAs
<1>4. StepOf(p) BY <1>1, <1>2, <1>3 DEF LocalOK, StepOf
<1>5. Counted(p)' BY <1>2 DEF Counted, Counting
<1>6. Current(p)'
  <2>1. CASE info' = [info EXCEPT ![p] = Blank(newquota[p])] /\ Setting(p)
             /\ UNCHANGED newquota
        BY <1>1, <1>2, <2>1 DEF LocalOK, Current, Blank, NoInfo, Setting
  <2>2. CASE \E j : info' = [info EXCEPT ![p] = j] /\ j.fd = link
        BY <1>1, <1>2, <2>2 DEF LocalOK, Current
  <2> QED BY <1>3, <2>1, <2>2
<1> QED BY <1>2, <1>4, <1>5, <1>6, LookBalanced DEF Counting

\* The results of maildir_checkquota, one step at a time.
LEMMA VerdictBalanced ==
  ASSUME OpsInv, OpsInv', Balanced, NEW p \in Procs, clean',
         Admit(p) \/ Refuse(p) \/ InstallFails(p) \/ Accept(p)
  PROVE  Balanced'
<1>1. Current(p) /\ LocalOK BY TypeSplit DEF OpsInv, TypeInv, Balanced
<1>2. UNCHANGED <<at, link, file>>
      BY DEF Admit, Refuse, InstallFails, Accept, maildir, size
<1>3. CASE Admit(p)
  <2>1. pc[p] = "check" /\ Return(p, "ok", info[p]) BY <1>3 DEF Admit
  <2>2. info[p].fd = link
    <3>1. info[p].fd = DevNull => ~info[p].recalculation_needed
          BY <1>3, NoneAssumption DEF Admit, NeedsNoCount
    <3> QED BY <1>1, <2>1, <3>1 DEF Current
  <2> QED BY <1>2, <2>1, <2>2, ReturnBalanced
<1>4. CASE Refuse(p)
  <2>1. pc[p] = "check" /\ Return(p, "enospc", info[p]) /\ op[p] # "warn"
        BY <1>4 DEF Refuse
  <2>2. info[p].fd = link
    <3>1. ~info[p].recalculation_needed BY <1>4 DEF Refuse, JustCounted
    <3> QED BY <1>1, <2>1, <3>1 DEF Current
  <2> QED BY <1>2, <2>1, <2>2, ReturnBalanced
<1>5. CASE InstallFails(p)
  <2>1. pc[p] = "install" /\ Return(p, "eio", info[p]) /\ op[p] # "warn"
        BY <1>5 DEF InstallFails
  <2>2. info[p].fd = link \/ Setting(p) BY <1>1, <2>1 DEF Current
  <2> QED BY <1>2, <2>1, <2>2, ReturnBalanced
<1>6. CASE Accept(p)
  <2> DEFINE fits == WithinQuota(Wanted(p, info[p]), info[p].quota)
             rc == IF fits THEN "ok" ELSE "enospc"
  <2>1. pc[p] = "verdict" /\ Return(p, rc, info[p]) /\ (fits \/ op[p] # "warn")
        BY <1>6 DEF Accept
  <2>2. info[p].fd = link BY <1>1, <2>1 DEF Current
  <2>3. rc # "again" /\ (rc = "ok" \/ op[p] # "warn") BY <2>1
  <2> HIDE DEF fits, rc
  <2> QED BY <1>2, <2>1, <2>2, <2>3, ReturnBalanced
<1> QED BY <1>3, <1>4, <1>5, <1>6

\* What a process needs that goes on after its message is filed.
LEMMA FiledBalanced ==
  ASSUME OpsInv, OpsInv', Balanced, NEW p \in Procs, Done(p),
         pc[p] # "idle", OnlyAbout(msg[p]),
         NEW m \in Msgs, m = msg[p], Settled(m)'
  PROVE  Balanced'
<1>1. LocalOK BY TypeSplit DEF OpsInv, TypeInv
<1>2. Becomes(p, "idle", "set", None, AnyDir, NoQuota, NoInfo) BY <1>1, DoneIs
<1>3. StepOf(p) /\ Held(p)' /\ Current(p)' /\ Counted(p)'
      BY <1>2 DEF Becomes, Held, Current, Counted, Counting
<1> QED BY <1>3, OthersKeep, BalancedByOne

\* A line is appended, or an entry comes or goes (maildir_addquota, the
\* callers of maildir_quota_add_start and maildir_quota_deleted).
LEMMA StoreBalanced ==
  ASSUME OpsInv, OpsInv', Balanced, NEW p \in Procs, clean',
         \/ Record(p) \/ Link(p) \/ LinkFails(p) \/ Remove(p) \/ LinkDest(p)
         \/ LinkDestFails(p)
  PROVE  Balanced'
<1>1. /\ LocalOK /\ SharedOK /\ OpOK(p) /\ Held(p) /\ Current(p)
      BY TypeSplit DEF OpsInv, TypeInv, Balanced
<1>2. PICK m \in Msgs : m = msg[p]
  <2>1. pc[p] \in {"record", "link", "remove", "linkdest"}
        BY DEF Record, Link, LinkFails, Remove, LinkDest, LinkDestFails
  <2>2. msg[p] \in Msgs
        BY <1>1, <2>1 DEF OpOK, Counting, Adds, AllOps, LocalOK
  <2> QED BY <2>2
<1>3. m # None BY NoneAssumption
<1>4. Shape(p) /\ Balance(m, Pending(p)) BY <1>1, <1>2, <1>3 DEF Held
<1>5. /\ at \in [Msgs -> SUBSET Dirs] /\ dir[p] \in Dirs /\ op[p] \in AllOps
      /\ link \in Inodes \cup {None}
      BY <1>1 DEF SharedOK, LocalOK
<1>6. link # None => link \in Inodes /\ file[link].account \in [Msgs -> Int]
      BY <1>1 DEF SharedOK, Files, Accounts
<1>7. ASSUME NEW l \in {"link", "record", "remove"}, NEW j,
             Becomes(p, l, op[p], msg[p], dir[p], newquota[p], j),
             pc[p] # "idle", OnlyAbout(m), Current(p)',
             NEW n, Pending(p)' = n, Shape(p)', Balance(m, n)'
      PROVE  Balanced'
  <2>1. msg'[p] = m BY <1>2, <1>7 DEF Becomes
  <2>2. Held(p)' BY <1>7, <2>1 DEF Held, Balance, Stored
  <2>3. Counted(p)' BY <1>7 DEF Becomes, Counted, Counting
  <2>4. StepOf(p) BY <1>7 DEF Becomes
  <2>5. \A x \in Msgs : ~(x = msg[p] /\ msg'[p] # x) BY <1>2, <2>1
  <2> QED BY <1>2, <1>7, <2>2, <2>3, <2>4, <2>5, OthersKeep, BalancedByOne
<1>8. CASE Record(p)
  <2>1. pc[p] = "record" /\ AfterRecord(p) /\ at' = at /\ link' = link
        BY <1>8 DEF Record, maildir
  <2>2. info[p].fd = link BY <1>1, <2>1 DEF Current
  <2>3. op[p] \in Adds \cup {"forced", "delete"}
        BY <1>1, <1>5, <2>1 DEF OpOK, AllOps, Adds, Counting
  <2>4. link # None => file'[link].account = Plus(file[link].account, m, Sign(p))
    <3>1. ASSUME link # None PROVE file'[link] = Appended(file[link], p)
          BY <1>1, <1>6, <1>8, <2>2, <3>1 DEF Record, SharedOK
    <3>2. link # None => file[link] \in Files BY <1>1, <1>6 DEF SharedOK
    <3> QED BY <1>2, <3>1, <3>2 DEF Appended, Files
  <2>5. OnlyAbout(m)
        BY <1>6, <2>1, <2>4 DEF OnlyAbout, Plus
  <2>6. link # None => file'[link].account[m] = file[link].account[m] + Sign(p)
        BY <1>6, <2>4 DEF Plus
  <2>7. Stored(m)' = Stored(m) BY <2>1 DEF Stored
  <2>8. CASE op[p] = "deliver"
    <3>1. Sign(p) = 1 /\ Pending(p) = -1 BY <2>1, <2>8 DEF Sign, Pending
    <3>2. Balance(m, 0)'
          BY <1>4, <1>6, <2>1, <2>6, <2>7, <3>1 DEF Balance, Stored
    <3>3. Single(m)' BY <1>2, <1>4, <2>1, <2>8 DEF Shape, Single, Adds
    <3>4. Settled(m)' BY <3>2, <3>3 DEF Settled
    <3>5. Done(p) BY <2>1, <2>8 DEF AfterRecord
    <3> QED BY <1>2, <2>1, <2>5, <3>4, <3>5, FiledBalanced
  <2>9. CASE op[p] = "delete"
    <3>1. Sign(p) = -1 /\ Pending(p) = 0 BY <2>1, <2>9 DEF Sign, Pending
    <3>2. Balance(m, -1)'
          BY <1>4, <1>6, <2>1, <2>6, <2>7, <3>1 DEF Balance, Stored
    <3>3. Becomes(p, "remove", op[p], msg[p], dir[p], newquota[p], NoInfo)
          BY <1>1, <2>1, <2>9, GotoIs DEF AfterRecord
    <3>4. Pending(p)' = -1 BY <2>9, <3>3 DEF Becomes, Pending
    <3>5. Shape(p)' BY <1>4, <2>1, <2>9, <3>3 DEF Becomes, Shape, Adds
    <3>6. Current(p)' BY <3>3 DEF Becomes, Current
    <3> QED BY <1>7, <2>1, <2>5, <3>2, <3>3, <3>4, <3>5, <3>6
  <2>10. CASE op[p] \notin {"deliver", "delete"}
    <3>1. Sign(p) = 1 /\ Pending(p) = 0
          BY <2>1, <2>3, <2>10 DEF Sign, Pending, Adds
    <3>2. Balance(m, 1)'
          BY <1>4, <1>6, <2>1, <2>6, <2>7, <3>1 DEF Balance, Stored
    <3>3. Becomes(p, "link", op[p], msg[p], dir[p], newquota[p], NoInfo)
          BY <1>1, <2>1, <2>10, GotoIs DEF AfterRecord
    <3>4. Pending(p)' = 1 BY <2>10, <3>3 DEF Becomes, Pending
    <3>5. Shape(p)' BY <1>4, <2>1, <2>3, <2>10, <3>3 DEF Becomes, Shape, Adds
    <3>6. Current(p)' BY <2>10, <3>3 DEF Becomes, Current
    <3> QED BY <1>7, <2>1, <2>5, <3>2, <3>3, <3>4, <3>5, <3>6
  <2> QED BY <2>8, <2>9, <2>10
<1>9. CASE Link(p)
  <2>1. /\ pc[p] = "link" /\ link' = link /\ file' = file
        /\ at' = [at EXCEPT ![m] = @ \cup {dir[p]}]
        BY <1>2, <1>9 DEF Link, size
  <2>2. op[p] \in Adds \cup {"forced"}
        BY <1>1, <1>5, <2>1 DEF OpOK, AllOps, Adds, Counting
  <2>3. at[m] = {} BY <1>2, <1>4, <2>1, <2>2 DEF Shape
  <2>4. at'[m] = {dir[p]} BY <1>5, <2>1, <2>3
  <2>5. Stored(m) = 0 /\ Stored(m)' = 1 /\ Single(m)'
        BY <1>5, <2>3, <2>4 DEF Stored, Single
  <2>6. OnlyAbout(m) BY <1>5, <2>1 DEF OnlyAbout
  <2>7. CASE op[p] = "deliver"
    <3>1. Pending(p) = 0 BY <2>1, <2>7 DEF Pending
    <3>2. Balance(m, -1)'
          BY <1>4, <1>6, <2>1, <2>5, <3>1 DEF Balance
    <3>3. Becomes(p, "record", op[p], msg[p], dir[p], newquota[p], info[p])
          BY <1>1, <1>9, <2>7, GotoIs DEF Link
    <3>4. Pending(p)' = -1 BY <2>7, <3>3 DEF Becomes, Pending
    <3>5. Shape(p)' BY <1>2, <2>5, <2>7, <3>3 DEF Becomes, Shape, Single
    <3>6. Current(p)' BY <1>1, <2>1, <2>7, <3>3 DEF Becomes, Current
    <3> QED BY <1>7, <2>1, <2>6, <3>2, <3>3, <3>4, <3>5, <3>6
  <2>8. CASE op[p] # "deliver"
    <3>1. Pending(p) = 1 BY <2>1, <2>8 DEF Pending
    <3>2. Balance(m, 0)'
          BY <1>4, <1>6, <2>1, <2>5, <3>1 DEF Balance
    <3>3. Settled(m)' BY <2>5, <3>2 DEF Settled
    <3>4. Done(p) BY <1>9, <2>8 DEF Link
    <3> QED BY <1>2, <2>1, <2>6, <3>3, <3>4, FiledBalanced
  <2> QED BY <2>7, <2>8
<1>10. CASE LinkFails(p)
  <2>1. /\ pc[p] = "link" /\ UNCHANGED <<at, link, file>> /\ Done(p)
        /\ op[p] = "deliver"
        BY <1>10 DEF LinkFails, maildir, size
  <2>2. at[m] = {} /\ Pending(p) = 0
        BY <1>2, <1>4, <2>1 DEF Shape, Adds, Pending
  <2>3. Settled(m)' BY <1>4, <2>1, <2>2 DEF Settled, Balance, Stored
  <2>4. OnlyAbout(m) BY <2>1 DEF OnlyAbout
  <2> QED BY <1>2, <2>1, <2>3, <2>4, FiledBalanced
<1>11. CASE Remove(p)
  <2>1. /\ pc[p] = "remove" /\ link' = link /\ file' = file /\ Done(p)
        /\ at' = [at EXCEPT ![m] = @ \ {dir[p]}]
        BY <1>2, <1>11 DEF Remove, size
  <2>2. op[p] \in {"delete", "move"}
        BY <1>1, <1>5, <2>1 DEF OpOK, AllOps, Adds, Counting
  <2>3. OnlyAbout(m) BY <1>5, <2>1 DEF OnlyAbout
  <2>4. at'[m] = at[m] \ {dir[p]} BY <1>5, <2>1
  <2>5. CASE op[p] = "delete"
    <3>1. at[m] = {dir[p]} /\ Pending(p) = -1
          BY <1>2, <1>4, <2>1, <2>5 DEF Shape, Pending
    <3>2. at'[m] = {} BY <2>4, <3>1
    <3>3. Settled(m)'
          BY <1>4, <1>6, <2>1, <3>1, <3>2 DEF Settled, Balance, Stored
    <3> QED BY <1>2, <2>1, <2>3, <3>3, FiledBalanced
  <2>6. CASE op[p] = "move"
    <3>1. Pending(p) = 0 BY <2>1, <2>6 DEF Pending
    <3>2. PICK d \in Dirs \ {dir[p]} : at[m] = {dir[p], d}
          BY <1>2, <1>4, <2>1, <2>6 DEF Shape
    <3>3. at'[m] = {d} BY <2>4, <3>2
    <3>4. Settled(m)'
          BY <1>4, <1>6, <2>1, <3>1, <3>2, <3>3
          DEF Settled, Balance, Stored, Single
    <3> QED BY <1>2, <2>1, <2>3, <3>4, FiledBalanced
  <2> QED BY <2>2, <2>5, <2>6
<1>12. CASE LinkDest(p)
  <2>1. PICK d \in Dirs \ at[m] :
          d[2] = "cur" /\ at' = [at EXCEPT ![m] = @ \cup {d}]
        BY <1>2, <1>12 DEF LinkDest
  <2>2. pc[p] = "linkdest" /\ link' = link /\ file' = file
        BY <1>12 DEF LinkDest, size
  <2>3. op[p] = "move"
        BY <1>1, <1>5, <2>2 DEF OpOK, AllOps, Adds, Counting
  <2>4. at[m] = {dir[p]} /\ Pending(p) = 0
        BY <1>2, <1>4, <2>2, <2>3 DEF Shape, Pending
  <2>5. at'[m] = {dir[p], d} /\ d # dir[p] BY <1>5, <2>1, <2>4
  <2>6. OnlyAbout(m) BY <1>5, <2>1, <2>2 DEF OnlyAbout
  <2>7. Becomes(p, "remove", op[p], msg[p], dir[p], newquota[p], NoInfo)
        BY <1>1, <1>12, GotoIs DEF LinkDest
  <2>8. Pending(p)' = 0 BY <2>3, <2>7 DEF Becomes, Pending
  <2>9. Balance(m, 0)' BY <1>4, <2>2, <2>4, <2>5 DEF Balance, Stored
  <2>10. Shape(p)' BY <1>2, <2>1, <2>3, <2>5, <2>7 DEF Becomes, Shape, Adds
  <2>11. Current(p)' BY <2>7 DEF Becomes, Current
  <2> QED BY <1>7, <2>2, <2>6, <2>7, <2>8, <2>9, <2>10, <2>11
<1>13. CASE LinkDestFails(p)
  <2>1. /\ pc[p] = "linkdest" /\ UNCHANGED <<at, link, file>> /\ Done(p)
        BY <1>13 DEF LinkDestFails, maildir, size
  <2>2. op[p] = "move"
        BY <1>1, <1>5, <2>1 DEF OpOK, AllOps, Adds, Counting
  <2>3. at[m] = {dir[p]} /\ Pending(p) = 0
        BY <1>2, <1>4, <2>1, <2>2 DEF Shape, Pending
  <2>4. Settled(m)'
        BY <1>4, <1>5, <2>1, <2>3 DEF Settled, Balance, Stored, Single
  <2>5. OnlyAbout(m) BY <2>1 DEF OnlyAbout
  <2> QED BY <1>2, <2>1, <2>4, <2>5, FiledBalanced
<1> QED BY <1>8, <1>9, <1>10, <1>11, <1>12, <1>13

\* A message moves from new to cur when its folder is opened.
LEMMA CheckNewBalanced ==
  ASSUME OpsInv, OpsInv', Balanced, NEW m \in Msgs, CheckNew(m), clean'
  PROVE  Balanced'
<1>1. LocalOK /\ SharedOK BY TypeSplit DEF OpsInv, TypeInv
<1>2. PICK k \in 1..Len(Folders) :
        /\ <<Folders[k], "new">> \in at[m]
        /\ at' = [at EXCEPT ![m] = (@ \ {<<Folders[k], "new">>})
                                    \cup {<<Folders[k], "cur">>}]
      BY DEF CheckNew
<1>3. UNCHANGED <<link, file, pc, op, msg, dir, newquota, info, count>> /\ ~Scanning
      BY DEF CheckNew, size, local, args
<1>4. PICK new \in Dirs, cur \in Dirs :
        /\ new[2] = "new" /\ new \in at[m]
        /\ at' = [at EXCEPT ![m] = (@ \ {new}) \cup {cur}]
      BY <1>2 DEF Dirs
<1>5. at \in [Msgs -> SUBSET Dirs] BY <1>1 DEF SharedOK
<1>6. at'[m] = (at[m] \ {new}) \cup {cur} BY <1>4, <1>5
<1>7. \A x \in Msgs \ {m} : at'[x] = at[x] BY <1>4, <1>5
<1>8. \A x \in Msgs : Stored(x)' = Stored(x) BY <1>4, <1>6, <1>7 DEF Stored
<1>9. ASSUME NEW x \in Msgs, NEW n, Balance(x, n) PROVE Balance(x, n)'
      BY <1>3, <1>8, <1>9 DEF Balance
<1>10. ASSUME NEW x \in Msgs, Single(x) PROVE Single(x)'
  <2>1. CASE x = m
    <3>1. at[m] = {new} BY <1>4, <1>10, <2>1 DEF Single
    <3> QED BY <1>6, <2>1, <3>1 DEF Single
  <2> QED BY <1>7, <1>10, <2>1 DEF Single
<1>11. ASSUME NEW x \in Msgs, ~(Busy(x)') PROVE Settled(x)'
  <2>1. ~Busy(x) BY <1>3, <1>11 DEF Busy
  <2>2. Settled(x) BY <2>1 DEF Balanced
  <2>3. at[x] = {} => at'[x] = {} BY <1>4, <1>7
  <2>4. Balance(x, 0)' BY <1>9, <2>2 DEF Settled
  <2> QED BY <1>10, <2>2, <2>3, <2>4 DEF Settled
<1>12. ASSUME NEW p \in Procs PROVE Held(p)' /\ Current(p)' /\ Counted(p)'
  <2>1. Held(p) /\ Current(p) /\ OpOK(p) BY DEF Balanced, OpsInv
  <2>2. Current(p)' BY <1>3, <2>1 DEF Current, Setting
  <2>3. Counted(p)' BY <1>3 DEF Counted, Scanning, Counting
  <2>4. ASSUME msg[p] # None PROVE Shape(p)' /\ Balance(msg[p], Pending(p))'
    <3>1. PICK x \in Msgs : x = msg[p] BY <1>1, <2>4 DEF LocalOK
    <3>2. PICK n : n = Pending(p) OBVIOUS
    <3>3. Pending(p)' = n BY <1>3, <3>2 DEF Pending
    <3>4. Balance(x, n)' BY <1>9, <2>1, <2>4, <3>1, <3>2 DEF Held
    <3>5. Balance(msg[p], Pending(p))'
          BY <1>3, <3>1, <3>3, <3>4 DEF Balance, Stored
    <3>6. Shape(p) BY <2>1, <2>4 DEF Held
    <3>7. CASE x # m
      <4>1. at'[x] = at[x] BY <1>7, <3>7
      <4> QED BY <1>3, <3>1, <3>5, <3>6, <4>1 DEF Shape, Single
    <3>8. CASE x = m
      <4>1. op[p] \in AllOps BY <1>1 DEF LocalOK
      <4>2. (at[x] # {} /\ at[x] # {dir[p]}) \/ op[p] \in Adds \cup {"forced"}
        <5>1. op[p] \in {"set", "recalculate"} => FALSE
              BY <2>1, <2>4 DEF OpOK
        <5>2. op[p] \in {"delete", "move"} => dir[p][2] = "cur"
              BY <2>1 DEF OpOK
        <5>3. op[p] \in {"delete", "move"} => dir[p] # new BY <1>4, <5>2
        <5> QED BY <1>4, <3>8, <4>1, <5>1, <5>3 DEF AllOps, Adds
      <4>3. op[p] \notin {"delete", "move"}
        <5>1. op[p] \in {"delete", "move"} => dir[p][2] = "cur"
              BY <2>1 DEF OpOK
        <5>2. op[p] \in {"delete", "move"} =>
                \A d \in at[m] : d[2] = "cur"
              BY <3>1, <3>6, <3>8, <5>1 DEF Shape
        <5> QED BY <1>4, <5>2
      <4>4. op[p] \in Adds \cup {"forced"}
        <5>1. op[p] \notin {"set", "recalculate"} BY <2>1, <2>4 DEF OpOK
        <5> QED BY <4>1, <4>3, <5>1 DEF AllOps, Adds
      <4>5. op[p] = "deliver" /\ pc[p] = "record" /\ Single(x)
            BY <1>4, <3>1, <3>6, <3>8, <4>4 DEF Shape
      <4>6. Single(x)' BY <1>10, <4>5
      <4>7. Shape(p)' BY <1>3, <3>1, <4>5, <4>6 DEF Shape, Single
      <4> QED BY <3>5, <4>7
    <3> QED BY <3>7, <3>8
  <2> QED BY <1>3, <2>2, <2>3, <2>4 DEF Held
<1> QED BY <1>11, <1>12 DEF Balanced

\* Nothing that the balance is about changes.
LEMMA QuietBalanced ==
  ASSUME Balanced,
         UNCHANGED <<at, link, file, pc, op, msg, dir, newquota, info, count>>
  PROVE  Balanced'
<1>1. \A m : Settled(m)' <=> Settled(m)
      BY DEF Settled, Single, Balance, Stored
<1>2. \A m : Busy(m)' <=> Busy(m) BY DEF Busy
<1>3. ASSUME NEW p \in Procs PROVE Held(p)' /\ Current(p)' /\ Counted(p)'
  <2>1. Held(p) /\ Current(p) /\ Counted(p) BY DEF Balanced
  <2>2. Held(p)'
        BY <2>1 DEF Held, Shape, Single, Balance, Stored, Pending
  <2>3. Current(p)' BY <2>1 DEF Current, Setting
  <2>4. Counted(p)'
    <3>1. Entries' = Entries BY DEF Entries
    <3>2. Alone(p)' <=> Alone(p) BY DEF Alone
    <3> QED BY <2>1, <3>1, <3>2 DEF Counted
  <2> QED BY <2>2, <2>3, <2>4
<1> QED BY <1>1, <1>2, <1>3 DEF Balanced

\* Every step keeps the balance, unless it is a fault or interferes.
LEMMA LedgerInductive == LedgerInv /\ [Next]_vars => LedgerInv'
<1> SUFFICES ASSUME LedgerInv, [Next]_vars PROVE LedgerInv'
    OBVIOUS
<1> SUFFICES ASSUME clean' PROVE Balanced'
    BY OpsInductive DEF LedgerInv
<1>1. OpsInv /\ OpsInv' BY OpsInductive DEF LedgerInv
<1>2. clean \in BOOLEAN BY <1>1 DEF OpsInv, TypeInv, TypeOK
<1>3. ASSUME clean PROVE Balanced BY <1>3 DEF LedgerInv
<1>4. ASSUME NEW p \in Procs, Start(p) PROVE Balanced'
  <2>1. clean BY <1>4 DEF Start
  <2> QED BY <1>1, <1>3, <1>4, <2>1, StartBalanced
<1>5. ASSUME NEW p \in Procs, Work(p) PROVE Balanced'
  <2>1. clean
        BY <1>2, <1>5
        DEF Work, Open, Admit, Refuse, Recount, StatDirectory, ReadDirectory,
            Install, Restat, Accept, Raced, Record, Link, Remove, LinkDest
  <2>2. CASE Open(p) BY <1>1, <1>3, <2>1, <2>2, OpenBalanced DEF Open
  <2>3. ~Raced(p) BY DEF Raced
  <2> QED
      BY <1>1, <1>3, <1>5, <2>1, <2>2, <2>3, RecountBalanced, InstallBalanced,
         VerdictBalanced, StoreBalanced
      DEF Work
<1>6. ASSUME NEW p \in Procs, Fault(p) PROVE Balanced'
  <2>1. InstallFails(p) \/ LinkFails(p) \/ LinkDestFails(p)
        BY <1>6 DEF Fault, OpenFails, RecordFails, Crash
  <2>2. clean BY <1>2, <2>1 DEF InstallFails, LinkFails, LinkDestFails
  <2> QED BY <1>1, <1>3, <2>1, <2>2, VerdictBalanced, StoreBalanced
<1>7. ASSUME NEW m \in Msgs, CheckNew(m) PROVE Balanced'
  <2>1. clean BY <1>7 DEF CheckNew
  <2> QED BY <1>1, <1>3, <1>7, <2>1, CheckNewBalanced
<1>8. CASE Tick \/ (\E m \in Msgs : SetFlag(m)) \/ UNCHANGED vars
  <2>1. /\ UNCHANGED <<at, link, file, pc, op, msg, dir, newquota, info, count>>
        /\ clean
        BY <1>8 DEF Tick, SetFlag, vars, maildir, size, local, args
  <2> QED BY <1>3, <2>1, QuietBalanced
<1> QED BY <1>1, <1>4, <1>5, <1>6, <1>7, <1>8 DEF Next, Normal

\* At first every message is settled.
LEMMA LedgerInit == Init => LedgerInv
<1> SUFFICES ASSUME Init PROVE LedgerInv
    OBVIOUS
<1>1. OpsInv BY OpsInit
<1>2. PICK S \in SUBSET Msgs, q \in Quotas :
        /\ at = [m \in Msgs |->
                  IF m \in S THEN {<<Folders[1], "cur">>} ELSE {}]
        /\ file = [i \in Inodes |->
             IF i # link THEN NoFile
             ELSE [NoFile EXCEPT !.quota = q,
                     !.account = [m \in Msgs |-> IF m \in S THEN 1 ELSE 0],
                     !.nlines = 1]]
      BY DEF Init
<1>3. link \in Inodes \cup {None} BY DEF Init
<1>4. <<Folders[1], "cur">> \in Dirs BY FolderAssumption DEF Dirs
<1>5. ASSUME NEW m \in Msgs PROVE Settled(m)
  <2>1. at[m] = {} \/ Single(m) BY <1>2, <1>4 DEF Single
  <2>2. ASSUME link # None
        PROVE  file[link].account[m] = IF m \in S THEN 1 ELSE 0
    <3>1. file[link] = [NoFile EXCEPT !.quota = q,
                     !.account = [x \in Msgs |-> IF x \in S THEN 1 ELSE 0],
                     !.nlines = 1]
          BY <1>2, <1>3, <2>2
    <3> QED BY <3>1 DEF NoFile
  <2>3. Stored(m) = IF m \in S THEN 1 ELSE 0
    <3>1. at[m] = IF m \in S THEN {<<Folders[1], "cur">>} ELSE {} BY <1>2
    <3>2. at[m] = {} <=> m \notin S BY <3>1
    <3> QED BY <3>2 DEF Stored
  <2>4. Balance(m, 0) BY <2>2, <2>3 DEF Balance
  <2> QED BY <2>1, <2>4 DEF Settled
<1>6. ASSUME NEW p \in Procs PROVE Held(p) /\ Current(p) /\ Counted(p)
  <2>1. pc[p] = "idle" /\ msg[p] = None BY DEF Init
  <2> QED BY <2>1 DEF Held, Current, Counted, Counting
<1> QED BY <1>1, <1>5, <1>6 DEF LedgerInv, Balanced

\* As long as no fault happens and nobody disturbs a count, maildirsize holds
\* for every message what is stored of it, but for the line or the entry that
\* the operation under way still owes: writers that only append, each through
\* a descriptor of its own, never lose each other's changes.
\* (maildir_quota_add_start .. add_end, maildir_quota_deleted)
THEOREM LedgerTheorem == Spec => []Ledger
<1>1. LedgerInv => Ledger
  <2> SUFFICES ASSUME LedgerInv, clean, link # None, NEW m \in Msgs
               PROVE  file[link].account[m] = Stored(m) + Unsettled(m)
      BY DEF Ledger
  <2>1. Balanced /\ Unshared BY DEF LedgerInv, OpsInv
  <2>2. m # None BY NoneAssumption
  <2>3. CASE ~Busy(m)
    <3>1. Balance(m, 0) BY <2>1, <2>3 DEF Balanced, Settled
    <3>2. Unsettled(m) = 0 BY <2>3 DEF Busy, Unsettled
    <3> QED BY <3>1, <3>2 DEF Balance
  <2>4. CASE Busy(m)
    <3>1. PICK p \in Procs : msg[p] = m BY <2>4 DEF Busy
    <3>2. \A q \in Procs : msg[q] = m => q = p
          BY <2>1, <2>2, <3>1 DEF Unshared
    <3>3. Unsettled(m) = Pending(p)
      <4>1. (\E q \in Procs : msg[q] = m /\ op[q] = "deliver" /\ pc[q] = "record")
            <=> op[p] = "deliver" /\ pc[p] = "record"
            BY <3>1, <3>2
      <4>2. (\E q \in Procs : msg[q] = m /\ op[q] # "deliver" /\ pc[q] = "link")
            <=> op[p] # "deliver" /\ pc[p] = "link"
            BY <3>1, <3>2
      <4>3. (\E q \in Procs : msg[q] = m /\ op[q] = "delete" /\ pc[q] = "remove")
            <=> op[p] = "delete" /\ pc[p] = "remove"
            BY <3>1, <3>2
      <4> QED BY <4>1, <4>2, <4>3 DEF Unsettled, Pending
    <3>4. Balance(m, Pending(p)) BY <2>1, <2>2, <3>1 DEF Balanced, Held
    <3> QED BY <3>3, <3>4 DEF Balance
  <2> QED BY <2>3, <2>4
<1> QED BY <1>1, LedgerInit, LedgerInductive, PTL DEF Spec

-----------------------------------------------------------------------------
(* One line and a young timestamp tell of a recent count; a file that grew   *)
(* long is not lengthened for ever.                                         *)

InUse(i) == i = link \/ \E p \in Procs : info[p].fd = i

\* A file with one line is as it was when it was written.
FileOK(i) ==
  /\ file[i].nlines = 1 => file[i].mtime = file[i].made
  /\ InUse(i) => file[i].nlines >= 1

\* Who read one line knows when the directories were counted.
ReadsOK(p) ==
  /\ info[p].fd = DevNull => info[p].recalculation_needed
  /\ /\ pc[p] = "check" /\ info[p].fd # None
     /\ ~info[p].recalculation_needed /\ info[p].nlines = 1
     => info[p].fd \in Inodes /\ file[info[p].fd].made = info[p].mtime

YoungInv == TypeInv /\ (\A i \in Inodes : FileOK(i)) /\ \A p \in Procs : ReadsOK(p)

\* Process p keeps its descriptor, loses it, or has read a file.
Knows(p) ==
  \/ info'[p] = info[p] /\ (pc'[p] = pc[p] \/ pc'[p] # "check")
  \/ info'[p] = NoInfo
  \/ info'[p] = Outdated(info[p])
  \/ info'[p] = Blank(newquota[p])
  \/ pc'[p] # "check" /\ info'[p].fd \in Inodes /\ info'[p].fd = link'
  \/ /\ link \in Inodes /\ info'[p].fd = link
     /\ \/ info'[p].recalculation_needed
        \/ /\ info'[p].nlines = file[link].nlines
           /\ info'[p].mtime = file[link].mtime
           /\ file[link].nlines <= MaxLines

\* No other step changes a struct maildirsize.
LEMMA KnowsStep ==
  ASSUME TypeInv, [Next]_vars, NEW p \in Procs
  PROVE  Knows(p)
<1>1. LocalOK /\ SharedOK BY TypeSplit DEF TypeInv
<1>2. ASSUME NEW q \in Procs, NEW l, NEW o, NEW m, NEW d, NEW r, NEW j,
             Becomes(q, l, o, m, d, r, j),
             \/ j = NoInfo
             \/ j = info[q] /\ l # "check"
             \/ j = Outdated(info[q])
      PROVE  Knows(p)
      BY <1>2 DEF Becomes, StepOf, Knows
<1>3. ASSUME NEW q \in Procs, NEW rc, NEW inf, Return(q, rc, inf),
             (inf = info[q] /\ rc # "again") \/ inf = Outdated(info[q])
      PROVE  Knows(p)
  <2>1. Admitted(q) # "check" BY DEF Admitted
  <2> QED BY <1>1, <1>2, <1>3, <2>1, ReturnIs
<1>4. ASSUME NEW q \in Procs, Done(q) PROVE Knows(p)
      BY <1>1, <1>2, <1>4, DoneIs
<1>5. ASSUME info' = info, \A q \in Procs : pc'[q] = pc[q] \/ pc'[q] # "check"
      PROVE  Knows(p)
      BY <1>5 DEF Knows
<1>6. ASSUME NEW q \in Procs, Goto(q, "record", info[q], 0) \/ Goto(q, "link", NoInfo, 0)
                              \/ Goto(q, "remove", NoInfo, 0)
      PROVE  Knows(p)
      BY <1>1, <1>6 DEF Goto, Knows, LocalOK
<1>7. ASSUME NEW q \in Procs, NEW i, i \in {link, None}, OpenAs(q, i) PROVE Knows(p)
  <2>1. CASE q # p BY <1>1, <1>7, <2>1 DEF OpenAs, Knows, LocalOK
  <2>2. CASE q = p
    <3>1. CASE info' = [info EXCEPT ![p] = Blank(newquota[p])]
          BY <1>1, <3>1 DEF Knows, LocalOK
    <3> DEFINE inf == Imposed(p, ReadFile(i))
               j == IF op[p] = "recalculate" /\ i # None
                    THEN [inf EXCEPT !.recalculation_needed = TRUE] ELSE inf
    <3>2. CASE info' = [info EXCEPT ![p] = j]
      <4>1. info'[p] = j BY <1>1, <3>2 DEF LocalOK
      <4>2. CASE i = None
        <5>1. inf = NoInfo BY <4>2 DEF ReadFile, Imposed, NoInfo
        <5> QED BY <4>1, <4>2, <5>1 DEF Knows
      <4>3. CASE i # None
        <5>1. i = link /\ link \in Inodes BY <1>1, <1>7, <4>3 DEF SharedOK
        <5>2. /\ ReadFile(i).fd = link /\ ReadFile(i).mtime = file[link].mtime
              /\ ~ReadFile(i).recalculation_needed =>
                   /\ file[link].nlines <= MaxLines
                   /\ ReadFile(i).nlines = file[link].nlines
          <6>1. file[link].nlines \in Nat /\ MaxLines \in Nat
                BY <1>1, <5>1, BoundsAssumption, BlankTypes DEF SharedOK, Files, Lines
          <6>2. CASE file[link].nlines > MaxLines
            <7>1. ReadFile(i).recalculation_needed BY <4>3, <5>1, <6>2 DEF ReadFile
            <7> QED BY <4>3, <5>1, <7>1 DEF ReadFile
          <6>3. CASE ~(file[link].nlines > MaxLines)
            <7>1. file[link].nlines <= MaxLines BY <6>1, <6>3
            <7>2. ReadFile(i).nlines = file[link].nlines
                  BY <4>3, <5>1, <6>3 DEF ReadFile
            <7> QED BY <4>3, <5>1, <7>1, <7>2 DEF ReadFile
          <6> QED BY <6>2, <6>3
        <5>3. /\ inf.fd = link /\ inf.mtime = file[link].mtime
              /\ ~inf.recalculation_needed =>
                   /\ file[link].nlines <= MaxLines
                   /\ inf.nlines = file[link].nlines
              BY <4>3, <5>2 DEF Imposed, ReadFile
        <5>4. /\ j.fd = link /\ j.mtime = file[link].mtime
              /\ ~j.recalculation_needed =>
                   /\ file[link].nlines <= MaxLines
                   /\ j.nlines = file[link].nlines
              BY <4>3, <5>3 DEF Imposed, ReadFile
        <5> HIDE DEF j
        <5> QED BY <4>1, <5>1, <5>4 DEF Knows
      <4> QED BY <4>2, <4>3
    <3> QED BY <1>7, <2>2, <3>1, <3>2 DEF OpenAs
  <2> QED BY <2>1, <2>2
<1>8. ASSUME NEW q \in Procs, Install(q) PROVE Knows(p)
  <2>1. PICK i \in Inodes : link' = i /\ info' = [info EXCEPT ![q] = Switched(q, i)]
        BY <1>8 DEF Install, Unused
  <2>2. pc' = [pc EXCEPT ![q] = "restat"] BY <1>8 DEF Install
  <2>3. Switched(q, i).fd = i BY <1>1 DEF Switched, LocalOK, Infos
  <2> QED BY <1>1, <2>1, <2>2, <2>3 DEF Knows, LocalOK
<1>9. ASSUME NEW q \in Procs, Start(q) \/ Work(q) \/ Fault(q) PROVE Knows(p)
  <2>1. CASE Start(q)
    <3>1. \E l \in {"linkdest", "open"} : pc' = [pc EXCEPT ![q] = l]
          BY <2>1 DEF Start
    <3> QED BY <1>1, <1>5, <2>1, <3>1 DEF Start, LocalOK
  <2>2. CASE Recount(q) \/ StatDirectory(q) \/ ReadDirectory(q) \/ Restat(q)
        BY <1>1, <1>5, <2>2
        DEF Recount, StatDirectory, ReadDirectory, Restat, LocalOK
  <2>3. CASE Admit(q) \/ Refuse(q) \/ InstallFails(q) \/ Accept(q) \/ Raced(q)
        BY <1>3, <2>3 DEF Admit, Refuse, InstallFails, Accept, Raced
  <2>4. CASE Record(q) \/ RecordFails(q)
    <3>1. AfterRecord(q) BY <2>4 DEF Record, RecordFails
    <3> QED BY <1>4, <1>6, <3>1 DEF AfterRecord
  <2>5. CASE Link(q) \/ LinkDest(q)
        BY <1>4, <1>6, <2>5 DEF Link, LinkDest
  <2>6. CASE Open(q) \/ OpenFails(q) BY <1>7, <2>6 DEF Open, OpenFails
  <2>7. CASE Remove(q) \/ LinkFails(q) \/ LinkDestFails(q) \/ Crash(q)
        BY <1>4, <2>7 DEF Remove, LinkFails, LinkDestFails, Crash
  <2> QED
      BY <1>8, <1>9, <2>1, <2>2, <2>3, <2>4, <2>5, <2>6, <2>7 DEF Work, Fault
<1>10. CASE Tick \/ (\E m \in Msgs : CheckNew(m) \/ SetFlag(m)) \/ UNCHANGED vars
       BY <1>5, <1>10 DEF Tick, CheckNew, SetFlag, local, vars
<1> QED BY <1>9, <1>10 DEF Next, Normal

\* What a step makes of a file: nothing, a new one, or one line more.
Written(i) ==
  \/ file'[i] = file[i]
  \/ ~InUse(i) /\ file'[i].nlines = 1 /\ file'[i].mtime = file'[i].made
  \/ \E p \in Procs : /\ pc[p] = "record" /\ info[p].fd = i /\ info'[p].fd = None
                      /\ file'[i] = Appended(file[i], p)

\* No other step changes a file or its name.
LEMMA WrittenStep ==
  ASSUME TypeInv, [Next]_vars
  PROVE  /\ \A i \in Inodes : Written(i)
         /\ link' # link => link' \in Inodes /\ file'[link'].nlines = 1
<1>1. LocalOK /\ SharedOK BY TypeSplit DEF TypeInv
<1>2. CASE UNCHANGED size BY <1>2 DEF size, Written
<1>3. ASSUME NEW p \in Procs, Install(p)
      PROVE  /\ \A i \in Inodes : Written(i)
             /\ link' # link => link' \in Inodes /\ file'[link'].nlines = 1
  <2>1. PICK i \in Unused : file' = [file EXCEPT ![i] = Recounted(p)] /\ link' = i
        BY <1>3 DEF Install
  <2>2. ~InUse(i) /\ i \in Inodes BY <2>1 DEF Unused, InUse
  <2>3. file'[i] = Recounted(p) BY <1>1, <2>1, <2>2 DEF SharedOK
  <2>4. \A k \in Inodes \ {i} : file'[k] = file[k] BY <1>1, <2>1 DEF SharedOK
  <2>5. Written(i) BY <2>2, <2>3 DEF Written, Recounted
  <2> QED BY <2>1, <2>2, <2>3, <2>4, <2>5 DEF Written, Recounted
<1>4. ASSUME NEW p \in Procs, Record(p)
      PROVE  (\A i \in Inodes : Written(i)) /\ link' = link
  <2>1. pc[p] = "record" /\ AfterRecord(p) /\ link' = link BY <1>4 DEF Record
  <2>2. info'[p].fd = None
    <3>1. Done(p) => info'[p] = NoInfo BY <1>1 DEF Done, LocalOK
    <3>2. \A l : Goto(p, l, NoInfo, 0) => info'[p] = NoInfo
          BY <1>1 DEF Goto, LocalOK
    <3>3. info'[p] = NoInfo BY <2>1, <3>1, <3>2 DEF AfterRecord
    <3> QED BY <3>3 DEF NoInfo
  <2>3. CASE info[p].fd = None BY <1>4, <2>1, <2>3 DEF Record, Written
  <2>4. CASE info[p].fd # None
    <3>1. file' = [file EXCEPT ![info[p].fd] = Appended(@, p)]
          BY <1>4, <2>4 DEF Record
    <3>2. ASSUME NEW i \in Inodes PROVE Written(i)
      <4>1. CASE i # info[p].fd BY <1>1, <3>1, <4>1 DEF SharedOK, Written
      <4>2. CASE i = info[p].fd
        <5>1. file'[i] = Appended(file[i], p) BY <1>1, <3>1, <4>2 DEF SharedOK
        <5> QED BY <2>1, <2>2, <4>2, <5>1 DEF Written
      <4> QED BY <4>1, <4>2
    <3> QED BY <2>1, <3>2
  <2> QED BY <2>3, <2>4
<1>5. ASSUME NEW p \in Procs, Start(p) \/ Work(p) \/ Fault(p)
      PROVE  UNCHANGED size \/ Install(p) \/ Record(p)
      BY <1>5
      DEF Start, Work, Fault, Open, OpenAs, Admit, Refuse, Recount, StatDirectory,
          ReadDirectory, Restat, Accept, Raced, Link, Remove, LinkDest,
          OpenFails, InstallFails, RecordFails, LinkFails, LinkDestFails, Crash, size
<1>6. CASE Tick \/ (\E m \in Msgs : CheckNew(m) \/ SetFlag(m)) \/ UNCHANGED vars
      BY <1>2, <1>6 DEF Tick, CheckNew, SetFlag, vars, size
<1> QED BY <1>2, <1>3, <1>4, <1>5, <1>6 DEF Next, Normal

\* Every step keeps it, faults included.
LEMMA YoungInductive == YoungInv /\ [Next]_vars => YoungInv'
<1> SUFFICES ASSUME YoungInv, [Next]_vars PROVE YoungInv'
    OBVIOUS
<1>1. TypeInv /\ TypeInv' BY NextType DEF YoungInv
<1>2. LocalOK /\ SharedOK BY <1>1, TypeSplit DEF TypeInv
<1>3. \A p \in Procs : Knows(p) BY <1>1, KnowsStep
<1>4. /\ \A i \in Inodes : Written(i)
      /\ link' # link => link' \in Inodes /\ file'[link'].nlines = 1
      BY <1>1, WrittenStep
<1>5. MaxLines \in Nat /\ TooLong \in Nat /\ TooLong >= 2
  <2>1. Cardinality(Procs) \in Nat BY ProcsAssumption, FS_CardinalityType
  <2> QED BY <2>1, BoundsAssumption DEF TooLong
<1>6. DevNull \notin Inodes \cup {None} /\ None \notin Inodes BY NoneAssumption
<1>7. ASSUME NEW i \in Inodes PROVE FileOK(i)'
  <2>1. FileOK(i) /\ file[i].nlines \in Nat
        BY <1>2, BlankTypes DEF YoungInv, SharedOK, Files, Lines
  <2>2. InUse(i)' => InUse(i) \/ file'[i].nlines = 1
    <3>1. ASSUME NEW p \in Procs, info'[p].fd = i
          PROVE  InUse(i) \/ file'[i].nlines = 1
      <4>1. Knows(p) BY <1>3
      <4>2. Outdated(info[p]).fd = info[p].fd
            BY <1>2 DEF Outdated, LocalOK, Infos
      <4>3. NoInfo.fd = None /\ \A q : Blank(q).fd = DevNull
            BY DEF NoInfo, Blank
      <4>4. info[p].fd = i \/ link = i \/ link' = i
            BY <1>6, <3>1, <4>1, <4>2, <4>3 DEF Knows
      <4> QED BY <1>4, <4>4 DEF InUse
    <3> QED BY <1>4, <3>1 DEF InUse
  <2>3. CASE file'[i] = file[i] BY <2>1, <2>2, <2>3 DEF FileOK
  <2>4. CASE ~InUse(i) /\ file'[i].nlines = 1 /\ file'[i].mtime = file'[i].made
        BY <2>4 DEF FileOK
  <2>5. ASSUME NEW p \in Procs, info[p].fd = i, file'[i] = Appended(file[i], p)
        PROVE  FileOK(i)'
    <3>1. file[i].nlines >= 1 BY <2>1, <2>5 DEF FileOK, InUse
    <3>2. file'[i].nlines = IF file[i].nlines = TooLong THEN file[i].nlines
                            ELSE file[i].nlines + 1
          BY <1>2, <2>5 DEF Appended, SharedOK, Files
    <3>3. file'[i].nlines \in Nat /\ file'[i].nlines >= 2
          BY <1>5, <2>1, <3>1, <3>2
    <3> QED BY <3>3 DEF FileOK
  <2>6. Written(i) BY <1>4
  <2>7. CASE \E p \in Procs : info[p].fd = i /\ file'[i] = Appended(file[i], p)
        BY <2>5, <2>7
  <2> QED BY <2>3, <2>4, <2>6, <2>7 DEF Written
<1>8. ASSUME NEW p \in Procs PROVE ReadsOK(p)'
  <2>1. Knows(p) /\ ReadsOK(p) /\ info[p] \in Infos
        BY <1>2, <1>3 DEF YoungInv, LocalOK
  <2>2. ASSUME NEW i \in Inodes, InUse(i) PROVE file'[i].made = file[i].made
    <3>1. Written(i) /\ file[i] \in Files BY <1>2, <1>4 DEF SharedOK
    <3>2. \A q : Appended(file[i], q).made = file[i].made
          BY <3>1 DEF Appended, Files
    <3> QED BY <2>2, <3>1, <3>2 DEF Written
  <2>3. CASE info'[p] = info[p] /\ (pc'[p] = pc[p] \/ pc'[p] # "check")
    <3>1. info[p].fd \in Inodes =>
             file'[info[p].fd].made = file[info[p].fd].made
          BY <2>2 DEF InUse
    <3> QED BY <2>1, <2>3, <3>1 DEF ReadsOK
  <2>4. CASE info'[p] = NoInfo BY <1>6, <2>4 DEF ReadsOK, NoInfo
  <2>5. CASE info'[p] = Outdated(info[p])
        BY <2>1, <2>5 DEF ReadsOK, Outdated, Infos
  <2>6. CASE info'[p] = Blank(newquota[p])
        BY <2>6 DEF ReadsOK, Blank, NoInfo
  <2>7. CASE pc'[p] # "check" /\ info'[p].fd \in Inodes
        BY <1>6, <2>7 DEF ReadsOK
  <2>8. CASE link \in Inodes /\ info'[p].fd = link /\ info'[p].recalculation_needed
        BY <1>6, <2>8 DEF ReadsOK
  <2>9. CASE /\ link \in Inodes /\ info'[p].fd = link
             /\ info'[p].nlines = file[link].nlines
             /\ info'[p].mtime = file[link].mtime
    <3>1. file'[link].made = file[link].made BY <2>2, <2>9 DEF InUse
    <3>2. info'[p].nlines = 1 => file[link].mtime = file[link].made
          BY <2>9 DEF YoungInv, FileOK
    <3> QED BY <1>6, <2>9, <3>1, <3>2 DEF ReadsOK
  <2> QED BY <2>1, <2>3, <2>4, <2>5, <2>6, <2>7, <2>8, <2>9 DEF Knows
<1> QED BY <1>1, <1>7, <1>8 DEF YoungInv

\* The first maildirsize was written when it says.
LEMMA YoungInit == Init => YoungInv
<1> SUFFICES ASSUME Init PROVE YoungInv
    OBVIOUS
<1>1. TypeInv BY InitType
<1>2. \A p \in Procs : info[p] = NoInfo BY DEF Init
<1>3. ASSUME NEW i \in Inodes PROVE FileOK(i)
  <2>1. PICK S \in SUBSET Msgs, q \in Quotas :
          file = [k \in Inodes |->
            IF k # link THEN NoFile
            ELSE [NoFile EXCEPT !.quota = q,
                    !.account = [m \in Msgs |-> IF m \in S THEN 1 ELSE 0],
                    !.nlines = 1]]
        BY DEF Init
  <2>2. CASE i # link
    <3>1. file[i] = NoFile BY <2>1, <2>2
    <3>2. ~InUse(i) BY <1>2, <2>2, NoneAssumption DEF InUse, NoInfo
    <3> QED BY <3>1, <3>2 DEF FileOK, NoFile
  <2>3. CASE i = link
    <3>1. file[i] = [NoFile EXCEPT !.quota = q,
                    !.account = [m \in Msgs |-> IF m \in S THEN 1 ELSE 0],
                    !.nlines = 1]
          BY <2>1, <2>3
    <3>2. file[i].nlines = 1 /\ file[i].mtime = 0 /\ file[i].made = 0
          BY <3>1 DEF NoFile
    <3> QED BY <3>2 DEF FileOK
  <2> QED BY <2>2, <2>3
<1>4. ASSUME NEW p \in Procs PROVE ReadsOK(p)
      BY <1>2, NoneAssumption DEF ReadsOK, NoInfo
<1> QED BY <1>1, <1>3, <1>4 DEF YoungInv

\* A process that refuses without counting read a file of one line, and the
\* timestamp of that line is the second of a count.
\* (docheckquota, the test of nlines and st_mtime)
THEOREM RefusalTheorem == Spec => []RefusalRestsOnRecentCount
<1>1. YoungInv => RefusalRestsOnRecentCount
  <2> SUFFICES ASSUME YoungInv, NEW p \in Procs, pc[p] = "check",
                      ~NeedsNoCount(p), JustCounted(p)
               PROVE  info[p].fd \in Inodes /\ now < file[info[p].fd].made + Recheck
      BY DEF RefusalRestsOnRecentCount
  <2>1. /\ info[p].fd # None /\ ~info[p].recalculation_needed
        /\ info[p].nlines = 1 /\ now < info[p].mtime + Recheck
        BY DEF NeedsNoCount, JustCounted
  <2>2. ReadsOK(p) BY DEF YoungInv
  <2> QED BY <2>1, <2>2 DEF ReadsOK
<1> QED BY <1>1, YoungInit, YoungInductive, PTL DEF Spec

\* The system without faults.
NormalSpec == Init /\ [][Normal]_vars

\* The processes that may still append to file i without opening it again.
Holds(p, i) ==
  /\ info[p].fd = i
  /\ \/ pc[p] \in {"restat", "verdict", "record", "link"}
     \/ pc[p] = "check" /\ ~info[p].recalculation_needed

Holders(i) == {p \in Procs : Holds(p, i)}

\* There is room for a line of each of them.
Short(i) ==
  file[i].nlines + Cardinality(Holders(i)) <= MaxLines + Cardinality(Procs)

ShortInv == TypeInv /\ \A i \in Inodes : Short(i)

\* Without faults a process gets hold of a file only while it is short.
LEMMA HoldsStep ==
  ASSUME TypeInv, [Normal]_vars, NEW i \in Inodes, NEW p \in Procs, Holds(p, i)'
  PROVE  Holds(p, i) \/ file'[i].nlines <= MaxLines
<1> USE NoneAssumption
<1>1. LocalOK /\ SharedOK BY TypeSplit DEF TypeInv
<1>2. info[p] \in Infos /\ MaxLines \in Nat /\ MaxLines >= 1
      BY <1>1, BoundsAssumption DEF LocalOK
<1>3. NoInfo.fd # i /\ \A q : Blank(q).fd # i BY DEF NoInfo, Blank
<1>4. CASE pc'[p] = pc[p] /\ info'[p] = info[p] BY <1>4 DEF Holds
<1>5. CASE pc'[p] \in {"open", "linkdest", "stat", "read", "install", "remove", "idle"}
      BY <1>5 DEF Holds
<1>6. CASE info'[p].fd # i BY <1>6 DEF Holds
<1>7. CASE info'[p].fd = info[p].fd /\ pc[p] \in {"restat", "verdict", "record", "link"}
      BY <1>7 DEF Holds
<1>8. ASSUME NEW q \in Procs, NEW rc, NEW inf, Return(q, rc, inf),
             \/ rc # "again" /\ inf = info[q]
                  /\ (pc[q] = "verdict" \/ (pc[q] = "check" /\ ~info[q].recalculation_needed)
                                        \/ (pc[q] = "check" /\ info[q].fd = None))
             \/ rc = "again" /\ pc[q] = "verdict" /\ inf = Outdated(info[q])
      PROVE  Holds(p, i)
  <2>1. CASE q # p
    <3>1. pc'[p] = pc[p] /\ info'[p] = info[p]
          BY <1>1, <1>8, <2>1, ReturnIs DEF Becomes, StepOf
    <3> QED BY <3>1 DEF Holds
  <2>2. CASE q = p
    <3>1. info'[p] \in {inf, NoInfo} BY <1>1, <1>8, <2>2, ReturnIs DEF Becomes
    <3>2. info'[p] = inf BY <1>3, <3>1 DEF Holds
    <3>3. inf.fd = info[p].fd BY <1>2, <1>8, <2>2 DEF Outdated, Infos
    <3>4. info[p].fd = i BY <3>2, <3>3 DEF Holds
    <3>5. pc[p] = "verdict" \/ (pc[p] = "check" /\ ~info[p].recalculation_needed)
          BY <1>8, <2>2, <3>4
    <3> QED BY <3>4, <3>5 DEF Holds
  <2> QED BY <2>1, <2>2
<1>9. ASSUME NEW q \in Procs, Open(q) PROVE Holds(p, i) \/ file'[i].nlines <= MaxLines
  <2>0. file' = file /\ OpenAs(q, link) BY <1>9 DEF Open, OpenAs, size
  <2>1. CASE q # p
    <3>1. pc'[p] = pc[p] /\ info'[p] = info[p]
          BY <1>1, <2>0, <2>1 DEF OpenAs, LocalOK
    <3> QED BY <3>1 DEF Holds
  <2>2. CASE q = p
    <3>1. Knows(p) BY <1>9, KnowsStep DEF Work, Next, Normal
    <3>2. pc'[p] = "check" /\ pc[p] = "open" BY <1>1, <2>0, <2>2 DEF OpenAs, LocalOK
    <3>3. info'[p].fd = i /\ ~info'[p].recalculation_needed BY <3>2 DEF Holds
    <3>4. info'[p] \in {info[p], NoInfo, Outdated(info[p]), Blank(newquota[p])}
          \/ (link = i /\ file[link].nlines <= MaxLines)
          BY <3>1, <3>2, <3>3 DEF Knows
    <3>5. info'[p] # NoInfo /\ info'[p] # Blank(newquota[p]) BY <1>3, <3>3
    <3>6. info'[p] # Outdated(info[p])
          BY <1>2, <3>3 DEF Outdated, Infos
    <3>7. info'[p] # info[p] \/ (link = i /\ file[link].nlines <= MaxLines)
          BY <3>1, <3>2, <3>3, <3>5, <3>6 DEF Knows
    <3>8. CASE link = i /\ file[link].nlines <= MaxLines BY <2>0, <3>8
    <3>9. CASE ~(link = i /\ file[link].nlines <= MaxLines)
          BY <3>1, <3>2, <3>3, <3>5, <3>6, <3>9 DEF Knows
    <3> QED BY <3>8, <3>9
  <2> QED BY <2>1, <2>2
<1>10. ASSUME NEW q \in Procs, Install(q)
       PROVE  Holds(p, i) \/ file'[i].nlines <= MaxLines
  <2>1. PICK k \in Inodes : /\ file' = [file EXCEPT ![k] = Recounted(q)]
                            /\ info' = [info EXCEPT ![q] = Switched(q, k)]
        BY <1>10 DEF Install, Unused
  <2>2. pc' = [pc EXCEPT ![q] = "restat"] BY <1>10 DEF Install
  <2>3. CASE q # p BY <1>1, <1>4, <2>1, <2>2, <2>3 DEF LocalOK
  <2>4. CASE q = p
    <3>1. info'[p].fd = k BY <1>1, <2>1, <2>4 DEF Switched, LocalOK, Infos
    <3>2. k = i BY <3>1 DEF Holds
    <3>3. file'[i].nlines = 1 BY <1>1, <2>1, <3>2 DEF SharedOK, Recounted
    <3> QED BY <1>2, <3>3
  <2> QED BY <2>3, <2>4
<1>11. ASSUME NEW q \in Procs, NEW l, NEW j, pc' = [pc EXCEPT ![q] = l],
              info' = [info EXCEPT ![q] = j],
              \/ l \in {"open", "linkdest", "stat", "read", "install", "remove", "idle"}
              \/ j = NoInfo
              \/ j = info[q] /\ pc[q] \in {"restat", "link"}
       PROVE  Holds(p, i) \/ file'[i].nlines <= MaxLines
  <2>1. CASE q # p BY <1>1, <1>4, <1>11, <2>1 DEF LocalOK
  <2>2. CASE q = p
        BY <1>1, <1>3, <1>5, <1>6, <1>7, <1>11, <2>2 DEF LocalOK
  <2> QED BY <2>1, <2>2
<1>12. \A q \in Procs : info' = info => info' = [info EXCEPT ![q] = info[q]]
       BY <1>1 DEF LocalOK
<1>13. ASSUME NEW q \in Procs, Start(q) \/ Recount(q) \/ StatDirectory(q)
                               \/ ReadDirectory(q) \/ Restat(q)
       PROVE  Holds(p, i) \/ file'[i].nlines <= MaxLines
  <2>1. info' = info
        BY <1>13 DEF Start, Recount, StatDirectory, ReadDirectory, Restat
  <2>2. \/ \E l \in {"open", "linkdest", "stat", "read", "install"} :
             pc' = [pc EXCEPT ![q] = l]
        \/ pc[q] = "restat" /\ \E l : pc' = [pc EXCEPT ![q] = l]
        BY <1>13 DEF Start, Recount, StatDirectory, ReadDirectory, Restat
  <2> QED BY <1>11, <1>12, <2>1, <2>2
<1>14. ASSUME NEW q \in Procs, Done(q)
       PROVE  Holds(p, i) \/ file'[i].nlines <= MaxLines
       BY <1>11, <1>14 DEF Done
<1>15. ASSUME NEW q \in Procs, Record(q) \/ Link(q) \/ Remove(q) \/ LinkDest(q)
       PROVE  Holds(p, i) \/ file'[i].nlines <= MaxLines
  <2>1. CASE \E l : Goto(q, l, NoInfo, 0) BY <1>11, <2>1 DEF Goto
  <2>2. CASE Goto(q, "record", info[q], 0) /\ pc[q] = "link"
        BY <1>11, <2>2 DEF Goto
  <2> QED BY <1>14, <1>15, <2>1, <2>2 DEF Record, AfterRecord, Link, Remove, LinkDest
<1>16. ASSUME NEW q \in Procs, Admit(q) \/ Refuse(q) \/ Accept(q) \/ Raced(q)
       PROVE  Holds(p, i) \/ file'[i].nlines <= MaxLines
  <2>1. CASE Admit(q)
        BY <1>8, <2>1 DEF Admit, NeedsNoCount
  <2>2. CASE Refuse(q) BY <1>8, <2>2 DEF Refuse, JustCounted
  <2>3. CASE Accept(q) BY <1>8, <2>3 DEF Accept
  <2>4. CASE Raced(q) BY <1>8, <2>4 DEF Raced
  <2> QED BY <1>16, <2>1, <2>2, <2>3, <2>4
<1>17. CASE Tick \/ (\E m \in Msgs : CheckNew(m) \/ SetFlag(m)) \/ UNCHANGED vars
       BY <1>4, <1>17 DEF Tick, CheckNew, SetFlag, local, vars
<1>18. ASSUME NEW q \in Procs, Work(q) PROVE Holds(p, i) \/ file'[i].nlines <= MaxLines
       BY <1>9, <1>10, <1>13, <1>15, <1>16, <1>18 DEF Work
<1> QED BY <1>13, <1>17, <1>18 DEF Normal

\* Every step without fault keeps room for the lines still to come.
LEMMA ShortInductive == ShortInv /\ [Normal]_vars => ShortInv'
<1> SUFFICES ASSUME ShortInv, [Normal]_vars PROVE ShortInv'
    OBVIOUS
<1>1. [Next]_vars BY DEF Next
<1>2. TypeInv /\ TypeInv' BY <1>1, NextType DEF ShortInv
<1>3. LocalOK /\ SharedOK BY <1>2, TypeSplit DEF TypeInv
<1>4. SharedOK' 
  <2>1. TypeOK' BY <1>2 DEF TypeInv
  <2> QED BY <2>1 DEF TypeOK, SharedOK
<1>5. ASSUME NEW i \in Inodes PROVE Short(i)'
  <2>1. PICK H \in SUBSET Procs : H = Holders(i) BY DEF Holders
  <2>2. PICK K \in SUBSET Procs : K = Holders(i)' BY DEF Holders
  <2>3. PICK n \in Nat : n = file[i].nlines
        BY <1>3, BlankTypes DEF SharedOK, Files, Lines
  <2>4. PICK k \in Nat : k = file'[i].nlines
        BY <1>4, BlankTypes DEF SharedOK, Files, Lines
  <2>5. /\ IsFiniteSet(H) /\ IsFiniteSet(K)
        /\ Cardinality(H) \in Nat /\ Cardinality(K) \in Nat
        /\ Cardinality(Procs) \in Nat /\ MaxLines \in Nat /\ MaxLines >= 1
        BY ProcsAssumption, BoundsAssumption, FS_Subset, FS_CardinalityType
  <2>6. n + Cardinality(H) <= MaxLines + Cardinality(Procs)
        BY <2>1, <2>3 DEF ShortInv, Short
  <2>7. SUFFICES k + Cardinality(K) <= MaxLines + Cardinality(Procs)
        BY <2>2, <2>4 DEF Short
  <2>8. CASE k <= MaxLines
    <3>1. Cardinality(K) <= Cardinality(Procs) BY ProcsAssumption, FS_Subset
    <3> QED BY <2>5, <2>8, <3>1
  <2>9. CASE ~(k <= MaxLines)
    <3>1. K \subseteq H
      <4>1. ASSUME NEW p \in K PROVE p \in H
        <5>1. Holds(p, i)' BY <2>2 DEF Holders
        <5>2. Holds(p, i) BY <1>2, <2>4, <2>9, <5>1, HoldsStep
        <5> QED BY <2>1, <5>2 DEF Holders
      <4> QED BY <4>1
    <3>2. Cardinality(K) <= Cardinality(H) BY <2>5, <3>1, FS_Subset
    <3>3. Written(i) BY <1>1, <1>2, WrittenStep
    <3>4. CASE file'[i] = file[i]
      <4>1. k = n BY <2>3, <2>4, <3>4
      <4> QED BY <2>5, <2>6, <3>2, <4>1
    <3>5. CASE file'[i].nlines = 1 BY <2>4, <2>5, <2>9, <3>5
    <3>6. ASSUME NEW p \in Procs, pc[p] = "record", info[p].fd = i,
                 info'[p].fd = None, file'[i] = Appended(file[i], p)
          PROVE  k + Cardinality(K) <= MaxLines + Cardinality(Procs)
      <4>1. p \in H /\ p \notin K
            BY <2>1, <2>2, <3>6, NoneAssumption DEF Holders, Holds
      <4>2. K \subseteq H \ {p} BY <3>1, <4>1
      <4>3. IsFiniteSet(H \ {p}) /\ Cardinality(H \ {p}) = Cardinality(H) - 1
            BY <2>5, <4>1, FS_RemoveElement
      <4>4. Cardinality(K) <= Cardinality(H) - 1 BY <4>2, <4>3, FS_Subset
      <4>5. k <= n + 1
        <5>1. file'[i].nlines = IF file[i].nlines = TooLong THEN file[i].nlines
                                ELSE file[i].nlines + 1
              BY <1>3, <3>6 DEF Appended, SharedOK, Files
        <5> QED BY <2>3, <2>4, <5>1
      <4> QED BY <2>5, <2>6, <4>4, <4>5
    <3>7. CASE \E p \in Procs : /\ pc[p] = "record" /\ info[p].fd = i
                                 /\ info'[p].fd = None
                                 /\ file'[i] = Appended(file[i], p)
          BY <3>6, <3>7
    <3> QED BY <3>3, <3>4, <3>5, <3>7 DEF Written
  <2> QED BY <2>8, <2>9
<1> QED BY <1>2, <1>5 DEF ShortInv

\* Nobody holds a file at first, and the first one is short.
LEMMA ShortInit == Init => ShortInv
<1> SUFFICES ASSUME Init PROVE ShortInv
    OBVIOUS
<1>1. TypeInv BY InitType
<1>2. ASSUME NEW i \in Inodes PROVE Short(i)
  <2>1. Holders(i) = {} BY DEF Init, Holders, Holds
  <2>2. Cardinality(Holders(i)) = 0 BY <2>1, FS_EmptySet
  <2>3. Cardinality(Procs) \in Nat BY ProcsAssumption, FS_CardinalityType
  <2>4. PICK S \in SUBSET Msgs, q \in Quotas :
          file = [k \in Inodes |->
            IF k # link THEN NoFile
            ELSE [NoFile EXCEPT !.quota = q,
                    !.account = [m \in Msgs |-> IF m \in S THEN 1 ELSE 0],
                    !.nlines = 1]]
        BY DEF Init
  <2>5. file[i].nlines \in {0, 1}
    <3>1. file[i].nlines = IF i # link THEN 0 ELSE 1 BY <2>4 DEF NoFile
    <3> QED BY <3>1
  <2> QED BY <2>2, <2>3, <2>5, BoundsAssumption DEF Short
<1> QED BY <1>1, <1>2 DEF ShortInv

\* Without faults a maildirsize that outgrew the buffer is lengthened only by
\* the processes that had it open before, at most a line each.
\* (do_maildir_openquotafile, "maildirsize overflowed")
THEOREM ShortTheorem == NormalSpec => []FileStaysShort
<1>1. ShortInv => FileStaysShort
  <2> SUFFICES ASSUME ShortInv, NEW i \in Inodes
               PROVE  file[i].nlines <= MaxLines + Cardinality(Procs)
      BY DEF FileStaysShort
  <2>1. Cardinality(Holders(i)) \in Nat
    <3>1. Holders(i) \in SUBSET Procs BY DEF Holders
    <3> QED BY <3>1, ProcsAssumption, FS_Subset, FS_CardinalityType
  <2>2. file[i].nlines \in Nat
        BY TypeSplit, BlankTypes DEF ShortInv, TypeInv, SharedOK, Files, Lines
  <2>3. Cardinality(Procs) \in Nat /\ MaxLines \in Nat
        BY ProcsAssumption, BoundsAssumption, FS_CardinalityType
  <2>4. Short(i) BY DEF ShortInv
  <2> QED BY <2>1, <2>2, <2>3, <2>4 DEF Short
<1> QED BY <1>1, ShortInit, ShortInductive, PTL DEF NormalSpec

-----------------------------------------------------------------------------
(* Sums over finite sets: what SumFunction, which folds +, does when one   *)
(* weight changes.                                                         *)

\* Every set of numbers has a least element.
LEMMA LeastNumber ==
  ASSUME NEW T \in SUBSET Nat, T # {}
  PROVE  \E n \in T : \A k \in T : n <= k
<1>1. IsWellFoundedOn(OpToRel(<, Nat), Nat) BY NatLessThanWellFounded
<1>2. PICK n \in T : \A k \in T : ~ (<<k, n>> \in OpToRel(<, Nat))
      BY <1>1, WFMin
<1>3. \A k \in T : ~ (k < n) BY <1>2 DEF OpToRel
<1> QED BY <1>3

Pick(s) == CHOOSE x \in s : TRUE

\* it[s] is the sum of the weights of s, added up in the order of Pick.
AddsUp(S, w, it) ==
  /\ it \in [SUBSET S -> Int]
  /\ \A s \in SUBSET S :
       it[s] = IF s = {} THEN 0 ELSE w[Pick(s)] + it[s \ {Pick(s)}]

\* The number of elements of the parts of a finite set.
LEMMA PartSizes ==
  ASSUME NEW S, IsFiniteSet(S), NEW s \in SUBSET S
  PROVE  /\ IsFiniteSet(s) /\ Cardinality(s) \in Nat
         /\ Cardinality(s) <= Cardinality(S)
         /\ s # {} => /\ Pick(s) \in s
                      /\ s \ {Pick(s)} \in SUBSET S
                      /\ Cardinality(s \ {Pick(s)}) = Cardinality(s) - 1
<1>1. IsFiniteSet(s) /\ Cardinality(s) <= Cardinality(S) BY FS_Subset
<1>2. Cardinality(s) \in Nat BY <1>1, FS_CardinalityType
<1>3. ASSUME s # {} PROVE Pick(s) \in s BY <1>3 DEF Pick
<1> QED BY <1>1, <1>2, <1>3, FS_RemoveElement

\* Weights can be added up.
LEMMA SumExists ==
  ASSUME NEW S, IsFiniteSet(S), NEW w \in [S -> Int]
  PROVE  \E it : AddsUp(S, w, it)
<1> DEFINE Step(h, s) == IF s = {} THEN 0 ELSE w[Pick(s)] + h[s \ {Pick(s)}]
           Good(k) == \E h \in [SUBSET S -> Int] : \A s \in SUBSET S :
                        Cardinality(s) <= k => h[s] = Step(h, s)
           Bad == {k \in Nat : ~ Good(k)}
<1>1. Good(0)
  <2> DEFINE z == [s \in SUBSET S |-> 0]
  <2>1. ASSUME NEW s \in SUBSET S, Cardinality(s) <= 0 PROVE s = {}
    <3>1. IsFiniteSet(s) /\ Cardinality(s) \in Nat BY PartSizes
    <3>2. Cardinality(s) = 0 BY <2>1, <3>1
    <3> QED BY <3>1, <3>2, FS_EmptySet
  <2>2. z \in [SUBSET S -> Int] /\ \A s \in SUBSET S : z[s] = 0 OBVIOUS
  <2> HIDE DEF z
  <2> QED BY <2>1, <2>2
<1>2. ASSUME NEW k \in Nat, Good(k) PROVE Good(k + 1)
  <2>1. PICK h \in [SUBSET S -> Int] : \A s \in SUBSET S :
               Cardinality(s) <= k => h[s] = Step(h, s)
        BY <1>2
  <2> DEFINE g == [s \in SUBSET S |-> IF Cardinality(s) <= k THEN h[s] ELSE Step(h, s)]
  <2>2. ASSUME NEW s \in SUBSET S PROVE Step(h, s) \in Int
    <3>1. CASE s = {} BY <3>1
    <3>2. CASE s # {}
      <4>1. w[Pick(s)] \in Int /\ h[s \ {Pick(s)}] \in Int BY <3>2, PartSizes
      <4> QED BY <3>2, <4>1
    <3> QED BY <3>1, <3>2
  <2>3. g \in [SUBSET S -> Int] BY <2>2
  <2>4. ASSUME NEW s \in SUBSET S, Cardinality(s) <= k + 1
        PROVE  g[s] = Step(g, s)
    <3>1. g[s] = Step(h, s) BY <2>1
    <3>2. CASE s = {} BY <3>1, <3>2
    <3>3. CASE s # {}
      <4>1. s \ {Pick(s)} \in SUBSET S /\ Cardinality(s \ {Pick(s)}) <= k
            BY <2>4, <3>3, PartSizes
      <4>2. g[s \ {Pick(s)}] = h[s \ {Pick(s)}] BY <4>1
      <4> QED BY <3>1, <3>3, <4>2
    <3> QED BY <3>2, <3>3
  <2> QED BY <2>3, <2>4
<1>3. Bad = {}
  <2> SUFFICES ASSUME Bad # {} PROVE FALSE OBVIOUS
  <2>1. PICK n \in Bad : \A k \in Bad : n <= k BY LeastNumber
  <2>2. n \in Nat /\ n # 0 BY <1>1
  <2> HIDE DEF Good
  <2>3. n - 1 \in Nat /\ n - 1 \notin Bad
    <3>1. n - 1 \in Nat /\ ~ (n <= n - 1) BY <2>2
    <3> HIDE DEF Bad
    <3> QED BY <2>1, <3>1
  <2>4. Good(n - 1) BY <2>3
  <2>5. Good((n - 1) + 1) BY <1>2, <2>3, <2>4
  <2>6. (n - 1) + 1 = n OBVIOUS
  <2> QED BY <2>5, <2>6
<1>4. Cardinality(S) \in Nat BY FS_CardinalityType
<1>5. Good(Cardinality(S)) BY <1>3, <1>4
<1>6. PICK h \in [SUBSET S -> Int] : \A s \in SUBSET S :
             Cardinality(s) <= Cardinality(S) => h[s] = Step(h, s)
      BY <1>5
<1>7. AddsUp(S, w, h) BY <1>6, PartSizes DEF AddsUp
<1> QED BY <1>7

\* Changing one weight changes the sums it is part of by the difference.
LEMMA SumChanges ==
  ASSUME NEW S, IsFiniteSet(S), NEW w \in [S -> Int], NEW v \in [S -> Int],
         NEW d \in S, \A x \in S \ {d} : v[x] = w[x],
         NEW i, AddsUp(S, w, i), NEW j, AddsUp(S, v, j)
  PROVE  j[S] = i[S] + v[d] - w[d]
<1> DEFINE Differs(s) == j[s] = i[s] + IF d \in s THEN v[d] - w[d] ELSE 0
           Bad == {n \in Nat : \E s \in SUBSET S : ~ Differs(s) /\ n = Cardinality(s)}
<1>1. i \in [SUBSET S -> Int] /\ j \in [SUBSET S -> Int] BY DEF AddsUp
<1>2. Bad \subseteq Nat OBVIOUS
<1> HIDE DEF Differs
<1>3. Bad = {}
  <2> SUFFICES ASSUME Bad # {} PROVE FALSE OBVIOUS
  <2>1. PICK n \in Bad : \A k \in Bad : n <= k BY <1>2, LeastNumber
  <2>2. PICK s \in SUBSET S : ~ Differs(s) /\ n = Cardinality(s) BY <2>1
  <2>3. CASE s = {}
    <3>1. i[{}] = 0 /\ j[{}] = 0 BY DEF AddsUp
    <3> QED BY <2>2, <2>3, <3>1 DEF Differs
  <2>4. CASE s # {}
    <3> DEFINE x == Pick(s)
    <3>1. /\ x \in s /\ s \ {x} \in SUBSET S
          /\ Cardinality(s \ {x}) = Cardinality(s) - 1 /\ Cardinality(s) \in Nat
          BY <2>4, PartSizes
    <3>2. Differs(s \ {x})
      <4> SUFFICES ASSUME ~ Differs(s \ {x}) PROVE FALSE OBVIOUS
      <4>0. Cardinality(s \ {x}) \in Nat BY <3>1, PartSizes
      <4>1. Cardinality(s \ {x}) \in Bad BY <3>1, <4>0
      <4>2. n <= Cardinality(s \ {x}) BY <2>1, <4>1
      <4> QED BY <2>2, <3>1, <4>2
    <3>3. i[s] = w[x] + i[s \ {x}] /\ j[s] = v[x] + j[s \ {x}]
          BY <2>4 DEF AddsUp
    <3> HIDE DEF x
    <3>4. /\ i[s \ {x}] \in Int /\ j[s \ {x}] \in Int
          /\ w[x] \in Int /\ v[x] \in Int /\ w[d] \in Int /\ v[d] \in Int
          BY <1>1, <3>1
    <3>5. CASE x = d
      <4>1. j[s] = i[s] + (v[d] - w[d])
            BY <3>1, <3>2, <3>3, <3>4, <3>5 DEF Differs
      <4> QED BY <2>2, <3>1, <3>5, <4>1 DEF Differs
    <3>6. CASE x # d
      <4>1. v[x] = w[x] /\ (d \in s <=> d \in s \ {x}) BY <3>1, <3>6
      <4> QED BY <2>2, <3>1, <3>2, <3>3, <3>4, <4>1 DEF Differs
    <3> QED BY <3>5, <3>6
  <2> QED BY <2>3, <2>4
<1>4. Differs(S)
  <2>1. Cardinality(S) \in Nat /\ S \in SUBSET S BY FS_CardinalityType
  <2> QED BY <1>3, <2>1
<1>5. i[S] \in Int /\ j[S] \in Int /\ w[d] \in Int /\ v[d] \in Int BY <1>1
<1> QED BY <1>4, <1>5 DEF Differs

\* SumFunction adds up.
LEMMA SumIs ==
  ASSUME NEW S, IsFiniteSet(S), NEW w \in [S -> Int]
  PROVE  \E it : AddsUp(S, w, it) /\ SumFunction(w) = it[S]
<1> DEFINE Folds(it) == it = [s \in SUBSET S |->
             IF s = {} THEN 0
             ELSE w[CHOOSE x \in s : TRUE] + it[s \ {CHOOSE x \in s : TRUE}]]
           It == CHOOSE it : Folds(it)
<1>1. SumFunction(w) = It[S]
      BY DEF SumFunction, SumFunctionOnSet, FoldFunctionOnSet, MapThenFoldSet
<1>2. PICK h : AddsUp(S, w, h) BY SumExists
<1>3. Folds(h)
  <2>1. h = [s \in SUBSET S |-> h[s]] BY <1>2 DEF AddsUp
  <2>2. \A s \in SUBSET S : s # {} => Pick(s) \in S BY DEF Pick
  <2>3. \A s \in SUBSET S : h[s] = IF s = {} THEN 0 ELSE w[Pick(s)] + h[s \ {Pick(s)}]
        BY <1>2, <2>2 DEF AddsUp
  <2> QED BY <2>1, <2>3 DEF Pick
<1>4. Folds(It)
  <2> HIDE DEF Folds
  <2> QED BY <1>3, Zenon
<1>5. \A s \in SUBSET S : It[s] = h[s]
  <2> DEFINE Bad == {n \in Nat : \E s \in SUBSET S : It[s] # h[s] /\ n = Cardinality(s)}
  <2>1. \A s \in SUBSET S :
          /\ It[s] = IF s = {} THEN 0 ELSE w[Pick(s)] + It[s \ {Pick(s)}]
          /\ h[s] = IF s = {} THEN 0 ELSE w[Pick(s)] + h[s \ {Pick(s)}]
    <3> HIDE DEF It
    <3> QED BY <1>3, <1>4 DEF Pick
  <2> HIDE DEF It, Folds
  <2>2. Bad = {}
    <3> SUFFICES ASSUME Bad # {} PROVE FALSE OBVIOUS
    <3>1. PICK n \in Bad : \A k \in Bad : n <= k BY LeastNumber
    <3>2. PICK s \in SUBSET S : It[s] # h[s] /\ n = Cardinality(s) BY <3>1
    <3>3. s # {} BY <2>1, <3>2
    <3>4. /\ s \ {Pick(s)} \in SUBSET S
          /\ Cardinality(s \ {Pick(s)}) = n - 1
          BY <3>2, <3>3, PartSizes
    <3>5. It[s \ {Pick(s)}] # h[s \ {Pick(s)}] BY <2>1, <3>2, <3>3
    <3>6. n - 1 \in Nat
      <4>1. Cardinality(s \ {Pick(s)}) \in Nat BY <3>4, PartSizes
      <4> QED BY <3>4, <4>1
    <3>7. n - 1 \in Bad BY <3>4, <3>5, <3>6
    <3> QED BY <3>1, <3>7
  <2> QED
    <3> SUFFICES ASSUME NEW s \in SUBSET S, It[s] # h[s] PROVE FALSE OBVIOUS
    <3>1. Cardinality(s) \in Nat BY PartSizes
    <3> QED BY <2>2, <3>1
<1> QED BY <1>1, <1>2, <1>5

\* A sum is a number, and changes with each of its terms.
LEMMA SumType ==
  ASSUME NEW S, IsFiniteSet(S), NEW w \in [S -> Int]
  PROVE  SumFunction(w) \in Int
<1>1. PICK it : AddsUp(S, w, it) /\ SumFunction(w) = it[S] BY SumIs
<1> QED BY <1>1 DEF AddsUp

LEMMA SumOfOneChange ==
  ASSUME NEW S, IsFiniteSet(S), NEW w \in [S -> Int], NEW v \in [S -> Int],
         NEW d \in S, \A x \in S \ {d} : v[x] = w[x]
  PROVE  SumFunction(v) = SumFunction(w) + v[d] - w[d]
<1>1. PICK i : AddsUp(S, w, i) /\ SumFunction(w) = i[S] BY SumIs
<1>2. PICK j : AddsUp(S, v, j) /\ SumFunction(v) = j[S] BY SumIs
<1> QED BY <1>1, <1>2, SumChanges

LEMMA SumOfNothing ==
  ASSUME NEW S, IsFiniteSet(S), NEW w \in [S -> Int], \A x \in S : w[x] = 0
  PROVE  SumFunction(w) = 0
<1>1. PICK i : AddsUp(S, w, i) /\ SumFunction(w) = i[S] BY SumIs
<1> DEFINE Bad == {n \in Nat : \E s \in SUBSET S : i[s] # 0 /\ n = Cardinality(s)}
<1>2. Bad = {}
  <2> SUFFICES ASSUME Bad # {} PROVE FALSE OBVIOUS
  <2>1. PICK n \in Bad : \A k \in Bad : n <= k BY LeastNumber
  <2>2. PICK s \in SUBSET S : i[s] # 0 /\ n = Cardinality(s) BY <2>1
  <2>3. s # {} BY <1>1, <2>2 DEF AddsUp
  <2>4. /\ Pick(s) \in s /\ s \ {Pick(s)} \in SUBSET S
        /\ Cardinality(s \ {Pick(s)}) = n - 1
        BY <2>2, <2>3, PartSizes
  <2>5. i[s] = i[s \ {Pick(s)}] /\ i[s \ {Pick(s)}] \in Int
    <3>1. i[s] = w[Pick(s)] + i[s \ {Pick(s)}] /\ i[s \ {Pick(s)}] \in Int
          BY <1>1, <2>3, <2>4 DEF AddsUp
    <3>2. w[Pick(s)] = 0 BY <2>4
    <3> QED BY <3>1, <3>2
  <2>6. n - 1 \in Nat
    <3> HIDE DEF Bad
    <3>1. Cardinality(s \ {Pick(s)}) \in Nat BY <2>4, PartSizes
    <3> QED BY <2>4, <3>1
  <2>7. n - 1 \in Bad BY <2>2, <2>4, <2>5, <2>6
  <2> QED BY <2>1, <2>7
<1>3. Cardinality(S) \in Nat /\ S \in SUBSET S BY PartSizes
<1> QED BY <1>1, <1>2, <1>3

\* Larger terms, larger sum.
LEMMA SumGrows ==
  ASSUME NEW S, IsFiniteSet(S), NEW w \in [S -> Int], NEW v \in [S -> Int],
         \A x \in S : w[x] <= v[x]
  PROVE  SumFunction(w) <= SumFunction(v)
<1>1. PICK i : AddsUp(S, w, i) /\ SumFunction(w) = i[S] BY SumIs
<1>2. PICK j : AddsUp(S, v, j) /\ SumFunction(v) = j[S] BY SumIs
<1> DEFINE Bad == {n \in Nat : \E s \in SUBSET S : ~(i[s] <= j[s]) /\ n = Cardinality(s)}
<1>3. Bad = {}
  <2> SUFFICES ASSUME Bad # {} PROVE FALSE OBVIOUS
  <2>1. PICK n \in Bad : \A k \in Bad : n <= k BY LeastNumber
  <2>2. PICK s \in SUBSET S : ~(i[s] <= j[s]) /\ n = Cardinality(s) BY <2>1
  <2>3. CASE s = {}
    <3>1. i[{}] = 0 /\ j[{}] = 0 BY <1>1, <1>2 DEF AddsUp
    <3> QED BY <2>2, <2>3, <3>1
  <2>4. CASE s # {}
    <3>1. /\ Pick(s) \in s /\ s \ {Pick(s)} \in SUBSET S
          /\ Cardinality(s \ {Pick(s)}) = n - 1
          BY <2>2, <2>4, PartSizes
    <3>2. n - 1 \in Nat
      <4>1. Cardinality(s \ {Pick(s)}) \in Nat BY <3>1, PartSizes
      <4> QED BY <3>1, <4>1
    <3>3. i[s \ {Pick(s)}] <= j[s \ {Pick(s)}]
      <4> SUFFICES ASSUME ~(i[s \ {Pick(s)}] <= j[s \ {Pick(s)}]) PROVE FALSE OBVIOUS
      <4>1. n - 1 \in Bad BY <3>1, <3>2
      <4> QED BY <2>1, <3>2, <4>1
    <3>4. /\ i[s] = w[Pick(s)] + i[s \ {Pick(s)}]
          /\ j[s] = v[Pick(s)] + j[s \ {Pick(s)}]
          /\ i[s \ {Pick(s)}] \in Int /\ j[s \ {Pick(s)}] \in Int
          BY <1>1, <1>2, <2>4, <3>1 DEF AddsUp
    <3>5. w[Pick(s)] <= v[Pick(s)] /\ w[Pick(s)] \in Int /\ v[Pick(s)] \in Int
          BY <3>1
    <3> QED BY <2>2, <3>3, <3>4, <3>5
  <2> QED BY <2>3, <2>4
<1>4. Cardinality(S) \in Nat /\ S \in SUBSET S BY PartSizes
<1> QED BY <1>1, <1>2, <1>3, <1>4

\* A sum of terms that are all the same.
LEMMA SumOfEquals ==
  ASSUME NEW S, IsFiniteSet(S), NEW b \in Nat
  PROVE  SumFunction([x \in S |-> b]) = Cardinality(S) * b
<1> DEFINE w == [x \in S |-> b]
<1>0. w \in [S -> Int] OBVIOUS
<1>1. PICK i : AddsUp(S, w, i) /\ SumFunction(w) = i[S] BY <1>0, SumIs
<1> DEFINE Bad == {n \in Nat : \E s \in SUBSET S : i[s] # n * b /\ n = Cardinality(s)}
<1>2. Bad = {}
  <2> SUFFICES ASSUME Bad # {} PROVE FALSE OBVIOUS
  <2>1. PICK n \in Bad : \A k \in Bad : n <= k BY LeastNumber
  <2>2. PICK s \in SUBSET S : i[s] # n * b /\ n = Cardinality(s) BY <2>1
  <2>3. CASE s = {}
    <3>1. i[{}] = 0 /\ n = 0 BY <1>1, <2>2, <2>3, FS_EmptySet DEF AddsUp
    <3> QED BY <2>2, <2>3, <3>1
  <2>4. CASE s # {}
    <3>1. /\ Pick(s) \in s /\ s \ {Pick(s)} \in SUBSET S
          /\ Cardinality(s \ {Pick(s)}) = n - 1
          BY <2>2, <2>4, PartSizes
    <3>2. n - 1 \in Nat
      <4>1. Cardinality(s \ {Pick(s)}) \in Nat BY <3>1, PartSizes
      <4> QED BY <3>1, <4>1
    <3>3. i[s \ {Pick(s)}] = (n - 1) * b
      <4> SUFFICES ASSUME i[s \ {Pick(s)}] # (n - 1) * b PROVE FALSE OBVIOUS
      <4>1. n - 1 \in Bad BY <3>1, <3>2
      <4> QED BY <2>1, <3>2, <4>1
    <3>4. i[s] = w[Pick(s)] + i[s \ {Pick(s)}] BY <1>1, <2>4, <3>1 DEF AddsUp
    <3>5. w[Pick(s)] = b BY <3>1
    <3> HIDE DEF w
    <3>6. b + (n - 1) * b = n * b BY <3>2
    <3> QED BY <2>2, <3>3, <3>4, <3>5, <3>6
  <2> QED BY <2>3, <2>4
<1>3. Cardinality(S) \in Nat /\ S \in SUBSET S BY PartSizes
<1> QED BY <1>1, <1>2, <1>3

-----------------------------------------------------------------------------
(* How far the writers can overshoot a quota in bytes.  Between the check  *)
(* and the end of its operation a process has promised itself the bytes of *)
(* its message; what the file counts and what is promised stay within the  *)
(* quota and one message for every process but one.                        *)

Weight(m) == IF m \in Msgs THEN Size[m] ELSE 0

\* The answer of maildir_checkquota is fixed: the message will be added.
MayAdd(l, o, m, inf) ==
  /\ l \in {"check", "restat", "verdict"} /\ o \in Adds /\ m \in Msgs
  /\ ~inf.recalculation_needed
  /\ Fits(Bytes(Plus(inf.size, m, 1)), inf.quota.nbytes)

\* The bytes that a process may still add to the file, or has taken off it
\* for a message that is still there.
OutOf(l, o, m, inf) ==
  IF \/ MayAdd(l, o, m, inf)
     \/ o = "deliver" /\ l = "link"
     \/ o \in Adds /\ l = "record"
     \/ o = "delete" /\ l = "remove"
  THEN Weight(m) ELSE 0

\* The bytes by which the maildir is ahead of the file.
AheadOf(l, o, m) ==
  CASE l = "record" /\ o = "deliver" -> Weight(m)
    [] l = "link" /\ o # "deliver" -> -Weight(m)
    [] l = "remove" /\ o = "delete" -> Weight(m)
    [] OTHER -> 0

Out(p) == OutOf(pc[p], op[p], msg[p], info[p])
Ahead(p) == AheadOf(pc[p], op[p], msg[p])

Outs == [p \in Procs |-> Out(p)]
Aheads == [p \in Procs |-> Ahead(p)]
StoredNow == [m \in Msgs |-> Stored(m)]

InFile == Bytes(file[link].account)
Allowed == file[link].quota.nbytes + (Cardinality(Procs) - 1) * Largest

Books == InFile + SumFunction(Aheads) = Bytes(StoredNow)

Promised == file[link].quota.nbytes > 0 => InFile + SumFunction(Outs) <= Allowed

\* Who found a total that needs no recount compares it with the quota that is
\* in force.
Compares(l, inf) ==
  /\ l \in {"check", "restat", "verdict"} /\ ~inf.recalculation_needed =>
       inf.quota = file[link].quota
  /\ l \in {"restat", "verdict"} => ~inf.recalculation_needed

QuotaKnown(p) == Compares(pc[p], info[p])

Over == Books /\ Promised /\ \A p \in Procs : QuotaKnown(p)

NothingForced == \A p \in Procs : op[p] # "forced"

OverInv == LedgerInv /\ link # None /\ NothingForced /\ (clean => Over)

\* No message is larger than Largest.
LEMMA LargestIs ==
  /\ Largest \in Nat
  /\ \A m \in Msgs : Size[m] \in Nat /\ Size[m] <= Largest
<1>1. Size \in [Msgs -> Nat] /\ IsFiniteSet(Msgs) BY MsgsAssumption
<1>2. Sizes \in SUBSET Nat /\ 0 \in Sizes BY <1>1 DEF Sizes
<1>3. IsFiniteSet(Sizes)
  <2>1. Size \in Surjection(Msgs, {Size[m] : m \in Msgs}) BY <1>1 DEF Surjection
  <2>2. IsFiniteSet({Size[m] : m \in Msgs}) BY <1>1, <2>1, FS_Surjection
  <2> QED BY <2>2, FS_AddElement DEF Sizes
<1> DEFINE Bad == {k \in Nat : \E s \in SUBSET Sizes :
                     /\ s # {} /\ k = Cardinality(s)
                     /\ ~ \E n \in s : \A x \in s : x <= n}
<1>4. Bad = {}
  <2> SUFFICES ASSUME Bad # {} PROVE FALSE OBVIOUS
  <2>1. PICK k \in Bad : \A j \in Bad : k <= j BY LeastNumber
  <2>2. PICK s \in SUBSET Sizes : /\ s # {} /\ k = Cardinality(s)
                                  /\ ~ \E n \in s : \A x \in s : x <= n
        BY <2>1
  <2>3. /\ Pick(s) \in s /\ s \ {Pick(s)} \in SUBSET Sizes
        /\ Cardinality(s \ {Pick(s)}) = k - 1
        BY <1>3, <2>2, PartSizes
  <2>4. k - 1 \in Nat /\ k \in Nat
    <3>1. Cardinality(s \ {Pick(s)}) \in Nat BY <1>3, <2>3, PartSizes
    <3> QED BY <2>3, <3>1
  <2>5. k - 1 \notin Bad BY <2>1, <2>4
  <2>6. s \ {Pick(s)} # {} => \E n \in s \ {Pick(s)} : \A x \in s \ {Pick(s)} : x <= n
        BY <2>3, <2>4, <2>5
  <2>7. \A x \in s : x \in Nat BY <1>2
  <2>8. CASE s \ {Pick(s)} = {}
    <3>1. \A x \in s : x = Pick(s) BY <2>8
    <3> QED BY <2>2, <2>3, <2>7, <3>1
  <2>9. CASE s \ {Pick(s)} # {}
    <3>1. PICK n \in s \ {Pick(s)} : \A x \in s \ {Pick(s)} : x <= n BY <2>6, <2>9
    <3>2. \A x \in s : x <= n \/ x = Pick(s) BY <3>1
    <3>3. n \in Nat /\ Pick(s) \in Nat BY <2>3, <2>7
    <3>4. CASE Pick(s) <= n BY <2>2, <3>1, <3>2, <3>4
    <3>5. CASE n <= Pick(s)
      <4>1. \A x \in s : x <= Pick(s) BY <2>7, <3>2, <3>3, <3>5
      <4> QED BY <2>2, <2>3, <4>1
    <3> QED BY <3>3, <3>4, <3>5
  <2> QED BY <2>8, <2>9
<1>5. \E n \in Sizes : \A x \in Sizes : x <= n
  <2>1. Cardinality(Sizes) \in Nat BY <1>3, FS_CardinalityType
  <2> QED BY <1>2, <1>4, <2>1
<1>6. Largest \in Sizes /\ \A x \in Sizes : x <= Largest
      BY <1>5 DEF Largest
<1> QED BY <1>1, <1>2, <1>6 DEF Sizes

LEMMA WeightType == \A m : Weight(m) \in Nat /\ Weight(m) <= Largest
BY LargestIs DEF Weight

\* The bytes of an account, and of an account with one line more.
LEMMA BytesType == ASSUME NEW a \in Accounts PROVE Bytes(a) \in Int
<1> DEFINE w == [m \in Msgs |-> Size[m] * a[m]]
<1>1. IsFiniteSet(Msgs) /\ Size \in [Msgs -> Nat] BY MsgsAssumption
<1>2. w \in [Msgs -> Int]
  <2>1. ASSUME NEW m \in Msgs PROVE Size[m] * a[m] \in Int
    <3>1. Size[m] \in Int /\ a[m] \in Int BY <1>1 DEF Accounts
    <3> QED BY <3>1
  <2> QED BY <2>1
<1> HIDE DEF w
<1>3. SumFunction(w) \in Int BY <1>1, <1>2, SumType
<1> QED BY <1>3 DEF Bytes, w

LEMMA BytesChange ==
  ASSUME NEW a \in Accounts, NEW b \in Accounts, NEW m \in Msgs, NEW n \in Int,
         b[m] = a[m] + n, \A x \in Msgs \ {m} : b[x] = a[x]
  PROVE  Bytes(b) = Bytes(a) + Size[m] * n
<1> DEFINE w == [x \in Msgs |-> Size[x] * a[x]]
           v == [x \in Msgs |-> Size[x] * b[x]]
<1>1. IsFiniteSet(Msgs) /\ Size \in [Msgs -> Nat] BY MsgsAssumption
<1>2. \A x \in Msgs : Size[x] \in Int /\ a[x] \in Int /\ b[x] \in Int
      BY <1>1 DEF Accounts
<1>3. w \in [Msgs -> Int] /\ v \in [Msgs -> Int]
  <2>1. \A x \in Msgs : Size[x] * a[x] \in Int /\ Size[x] * b[x] \in Int BY <1>2
  <2> QED BY <2>1
<1>4. \A x \in Msgs \ {m} : v[x] = w[x] OBVIOUS
<1>5. v[m] = Size[m] * b[m] /\ w[m] = Size[m] * a[m] OBVIOUS
<1> HIDE DEF w, v
<1>6. SumFunction(v) = SumFunction(w) + v[m] - w[m]
      BY <1>1, <1>3, <1>4, SumOfOneChange
<1>7. SumFunction(w) \in Int BY <1>1, <1>3, SumType
<1>8. v[m] - w[m] = Size[m] * n
  <2>1. Size[m] * (a[m] + n) = Size[m] * a[m] + Size[m] * n BY <1>2
  <2>2. Size[m] * a[m] \in Int /\ Size[m] * n \in Int BY <1>2
  <2> QED BY <1>5, <2>1, <2>2
<1>9. v[m] \in Int /\ w[m] \in Int BY <1>3
<1>10. Bytes(b) = SumFunction(v) /\ Bytes(a) = SumFunction(w) BY DEF Bytes, v, w
<1>11. SumFunction(v) = SumFunction(w) + (v[m] - w[m]) BY <1>6, <1>7, <1>9
<1> QED BY <1>8, <1>10, <1>11

LEMMA PlusBytes ==
  ASSUME NEW a \in Accounts, NEW m \in Msgs, NEW n \in Int
  PROVE  /\ Plus(a, m, n) \in Accounts
         /\ Bytes(Plus(a, m, n)) = Bytes(a) + Size[m] * n
<1>1. Plus(a, m, n) \in Accounts BY PlusType
<1>2. /\ Plus(a, m, n)[m] = a[m] + n
      /\ \A x \in Msgs \ {m} : Plus(a, m, n)[x] = a[x]
      BY DEF Plus, Accounts
<1> QED BY <1>1, <1>2, BytesChange

\* What the invariant is about has its types.
NumbersOK ==
  /\ StoredNow \in Accounts /\ Bytes(StoredNow) \in Int
  /\ link # None => /\ link \in Inodes /\ file[link] \in Files
                    /\ file[link].account \in Accounts /\ InFile \in Int
                    /\ file[link].quota.nbytes \in Nat
  /\ Outs \in [Procs -> Int] /\ Aheads \in [Procs -> Int]
  /\ \A p \in Procs : /\ Out(p) \in Nat /\ Out(p) <= Largest
                      /\ Ahead(p) \in Int /\ Ahead(p) <= Out(p)

LEMMA NumbersType == TypeInv => NumbersOK
<1> SUFFICES ASSUME TypeInv PROVE NumbersOK
    OBVIOUS
<1>1. SharedOK /\ LocalOK BY TypeSplit DEF TypeInv
<1>2. StoredNow \in Accounts BY DEF StoredNow, Stored, Accounts
<1>3. ASSUME link # None
      PROVE  /\ link \in Inodes /\ file[link] \in Files
             /\ file[link].account \in Accounts
             /\ file[link].quota.nbytes \in Nat
  <2>1. link \in Inodes /\ file[link] \in Files BY <1>1, <1>3 DEF SharedOK
  <2>2. file[link].account \in Accounts /\ file[link].quota \in QuotaValues
        BY <2>1 DEF Files
  <2>3. \A x \in QuotaValues : x.nbytes \in Nat
        BY QuotasAssumption DEF QuotaValues, NoQuota
  <2> QED BY <2>1, <2>2, <2>3
<1>4. \A m : Weight(m) \in Nat /\ Weight(m) <= Largest BY WeightType
<1>5. Largest \in Nat BY LargestIs
<1>6. ASSUME NEW p \in Procs
      PROVE  /\ Out(p) \in Nat /\ Out(p) <= Largest
             /\ Ahead(p) \in Int /\ Ahead(p) <= Out(p)
  <2>1. Out(p) \in {0, Weight(msg[p])} BY DEF Out, OutOf
  <2>2. /\ Ahead(p) \in {0, Weight(msg[p]), -Weight(msg[p])}
        /\ Ahead(p) = Weight(msg[p]) => Out(p) = Weight(msg[p]) \/ Ahead(p) = 0
    <3>1. CASE pc[p] = "record" /\ op[p] = "deliver"
          BY <3>1 DEF Ahead, AheadOf, Out, OutOf, Adds
    <3>2. CASE pc[p] = "link" /\ op[p] # "deliver"
      <4>1. Ahead(p) = -Weight(msg[p]) BY <3>2 DEF Ahead, AheadOf
      <4> QED BY <1>4, <4>1
    <3>3. CASE pc[p] = "remove" /\ op[p] = "delete"
          BY <3>3 DEF Ahead, AheadOf, Out, OutOf, Adds
    <3>4. CASE /\ ~(pc[p] = "record" /\ op[p] = "deliver")
               /\ ~(pc[p] = "link" /\ op[p] # "deliver")
               /\ ~(pc[p] = "remove" /\ op[p] = "delete")
          BY <3>4 DEF Ahead, AheadOf
    <3> QED BY <3>1, <3>2, <3>3, <3>4
  <2> HIDE DEF Weight
  <2>3. Weight(msg[p]) \in Nat /\ Weight(msg[p]) <= Largest BY <1>4
  <2> QED BY <1>5, <2>1, <2>2, <2>3
<1>7. Outs \in [Procs -> Int] /\ Aheads \in [Procs -> Int]
      BY <1>6 DEF Outs, Aheads
<1>8. Bytes(StoredNow) \in Int /\ (link # None => InFile \in Int)
      BY <1>2, <1>3, BytesType DEF InFile
<1> QED BY <1>2, <1>3, <1>6, <1>7, <1>8 DEF NumbersOK

LEMMA NumbersTypeNext == TypeInv' => NumbersOK'
BY NumbersType, PTL

\* What the others have promised themselves, and one process within the quota.
OneFits ==
  \A p \in Procs :
    SumFunction(Outs) <= Out(p) + (Cardinality(Procs) - 1) * Largest

LEMMA OneFitsLemma == TypeInv => OneFits
<1> SUFFICES ASSUME TypeInv, NEW p \in Procs
             PROVE  SumFunction(Outs) <= Out(p) + (Cardinality(Procs) - 1) * Largest
    BY DEF OneFits
<1>1. /\ Outs \in [Procs -> Int] /\ IsFiniteSet(Procs)
      /\ \A q \in Procs : Out(q) \in Nat /\ Out(q) <= Largest
      BY NumbersType, ProcsAssumption DEF NumbersOK
<1>2. Largest \in Nat /\ Cardinality(Procs) \in Nat
      BY LargestIs, ProcsAssumption, FS_CardinalityType
<1> DEFINE all == [q \in Procs |-> Largest]
           v == [q \in Procs |-> IF q = p THEN Out(p) ELSE Largest]
<1>3. /\ all \in [Procs -> Int] /\ v \in [Procs -> Int]
      /\ v[p] = Out(p) /\ all[p] = Largest
      /\ \A q \in Procs \ {p} : v[q] = all[q]
      /\ \A q \in Procs : Outs[q] <= v[q]
      BY <1>1, <1>2 DEF Outs
<1>4. SumFunction(all) = Cardinality(Procs) * Largest
      BY <1>1, <1>2, SumOfEquals
<1> HIDE DEF all, v
<1>5. SumFunction(v) = SumFunction(all) + v[p] - all[p]
      BY <1>1, <1>3, SumOfOneChange
<1>6. SumFunction(Outs) <= SumFunction(v) BY <1>1, <1>3, SumGrows
<1>7. SumFunction(Outs) \in Int /\ SumFunction(v) \in Int BY <1>1, <1>3, SumType
<1>8. (Cardinality(Procs) - 1) * Largest = Cardinality(Procs) * Largest - Largest
      BY <1>2
<1>9. Cardinality(Procs) * Largest \in Int BY <1>2
<1>10. SumFunction(v) = Cardinality(Procs) * Largest + Out(p) - Largest
       BY <1>3, <1>4, <1>5
<1>11. SumFunction(v) = Out(p) + (Cardinality(Procs) * Largest - Largest)
       BY <1>1, <1>2, <1>9, <1>10
<1> QED BY <1>6, <1>8, <1>11

LEMMA OneFitsNext == TypeInv' => OneFits'
BY OneFitsLemma, PTL

\* A step of one process keeps the books if it says what it did to the file
\* and to the maildir, and keeps the promise if it takes no more than it had
\* promised itself, or fits.
LEMMA Carry ==
  ASSUME TypeInv, TypeInv', Books, Promised, NEW p \in Procs, StepOf(p),
         link # None, link' # None, file'[link'].quota = file[link].quota,
         NEW dA \in Int, NEW dS \in Int,
         InFile' = InFile + dA, Bytes(StoredNow)' = Bytes(StoredNow) + dS,
         Ahead(p)' = Ahead(p) + dS - dA,
         \/ Out(p)' + dA <= Out(p)
         \/ file[link].quota.nbytes > 0 =>
              InFile' + Out(p)' <= file[link].quota.nbytes
  PROVE  Books' /\ Promised'
<1>1. /\ Outs \in [Procs -> Int] /\ Aheads \in [Procs -> Int]
      /\ InFile \in Int /\ Bytes(StoredNow) \in Int
      /\ file[link].quota.nbytes \in Nat
      /\ Out(p) \in Nat /\ Ahead(p) \in Int
      BY NumbersType DEF NumbersOK
<1>2. /\ Outs' \in [Procs -> Int] /\ Aheads' \in [Procs -> Int]
      /\ InFile' \in Int /\ Out(p)' \in Nat
      BY NumbersTypeNext DEF NumbersOK
<1>3. \A q \in Procs \ {p} : Out(q)' = Out(q) /\ Ahead(q)' = Ahead(q)
      BY DEF StepOf, Out, Ahead
<1>4. /\ \A q \in Procs \ {p} : Outs'[q] = Outs[q] /\ Aheads'[q] = Aheads[q]
      /\ Outs[p] = Out(p) /\ Aheads[p] = Ahead(p)
      /\ Outs'[p] = Out(p)' /\ Aheads'[p] = Ahead(p)'
      BY <1>3 DEF Outs, Aheads
<1>5. /\ IsFiniteSet(Procs) /\ Largest \in Nat /\ Cardinality(Procs) \in Nat
      BY ProcsAssumption, LargestIs, FS_CardinalityType
<1>6. /\ SumFunction(Outs') = SumFunction(Outs) + Out(p)' - Out(p)
      /\ SumFunction(Aheads') = SumFunction(Aheads) + Ahead(p)' - Ahead(p)
  <2>1. SumFunction(Outs') = SumFunction(Outs) + Outs'[p] - Outs[p]
        BY <1>1, <1>2, <1>4, <1>5, SumOfOneChange
  <2>2. SumFunction(Aheads') = SumFunction(Aheads) + Aheads'[p] - Aheads[p]
        BY <1>1, <1>2, <1>4, <1>5, SumOfOneChange
  <2> QED BY <1>4, <2>1, <2>2
<1>7. /\ SumFunction(Outs) \in Int /\ SumFunction(Aheads) \in Int
      /\ SumFunction(Outs') \in Int
      BY <1>1, <1>2, <1>5, SumType
<1>8. Books'
  <2>1. SumFunction(Aheads') = SumFunction(Aheads) + dS - dA
        BY <1>1, <1>6, <1>7
  <2>2. InFile + SumFunction(Aheads) = Bytes(StoredNow) BY DEF Books
  <2>3. InFile' + SumFunction(Aheads') = Bytes(StoredNow)'
        BY <1>1, <1>7, <2>1, <2>2
  <2> QED BY <2>3 DEF Books
<1>9. Allowed' = Allowed BY DEF Allowed
<1>10. ASSUME file[link].quota.nbytes > 0
       PROVE  InFile' + SumFunction(Outs') <= Allowed
  <2>0. Allowed \in Int
    <3>1. (Cardinality(Procs) - 1) * Largest \in Int BY <1>5
    <3> QED BY <1>1, <3>1 DEF Allowed
  <2>1. CASE Out(p)' + dA <= Out(p)
    <3>1. InFile + SumFunction(Outs) <= Allowed BY <1>10 DEF Promised
    <3> QED BY <1>1, <1>2, <1>6, <1>7, <2>0, <2>1, <3>1
  <2>2. CASE InFile' + Out(p)' <= file[link].quota.nbytes
    <3>1. SumFunction(Outs') <= Out(p)' + (Cardinality(Procs) - 1) * Largest
          BY OneFitsNext DEF OneFits
    <3>2. (Cardinality(Procs) - 1) * Largest \in Int BY <1>5
    <3> QED BY <1>1, <1>2, <1>7, <2>2, <3>1, <3>2 DEF Allowed
  <2> QED BY <1>10, <2>1, <2>2
<1>11. Promised' BY <1>9, <1>10 DEF Promised
<1> QED BY <1>8, <1>11

\* The rest of the invariant, when a step says that much.
LEMMA OverByOne ==
  ASSUME TypeInv, TypeInv', Over, NEW p \in Procs, StepOf(p),
         link # None, link' # None, file'[link'].quota = file[link].quota,
         NEW dA \in Int, NEW dS \in Int,
         InFile' = InFile + dA, Bytes(StoredNow)' = Bytes(StoredNow) + dS,
         Ahead(p)' = Ahead(p) + dS - dA,
         \/ Out(p)' + dA <= Out(p)
         \/ file[link].quota.nbytes > 0 =>
              InFile' + Out(p)' <= file[link].quota.nbytes,
         QuotaKnown(p)'
  PROVE  Over'
<1>1. Books' /\ Promised' BY Carry DEF Over
<1>2. ASSUME NEW q \in Procs \ {p} PROVE QuotaKnown(q)'
  <2>1. pc'[q] = pc[q] /\ info'[q] = info[q] BY DEF StepOf
  <2>2. QuotaKnown(q) BY DEF Over
  <2> QED BY <2>1, <2>2 DEF QuotaKnown, Compares
<1> QED BY <1>1, <1>2 DEF Over

\* A step that leaves the file and the directories alone.
LEMMA LookOver ==
  ASSUME TypeInv, TypeInv', Over, NEW p \in Procs, StepOf(p),
         link # None, UNCHANGED <<link, file>>,
         \A m \in Msgs : Stored(m)' = Stored(m),
         Ahead(p)' = Ahead(p),
         \/ Out(p)' <= Out(p)
         \/ file[link].quota.nbytes > 0 =>
              InFile + Out(p)' <= file[link].quota.nbytes,
         QuotaKnown(p)'
  PROVE  Over'
<1>1. InFile' = InFile BY DEF InFile
<1>2. StoredNow' = StoredNow BY DEF StoredNow
<1>3. /\ InFile \in Int /\ Bytes(StoredNow) \in Int /\ Ahead(p) \in Int
      /\ Out(p) \in Int
      BY NumbersType DEF NumbersOK
<1>4. Out(p)' \in Int BY NumbersTypeNext DEF NumbersOK
<1>5. Bytes(StoredNow)' = Bytes(StoredNow) + 0 BY <1>2, <1>3
<1>6. InFile' = InFile + 0 /\ Ahead(p)' = Ahead(p) + 0 - 0 BY <1>1, <1>3
<1>7. Out(p)' <= Out(p) => Out(p)' + 0 <= Out(p) BY <1>3, <1>4
<1> QED BY <1>1, <1>5, <1>6, <1>7, OverByOne

\* What the callers do with the result of maildir_checkquota.
LEMMA ReturnOver ==
  ASSUME TypeInv, TypeInv', Over, NEW p \in Procs, NEW rc,
         Return(p, rc, info[p]), UNCHANGED <<at, link, file>>, link # None,
         pc[p] \in {"check", "verdict", "install"},
         rc \in {"ok", "enospc", "eio"}, rc = "ok" \/ op[p] # "warn",
         op[p] # "forced", op'[p] # "forced",
         op[p] \in Adds /\ rc = "ok" => MayAdd(pc[p], op[p], msg[p], info[p])
  PROVE  Over'
<1>1. LocalOK BY TypeSplit DEF TypeInv
<1>2. Out(p) \in Nat /\ Ahead(p) = 0
      BY NumbersType DEF NumbersOK, Ahead, AheadOf
<1>3. \A m \in Msgs : Stored(m)' = Stored(m) BY DEF Stored
<1>4. ASSUME NEW l, NEW o, NEW m, NEW d, NEW q, NEW j, Becomes(p, l, o, m, d, q, j),
             AheadOf(l, o, m) = 0, OutOf(l, o, m, j) <= Out(p),
             l \notin {"check", "restat", "verdict"}
      PROVE  Over'
  <2>1. Ahead(p)' = 0 /\ Out(p)' <= Out(p)
        BY <1>4 DEF Becomes, Ahead, Out
  <2>2. QuotaKnown(p)' BY <1>4 DEF Becomes, QuotaKnown, Compares
  <2>3. StepOf(p) BY <1>4 DEF Becomes
  <2> QED BY <1>2, <1>3, <2>1, <2>2, <2>3, LookOver
<1>5. ASSUME NEW l \in {"idle", "open"}, NEW o, NEW m, NEW j
      PROVE  AheadOf(l, o, m) = 0 /\ OutOf(l, o, m, j) = 0
      BY DEF AheadOf, OutOf, MayAdd
<1>6. CASE Becomes(p, "idle", "set", None, AnyDir, NoQuota, NoInfo)
  <2>1. /\ AheadOf("idle", "set", None) = 0
        /\ OutOf("idle", "set", None, NoInfo) <= Out(p)
        BY <1>2, <1>5
  <2> QED BY <1>4, <1>6, <2>1
<1>7. CASE Becomes(p, "open", op[p], msg[p], dir[p], NoQuota, NoInfo)
  <2>1. /\ AheadOf("open", op[p], msg[p]) = 0
        /\ OutOf("open", op[p], msg[p], NoInfo) <= Out(p)
        BY <1>2, <1>5
  <2> QED BY <1>4, <1>7, <2>1
<1>8. CASE /\ Becomes(p, "record", op[p], msg[p], dir[p], newquota[p], info[p])
           /\ op[p] = "delete"
  <2>1. /\ AheadOf("record", op[p], msg[p]) = 0
        /\ OutOf("record", op[p], msg[p], info[p]) = 0
        BY <1>8 DEF AheadOf, OutOf, MayAdd, Adds
  <2>2. OutOf("record", op[p], msg[p], info[p]) <= Out(p) BY <1>2, <2>1
  <2> QED BY <1>4, <1>8, <2>1, <2>2
<1>9. CASE /\ Becomes(p, Admitted(p), op[p], msg[p], dir[p], newquota[p], info[p])
           /\ op[p] \in Adds /\ rc = "ok"
  <2>1. Out(p) = Weight(msg[p]) BY <1>9 DEF Out, OutOf
  <2>2. AheadOf(Admitted(p), op[p], msg[p]) = 0
        BY <1>9 DEF Admitted, AheadOf, Adds
  <2>3. OutOf(Admitted(p), op[p], msg[p], info[p]) = Weight(msg[p])
        BY <1>9 DEF Admitted, OutOf, Adds
  <2>4. OutOf(Admitted(p), op[p], msg[p], info[p]) <= Out(p) BY <1>2, <2>1, <2>3
  <2>5. Admitted(p) \notin {"check", "restat", "verdict"} BY DEF Admitted
  <2> QED BY <1>4, <1>9, <2>2, <2>4, <2>5
<1>10. ASSUME NEW o, NEW l, NEW d, NEW q, NEW j,
              Becomes(p, l, "forced", o, d, q, j)
       PROVE  FALSE
       BY <1>10 DEF Becomes
<1> QED
    BY <1>1, <1>6, <1>7, <1>8, <1>9, <1>10, ReturnIs

\* A new operation has promised itself nothing.
LEMMA StartOver ==
  ASSUME TypeInv, TypeInv', Over, link # None, NEW p \in Procs, Start(p)
  PROVE  Over'
<1>1. LocalOK BY TypeSplit DEF TypeInv
<1>2. PICK o \in Ops, m \in Msgs \cup {None}, d \in Dirs, q \in QuotaValues :
        /\ op' = [op EXCEPT ![p] = o]
        /\ msg' = [msg EXCEPT ![p] = m]
        /\ dir' = [dir EXCEPT ![p] = d]
        /\ newquota' = [newquota EXCEPT ![p] = q]
        /\ pc' = [pc EXCEPT ![p] = IF o = "move" THEN "linkdest" ELSE "open"]
      BY DEF Start
<1>3. /\ pc[p] = "idle" /\ UNCHANGED <<at, link, file, info, count>>
      BY DEF Start, maildir, size
<1>4. StepOf(p) BY <1>1, <1>2, <1>3 DEF LocalOK, StepOf
<1>5. pc'[p] \in {"linkdest", "open"} BY <1>1, <1>2 DEF LocalOK
<1>6. Ahead(p) = 0 /\ Out(p) = 0
      BY <1>3 DEF Ahead, AheadOf, Out, OutOf, MayAdd
<1>7. Ahead(p)' = 0 /\ Out(p)' = 0 /\ QuotaKnown(p)'
      BY <1>5 DEF Ahead, AheadOf, Out, OutOf, MayAdd, QuotaKnown, Compares
<1>8. \A x \in Msgs : Stored(x)' = Stored(x) BY <1>3 DEF Stored
<1>9. Out(p)' <= Out(p) BY <1>6, <1>7
<1> QED BY <1>3, <1>4, <1>6, <1>7, <1>8, <1>9, LookOver

\* What is read now is true now: whoever finds room, has room.
LEMMA OpenOver ==
  ASSUME TypeInv, TypeInv', Over, link # None, NEW p \in Procs, OpenAs(p, link)
  PROVE  Over'
<1>1. /\ LocalOK /\ SharedOK BY TypeSplit DEF TypeInv
<1>2. /\ pc[p] = "open" /\ pc'[p] = "check"
      /\ pc' = [pc EXCEPT ![p] = "check"]
      /\ UNCHANGED <<at, link, file, op, msg, dir, count>>
      BY <1>1 DEF OpenAs, maildir, size, LocalOK
<1> DEFINE inf == Imposed(p, ReadFile(link))
           j == IF op[p] = "recalculate" /\ link # None
                THEN [inf EXCEPT !.recalculation_needed = TRUE] ELSE inf
<1>3. \/ /\ info' = [info EXCEPT ![p] = Blank(newquota[p])]
         /\ newquota' = newquota
      \/ /\ info' = [info EXCEPT ![p] = j]
         /\ newquota' = [newquota EXCEPT ![p] = NoQuota]
      BY DEF OpenAs
<1> HIDE DEF j
<1>4. StepOf(p) BY <1>1, <1>2, <1>3 DEF LocalOK, StepOf
<1>5. info'[p] = Blank(newquota[p]) \/ info'[p] = j BY <1>1, <1>3 DEF LocalOK
<1>6. Blank(newquota[p]).recalculation_needed BY DEF Blank, NoInfo
<1>7. \/ j.recalculation_needed
      \/ j.quota = file[link].quota /\ j.size = file[link].account
  <2> DEFINE r == ReadFile(link)
  <2>1. /\ r.recalculation_needed \in BOOLEAN /\ r.quota = file[link].quota
        /\ ~r.recalculation_needed => r.size = file[link].account
    <3> DEFINE long == file[link].nlines > MaxLines
    <3>1. long \in BOOLEAN OBVIOUS
    <3>2. r = [fd |-> link, quota |-> file[link].quota, mtime |-> file[link].mtime,
               size |-> IF long THEN Empty ELSE file[link].account,
               nlines |-> IF long THEN 0 ELSE file[link].nlines,
               recalculation_needed |-> long]
          BY DEF ReadFile
    <3> HIDE DEF long, r
    <3> QED BY <3>1, <3>2
  <2>2. r = [fd |-> r.fd, quota |-> r.quota, mtime |-> r.mtime, size |-> r.size,
             nlines |-> r.nlines, recalculation_needed |-> r.recalculation_needed]
        BY DEF ReadFile
  <2> HIDE DEF r
  <2>3. inf = r \/ inf.recalculation_needed BY <2>2 DEF Imposed, r
  <2>4. inf = [fd |-> inf.fd, quota |-> inf.quota, mtime |-> inf.mtime,
               size |-> inf.size, nlines |-> inf.nlines,
               recalculation_needed |-> inf.recalculation_needed]
        BY <2>2 DEF Imposed, r
  <2> HIDE DEF inf
  <2>5. j = inf \/ j.recalculation_needed BY <2>4 DEF j
  <2> QED BY <2>1, <2>3, <2>5
<1>8. QuotaKnown(p)'
      BY <1>2, <1>5, <1>6, <1>7 DEF QuotaKnown, Compares
<1>9. Ahead(p) = 0 /\ Ahead(p)' = 0 BY <1>2 DEF Ahead, AheadOf
<1>10. Out(p) = 0 BY <1>2 DEF Out, OutOf, MayAdd
<1>11. ASSUME file[link].quota.nbytes > 0, ~(Out(p)' <= Out(p))
       PROVE  InFile + Out(p)' <= file[link].quota.nbytes
  <2>1. MayAdd("check", op[p], msg[p], info'[p])
    <3>1. Out(p)' = OutOf("check", op[p], msg[p], info'[p]) BY <1>2 DEF Out
    <3>2. Out(p)' # 0 BY <1>10, <1>11
    <3> QED BY <3>1, <3>2 DEF OutOf
  <2>2. /\ info'[p].size = file[link].account
        /\ info'[p].quota = file[link].quota
        BY <1>5, <1>6, <1>7, <2>1 DEF MayAdd
  <2>3. file[link].account \in Accounts /\ file[link].quota.nbytes \in Nat
        BY NumbersType DEF NumbersOK
  <2>4. Bytes(Plus(file[link].account, msg[p], 1)) <= file[link].quota.nbytes
        BY <1>11, <2>1, <2>2, <2>3 DEF MayAdd, Fits
  <2>5. msg[p] \in Msgs BY <2>1 DEF MayAdd
  <2>6. Bytes(Plus(file[link].account, msg[p], 1)) = InFile + Size[msg[p]] * 1
        BY <2>3, <2>5, PlusBytes DEF InFile
  <2>7. Out(p)' = Size[msg[p]] /\ Size[msg[p]] \in Nat
        BY <1>2, <2>1, <2>5, LargestIs DEF Out, OutOf, Weight
  <2> QED BY <2>4, <2>6, <2>7
<1>12. \A x \in Msgs : Stored(x)' = Stored(x) BY <1>2 DEF Stored
<1> QED BY <1>2, <1>4, <1>8, <1>9, <1>11, <1>12, LookOver

\* Counting promises nothing, and what was found stays what it was.
LEMMA CountOver ==
  ASSUME TypeInv, TypeInv', Over, link # None, NEW p \in Procs,
         Recount(p) \/ StatDirectory(p) \/ ReadDirectory(p) \/ Restat(p)
  PROVE  Over'
<1>1. LocalOK BY TypeSplit DEF TypeInv
<1>2. /\ UNCHANGED <<at, link, file, op, msg, dir, newquota, info>>
      /\ \A q \in Procs \ {p} : pc'[q] = pc[q] /\ count'[q] = count[q]
      /\ \/ pc[p] \in {"check", "stat", "read"} /\ pc'[p] \in {"stat", "read", "install"}
         \/ pc[p] = "restat" /\ pc'[p] \in {"restat", "verdict"}
      BY <1>1
      DEF LocalOK, Recount, StatDirectory, ReadDirectory, Restat, maildir, size, args
<1>3. StepOf(p) BY <1>2 DEF StepOf
<1>4. Ahead(p) = 0 /\ Ahead(p)' = 0 BY <1>2 DEF Ahead, AheadOf
<1>5. QuotaKnown(p)'
  <2>1. QuotaKnown(p) BY DEF Over
  <2> QED BY <1>2, <2>1 DEF QuotaKnown, Compares
<1>6. Out(p)' <= Out(p)
  <2>1. Out(p) \in Nat BY NumbersType DEF NumbersOK
  <2>2. CASE pc'[p] \in {"stat", "read", "install"}
    <3>1. Out(p)' = 0 BY <2>2 DEF Out, OutOf, MayAdd
    <3> QED BY <2>1, <3>1
  <2>3. CASE pc[p] = "restat" /\ pc'[p] \in {"restat", "verdict"}
    <3>1. Out(p)' = Out(p) BY <1>2, <2>3 DEF Out, OutOf, MayAdd
    <3> QED BY <2>1, <3>1
  <2> QED BY <1>2, <2>2, <2>3
<1>7. \A x \in Msgs : Stored(x)' = Stored(x) BY <1>2 DEF Stored
<1> QED BY <1>2, <1>3, <1>4, <1>5, <1>6, <1>7, LookOver

\* The results of maildir_checkquota.
LEMMA VerdictOver ==
  ASSUME OpsInv, TypeInv', Balanced, Over, link # None, NothingForced,
         NothingForced', NEW p \in Procs, clean',
         Admit(p) \/ Refuse(p) \/ InstallFails(p) \/ Accept(p)
  PROVE  Over'
<1>1. /\ TypeInv /\ OpOK(p) /\ Current(p) /\ QuotaKnown(p)
      BY DEF OpsInv, Balanced, Over
<1>2. UNCHANGED <<at, link, file>>
      BY DEF Admit, Refuse, InstallFails, Accept, maildir, size
<1>3. op[p] # "forced" /\ op'[p] # "forced" BY DEF NothingForced
<1>4. ASSUME op[p] \in Adds, pc[p] \in {"check", "verdict"},
             ~info[p].recalculation_needed,
             WithinQuota(Wanted(p, info[p]), info[p].quota)
      PROVE  MayAdd(pc[p], op[p], msg[p], info[p])
  <2>1. msg[p] \in Msgs BY <1>1, <1>4 DEF OpOK
  <2>2. Wanted(p, info[p]) = Plus(info[p].size, msg[p], 1)
        BY <1>4, <2>1 DEF Wanted, Sign, Adds
  <2> QED BY <1>4, <2>1, <2>2 DEF MayAdd, WithinQuota
<1>5. CASE Admit(p)
  <2>1. pc[p] = "check" /\ Return(p, "ok", info[p]) /\ NeedsNoCount(p)
        BY <1>5 DEF Admit
  <2>2. info[p].fd # None BY <1>1, <2>1, NoneAssumption DEF Current
  <2>3. op[p] \in Adds => MayAdd(pc[p], op[p], msg[p], info[p])
        BY <1>4, <2>1, <2>2 DEF NeedsNoCount
  <2> QED BY <1>1, <1>2, <1>3, <2>1, <2>3, ReturnOver
<1>6. CASE Refuse(p)
  <2>1. pc[p] = "check" /\ Return(p, "enospc", info[p]) /\ op[p] # "warn"
        BY <1>6 DEF Refuse
  <2> QED BY <1>1, <1>2, <1>3, <2>1, ReturnOver
<1>7. CASE InstallFails(p)
  <2>1. pc[p] = "install" /\ Return(p, "eio", info[p]) /\ op[p] # "warn"
        BY <1>7 DEF InstallFails
  <2> QED BY <1>1, <1>2, <1>3, <2>1, ReturnOver
<1>8. CASE Accept(p)
  <2> DEFINE fits == WithinQuota(Wanted(p, info[p]), info[p].quota)
             rc == IF fits THEN "ok" ELSE "enospc"
  <2>1. pc[p] = "verdict" /\ Return(p, rc, info[p]) /\ (fits \/ op[p] # "warn")
        BY <1>8 DEF Accept
  <2>2. rc \in {"ok", "enospc", "eio"} /\ (rc = "ok" \/ op[p] # "warn")
        BY <2>1
  <2>3. ~info[p].recalculation_needed
        BY <1>1, <2>1 DEF QuotaKnown, Compares
  <2>4. op[p] \in Adds /\ rc = "ok" => MayAdd(pc[p], op[p], msg[p], info[p])
        BY <1>4, <2>1, <2>3
  <2> HIDE DEF fits, rc
  <2> QED BY <1>1, <1>2, <1>3, <2>1, <2>2, <2>4, ReturnOver
<1> QED BY <1>5, <1>6, <1>7, <1>8

\* Who counts is alone, and the file balances: what it holds is what is stored.
AloneExact ==
  clean /\ link # None =>
    \A p \in Procs : pc[p] \in Counting =>
      \A m \in Msgs : file[link].account[m] = Stored(m)

LEMMA AloneBalances == LedgerInv => AloneExact
<1> SUFFICES ASSUME LedgerInv, clean, link # None, NEW p \in Procs,
                    pc[p] \in Counting, NEW m \in Msgs
             PROVE  file[link].account[m] = Stored(m)
    BY DEF AloneExact
<1>1. OpsInv /\ Balanced /\ Alone(p) BY DEF LedgerInv, Balanced, Counted
<1>2. TypeInv /\ m # None /\ Stored(m) \in Nat
      BY <1>1, NoneAssumption DEF OpsInv, Stored
<1>3. Balance(m, 0) => file[link].account[m] = Stored(m)
      BY <1>2 DEF Balance
<1>4. CASE ~Busy(m) BY <1>1, <1>3, <1>4 DEF Balanced, Settled
<1>5. CASE Busy(m)
  <2>1. PICK q \in Procs : msg[q] = m BY <1>5 DEF Busy
  <2>2. q = p
    <3>1. ASSUME q # p PROVE msg[q] = None
      <4>1. pc[q] = "idle" BY <1>1, <3>1 DEF Alone
      <4> QED BY <1>1, <4>1 DEF OpsInv, OpOK
    <3> QED BY <1>2, <2>1, <3>1
  <2>3. Pending(p) = 0 BY DEF Pending, Counting
  <2>4. Balance(msg[p], Pending(p)) BY <1>1, <1>2, <2>1, <2>2 DEF Balanced, Held
  <2> QED BY <1>3, <2>1, <2>2, <2>3, <2>4 DEF Balance
<1> QED BY <1>4, <1>5

\* The new file counts what the old one did, and a new message fits or not.
LEMMA InstallOver ==
  ASSUME LedgerInv, LedgerInv', clean, clean', Over, link # None,
         NEW p \in Procs, Install(p), file'[link'].quota = file[link].quota
  PROVE  Over'
<1>1. TypeInv /\ TypeInv' BY DEF LedgerInv, OpsInv
<1>2. LocalOK /\ SharedOK BY <1>1, TypeSplit DEF TypeInv
<1>3. PICK i \in Inodes : /\ file' = [file EXCEPT ![i] = Recounted(p)]
                          /\ link' = i
                          /\ info' = [info EXCEPT ![p] = Switched(p, i)]
      BY DEF Install, Unused
<1>4. /\ pc[p] = "install" /\ pc' = [pc EXCEPT ![p] = "restat"] /\ pc'[p] = "restat"
      /\ UNCHANGED <<at, op, msg, dir, newquota>>
      /\ \A q \in Procs \ {p} : count'[q] = count[q]
      BY <1>2 DEF Install, maildir, args, LocalOK
<1>5. StepOf(p) BY <1>2, <1>3, <1>4 DEF StepOf, LocalOK
<1>6. link' # None BY <1>3, NoneAssumption
<1>7. \A m \in Msgs : Stored(m)' = Stored(m) BY <1>4 DEF Stored
<1>8. \A m \in Msgs : file[link].account[m] = Stored(m)
      BY <1>4, AloneBalances DEF AloneExact, Counting
<1>9. \A m \in Msgs : (file[link].account[m])' = Stored(m)'
  <2>1. AloneExact' BY AloneBalances, PTL
  <2> QED BY <1>4, <1>6, <2>1 DEF AloneExact, Counting
<1>10. /\ file[link].account \in Accounts /\ file'[link'].account \in Accounts
       /\ InFile \in Int /\ Bytes(StoredNow) \in Int
       /\ file[link].quota.nbytes \in Nat
       BY <1>1, <1>6, NumbersType, NumbersTypeNext DEF NumbersOK
<1>11. file'[link'].account = file[link].account
       BY <1>7, <1>8, <1>9, <1>10 DEF Accounts
<1>12. InFile' = InFile + 0 BY <1>10, <1>11 DEF InFile
<1>13. StoredNow' = StoredNow BY <1>7 DEF StoredNow
<1>14. Bytes(StoredNow)' = Bytes(StoredNow) + 0 BY <1>10, <1>13
<1>15. Ahead(p)' = Ahead(p) + 0 - 0 BY <1>4 DEF Ahead, AheadOf
<1>16. /\ ~info'[p].recalculation_needed
       /\ info'[p].quota = file'[link'].quota
       /\ info'[p].size = file'[link'].account
  <2>1. info'[p] = Switched(p, i) /\ file'[link'] = Recounted(p)
        BY <1>2, <1>3 DEF LocalOK, SharedOK
  <2>2. info[p] \in Infos BY <1>2 DEF LocalOK
  <2> QED BY <2>1, <2>2 DEF Switched, Recounted, Infos
<1>17. QuotaKnown(p)' BY <1>4, <1>16 DEF QuotaKnown, Compares
<1>18. \/ Out(p)' + 0 <= Out(p)
       \/ file[link].quota.nbytes > 0 =>
            InFile' + Out(p)' <= file[link].quota.nbytes
  <2>1. CASE MayAdd("restat", op[p], msg[p], info'[p])
    <3>1. ASSUME file[link].quota.nbytes > 0
          PROVE  InFile' + Out(p)' <= file[link].quota.nbytes
      <4>1. Bytes(Plus(file'[link'].account, msg[p], 1)) <= file[link].quota.nbytes
            BY <1>10, <1>16, <2>1, <3>1 DEF MayAdd, Fits
      <4>2. msg[p] \in Msgs BY <2>1 DEF MayAdd
      <4>3. Bytes(Plus(file'[link'].account, msg[p], 1)) = InFile' + Size[msg[p]] * 1
            BY <1>10, <4>2, PlusBytes DEF InFile
      <4>4. Out(p)' = Size[msg[p]] /\ Size[msg[p]] \in Nat
            BY <1>4, <2>1, <4>2, LargestIs DEF Out, OutOf, Weight
      <4> QED BY <4>1, <4>3, <4>4
    <3> QED BY <3>1
  <2>2. CASE ~MayAdd("restat", op[p], msg[p], info'[p])
    <3>1. Out(p)' = 0 BY <1>4, <2>2 DEF Out, OutOf
    <3>2. Out(p) \in Nat BY <1>1, NumbersType DEF NumbersOK
    <3> QED BY <3>1, <3>2
  <2> QED BY <2>1, <2>2
<1>19. 0 \in Int OBVIOUS
<1> QED
    BY <1>1, <1>5, <1>6, <1>12, <1>14, <1>15, <1>17, <1>18, <1>19, OverByOne

\* A line is appended, or an entry comes or goes.
LEMMA StoreOver ==
  ASSUME OpsInv, OpsInv', Balanced, Over, link # None, NothingForced,
         NEW p \in Procs, clean', file'[link'].quota = file[link].quota,
         \/ Record(p) \/ Link(p) \/ LinkFails(p) \/ Remove(p) \/ LinkDest(p)
         \/ LinkDestFails(p)
  PROVE  Over'
<1>1. /\ TypeInv /\ TypeInv' /\ LocalOK /\ SharedOK /\ OpOK(p) /\ Held(p)
      /\ Current(p)
      BY TypeSplit DEF OpsInv, TypeInv, Balanced
<1>2. PICK m \in Msgs : m = msg[p]
  <2>1. pc[p] \in {"record", "link", "remove", "linkdest"}
        BY DEF Record, Link, LinkFails, Remove, LinkDest, LinkDestFails
  <2>2. msg[p] \in Msgs
        BY <1>1, <2>1 DEF OpOK, Counting, Adds, AllOps, LocalOK
  <2> QED BY <2>2
<1>3. m # None BY NoneAssumption
<1>4. Shape(p) BY <1>1, <1>2, <1>3 DEF Held
<1>5. /\ at \in [Msgs -> SUBSET Dirs] /\ op[p] \in AllOps \ {"forced"}
      BY <1>1 DEF SharedOK, LocalOK, NothingForced
<1>6. /\ Weight(msg[p]) = Size[m] /\ Size[m] \in Nat
      /\ link \in Inodes /\ file[link] \in Files
      /\ file[link].account \in Accounts /\ InFile \in Int
      /\ StoredNow \in Accounts /\ Bytes(StoredNow) \in Int
      /\ Out(p) \in Nat /\ Ahead(p) \in Int
      BY <1>1, <1>2, LargestIs, NumbersType DEF Weight, NumbersOK
<1>7. StoredNow' \in Accounts BY <1>1, NumbersTypeNext DEF NumbersOK
<1>8. ASSUME NEW l \in {"idle", "link", "record", "remove"}, NEW o, NEW x, NEW d,
             NEW q, NEW j, Becomes(p, l, o, x, d, q, j), link' = link,
             NEW dA \in Int, NEW dS \in Int, InFile' = InFile + dA,
             Bytes(StoredNow)' = Bytes(StoredNow) + dS,
             AheadOf(l, o, x) = Ahead(p) + dS - dA,
             OutOf(l, o, x, j) + dA <= Out(p)
      PROVE  Over'
  <2>1. Ahead(p)' = Ahead(p) + dS - dA /\ Out(p)' + dA <= Out(p)
        BY <1>8 DEF Becomes, Ahead, Out
  <2>2. QuotaKnown(p)' BY <1>8 DEF Becomes, QuotaKnown, Compares
  <2>3. StepOf(p) BY <1>8 DEF Becomes
  <2> QED BY <1>1, <1>8, <2>1, <2>2, <2>3, OverByOne
<1>9. ASSUME Done(p), link' = link, NEW dS \in Int, InFile' = InFile,
             Bytes(StoredNow)' = Bytes(StoredNow) + dS, Ahead(p) + dS = 0
      PROVE  Over'
  <2>1. Becomes(p, "idle", "set", None, AnyDir, NoQuota, NoInfo)
        BY <1>1, <1>9, DoneIs
  <2>2. /\ AheadOf("idle", "set", None) = Ahead(p) + dS - 0
        /\ OutOf("idle", "set", None, NoInfo) + 0 <= Out(p)
        BY <1>6, <1>9 DEF AheadOf, OutOf, MayAdd
  <2>3. InFile' = InFile + 0 BY <1>6, <1>9
  <2>4. 0 \in Int OBVIOUS
  <2> QED BY <1>8, <1>9, <2>1, <2>2, <2>3, <2>4
<1>10. ASSUME \A x \in Msgs : Stored(x)' = Stored(x)
       PROVE  Bytes(StoredNow)' = Bytes(StoredNow) + 0
  <2>1. StoredNow' = StoredNow BY <1>10 DEF StoredNow
  <2> QED BY <1>6, <2>1
<1>11. ASSUME NEW n \in Int, \A x \in Msgs \ {m} : Stored(x)' = Stored(x),
              Stored(m)' = Stored(m) + n
       PROVE  Bytes(StoredNow)' = Bytes(StoredNow) + Size[m] * n
  <2>1. /\ StoredNow'[m] = StoredNow[m] + n
        /\ \A x \in Msgs \ {m} : StoredNow'[x] = StoredNow[x]
        BY <1>11 DEF StoredNow
  <2>2. Bytes(StoredNow') = Bytes(StoredNow) + Size[m] * n
        BY <1>6, <1>7, <2>1, BytesChange
  <2> QED BY <2>2
<1>12. ASSUME link' = link, file' = file PROVE InFile' = InFile
       BY <1>12 DEF InFile
<1>13. CASE Record(p)
  <2>1. pc[p] = "record" /\ AfterRecord(p) /\ at' = at /\ link' = link
        BY <1>13 DEF Record, maildir
  <2>2. info[p].fd = link BY <1>1, <2>1 DEF Current
  <2>3. op[p] \in Adds \cup {"delete"}
        BY <1>1, <1>5, <2>1 DEF OpOK, AllOps, Adds, Counting
  <2>4. file'[link].account = Plus(file[link].account, m, Sign(p))
    <3>1. file'[link] = Appended(file[link], p)
          BY <1>1, <1>6, <1>13, <2>2 DEF Record, SharedOK
    <3> QED BY <1>2, <1>6, <3>1 DEF Appended, Files
  <2>5. Sign(p) \in Int BY DEF Sign
  <2>6. InFile' = InFile + Size[m] * Sign(p)
        BY <1>6, <2>1, <2>4, <2>5, PlusBytes DEF InFile
  <2>7. Bytes(StoredNow)' = Bytes(StoredNow) + 0 BY <1>10, <2>1 DEF Stored
  <2>8. 0 \in Int OBVIOUS
  <2>9. CASE op[p] = "deliver"
    <3>1. Sign(p) = 1 BY <2>9 DEF Sign
    <3>2. Ahead(p) = Size[m] /\ Out(p) = Size[m]
          BY <1>6, <2>1, <2>9 DEF Ahead, AheadOf, Out, OutOf, Adds
    <3>3. Becomes(p, "idle", "set", None, AnyDir, NoQuota, NoInfo)
          BY <1>1, <2>1, <2>9, DoneIs DEF AfterRecord
    <3>4. /\ AheadOf("idle", "set", None) = Ahead(p) + 0 - Size[m]
          /\ OutOf("idle", "set", None, NoInfo) + Size[m] <= Out(p)
          BY <1>6, <3>2 DEF AheadOf, OutOf, MayAdd
    <3>5. InFile' = InFile + Size[m] /\ Size[m] \in Int BY <1>6, <2>6, <3>1
    <3> QED BY <1>8, <2>1, <2>7, <2>8, <3>3, <3>4, <3>5
  <2>10. CASE op[p] = "delete"
    <3>1. Sign(p) = -1 BY <2>10 DEF Sign
    <3>2. Ahead(p) = 0 BY <2>1, <2>10 DEF Ahead, AheadOf
    <3>3. Becomes(p, "remove", op[p], msg[p], dir[p], newquota[p], NoInfo)
          BY <1>1, <2>1, <2>10, GotoIs DEF AfterRecord
    <3>4. /\ AheadOf("remove", op[p], msg[p]) = Size[m]
          /\ OutOf("remove", op[p], msg[p], NoInfo) = Size[m]
          BY <1>6, <2>10 DEF AheadOf, OutOf
    <3>5. InFile' = InFile + (-Size[m]) /\ -Size[m] \in Int BY <1>6, <2>6, <3>1
    <3>6. /\ AheadOf("remove", op[p], msg[p]) = Ahead(p) + 0 - (-Size[m])
          /\ OutOf("remove", op[p], msg[p], NoInfo) + (-Size[m]) <= Out(p)
          BY <1>6, <3>2, <3>4
    <3> QED BY <1>8, <2>1, <2>7, <2>8, <3>3, <3>5, <3>6
  <2>11. CASE op[p] \notin {"deliver", "delete"}
    <3>1. Sign(p) = 1 BY <2>3, <2>11 DEF Sign, Adds
    <3>2. Ahead(p) = 0 /\ Out(p) = Size[m]
          BY <1>6, <2>1, <2>3, <2>11 DEF Ahead, AheadOf, Out, OutOf
    <3>3. Becomes(p, "link", op[p], msg[p], dir[p], newquota[p], NoInfo)
          BY <1>1, <2>1, <2>11, GotoIs DEF AfterRecord
    <3>4. /\ AheadOf("link", op[p], msg[p]) = -Size[m]
          /\ OutOf("link", op[p], msg[p], NoInfo) = 0
          BY <1>6, <2>11 DEF AheadOf, OutOf, MayAdd
    <3>5. InFile' = InFile + Size[m] /\ Size[m] \in Int BY <1>6, <2>6, <3>1
    <3>6. /\ AheadOf("link", op[p], msg[p]) = Ahead(p) + 0 - Size[m]
          /\ OutOf("link", op[p], msg[p], NoInfo) + Size[m] <= Out(p)
          BY <1>6, <3>2, <3>4
    <3> QED BY <1>8, <2>1, <2>7, <2>8, <3>3, <3>5, <3>6
  <2> QED BY <2>9, <2>10, <2>11
<1>14. CASE Link(p)
  <2>1. /\ pc[p] = "link" /\ link' = link /\ file' = file
        /\ at' = [at EXCEPT ![m] = @ \cup {dir[p]}]
        BY <1>2, <1>14 DEF Link, size
  <2>2. op[p] \in Adds
        BY <1>1, <1>5, <2>1 DEF OpOK, AllOps, Adds, Counting
  <2>3. at[m] = {} BY <1>2, <1>4, <2>1, <2>2 DEF Shape
  <2>4. at'[m] = {dir[p]} /\ \A x \in Msgs \ {m} : at'[x] = at[x]
        BY <1>5, <2>1, <2>3
  <2>5. /\ Stored(m)' = Stored(m) + 1
        /\ \A x \in Msgs \ {m} : Stored(x)' = Stored(x)
        BY <2>3, <2>4 DEF Stored
  <2>6. Bytes(StoredNow)' = Bytes(StoredNow) + Size[m] /\ Size[m] \in Int
    <3>1. Bytes(StoredNow)' = Bytes(StoredNow) + Size[m] * 1 BY <1>11, <2>5
    <3> QED BY <1>6, <3>1
  <2>7. InFile' = InFile + 0 /\ InFile' = InFile BY <1>6, <1>12, <2>1
  <2>8. CASE op[p] = "deliver"
    <3>1. Ahead(p) = 0 /\ Out(p) = Size[m]
          BY <1>6, <2>1, <2>8 DEF Ahead, AheadOf, Out, OutOf
    <3>2. Becomes(p, "record", op[p], msg[p], dir[p], newquota[p], info[p])
          BY <1>1, <1>14, <2>8, GotoIs DEF Link
    <3>3. /\ AheadOf("record", op[p], msg[p]) = Size[m]
          /\ OutOf("record", op[p], msg[p], info[p]) = Size[m]
          BY <1>6, <2>8 DEF AheadOf, OutOf, Adds
    <3>4. /\ AheadOf("record", op[p], msg[p]) = Ahead(p) + Size[m] - 0
          /\ OutOf("record", op[p], msg[p], info[p]) + 0 <= Out(p)
          BY <1>6, <3>1, <3>3
    <3>5. 0 \in Int OBVIOUS
    <3> QED BY <1>8, <2>1, <2>6, <2>7, <3>2, <3>4, <3>5
  <2>9. CASE op[p] # "deliver"
    <3>1. Ahead(p) = -Size[m] BY <1>6, <2>1, <2>9 DEF Ahead, AheadOf
    <3>2. Done(p) BY <1>14, <2>9 DEF Link
    <3>3. Ahead(p) + Size[m] = 0 BY <1>6, <3>1
    <3> QED BY <1>9, <2>1, <2>6, <2>7, <3>2, <3>3
  <2> QED BY <2>8, <2>9
<1>15. CASE LinkFails(p)
  <2>1. /\ pc[p] = "link" /\ UNCHANGED <<at, link, file>> /\ Done(p)
        /\ op[p] = "deliver"
        BY <1>15 DEF LinkFails, maildir, size
  <2>2. Ahead(p) = 0 BY <2>1 DEF Ahead, AheadOf
  <2>3. Bytes(StoredNow)' = Bytes(StoredNow) + 0 BY <1>10, <2>1 DEF Stored
  <2>4. Ahead(p) + 0 = 0 /\ 0 \in Int BY <2>2
  <2> QED BY <1>9, <1>12, <2>1, <2>3, <2>4
<1>16. CASE Remove(p)
  <2>1. /\ pc[p] = "remove" /\ link' = link /\ file' = file /\ Done(p)
        /\ at' = [at EXCEPT ![m] = @ \ {dir[p]}]
        BY <1>2, <1>16 DEF Remove, size
  <2>2. op[p] \in {"delete", "move"}
        BY <1>1, <1>5, <2>1 DEF OpOK, AllOps, Adds, Counting
  <2>3. at'[m] = at[m] \ {dir[p]} /\ \A x \in Msgs \ {m} : at'[x] = at[x]
        BY <1>5, <2>1
  <2>4. CASE op[p] = "delete"
    <3>1. at[m] = {dir[p]} BY <1>2, <1>4, <2>4 DEF Shape
    <3>2. /\ Stored(m)' = Stored(m) + (-1)
          /\ \A x \in Msgs \ {m} : Stored(x)' = Stored(x)
          BY <2>3, <3>1 DEF Stored
    <3>3. Bytes(StoredNow)' = Bytes(StoredNow) + (-Size[m]) /\ -Size[m] \in Int
      <4>1. Bytes(StoredNow)' = Bytes(StoredNow) + Size[m] * (-1) BY <1>11, <3>2
      <4> QED BY <1>6, <4>1
    <3>4. Ahead(p) = Size[m] BY <1>6, <2>1, <2>4 DEF Ahead, AheadOf
    <3>5. Ahead(p) + (-Size[m]) = 0 BY <1>6, <3>4
    <3> QED BY <1>9, <1>12, <2>1, <3>3, <3>5
  <2>5. CASE op[p] = "move"
    <3>1. PICK d \in Dirs \ {dir[p]} : at[m] = {dir[p], d}
          BY <1>2, <1>4, <2>1, <2>5 DEF Shape
    <3>2. \A x \in Msgs : Stored(x)' = Stored(x)
          BY <2>3, <3>1 DEF Stored
    <3>3. Bytes(StoredNow)' = Bytes(StoredNow) + 0 BY <1>10, <3>2
    <3>4. Ahead(p) = 0 BY <2>1, <2>5 DEF Ahead, AheadOf
    <3>5. Ahead(p) + 0 = 0 /\ 0 \in Int BY <3>4
    <3> QED BY <1>9, <1>12, <2>1, <3>3, <3>5
  <2> QED BY <2>2, <2>4, <2>5
<1>17. CASE LinkDest(p)
  <2>1. PICK d \in Dirs \ at[m] : at' = [at EXCEPT ![m] = @ \cup {d}]
        BY <1>2, <1>17 DEF LinkDest
  <2>2. pc[p] = "linkdest" /\ link' = link /\ file' = file
        BY <1>17 DEF LinkDest, size
  <2>3. op[p] = "move"
        BY <1>1, <1>5, <2>2 DEF OpOK, AllOps, Adds, Counting
  <2>4. at[m] = {dir[p]} BY <1>2, <1>4, <2>2, <2>3 DEF Shape
  <2>5. at'[m] = {dir[p], d} /\ \A x \in Msgs \ {m} : at'[x] = at[x]
        BY <1>5, <2>1, <2>4
  <2>6. \A x \in Msgs : Stored(x)' = Stored(x) BY <2>4, <2>5 DEF Stored
  <2>7. Bytes(StoredNow)' = Bytes(StoredNow) + 0 BY <1>10, <2>6
  <2>8. Becomes(p, "remove", op[p], msg[p], dir[p], newquota[p], NoInfo)
        BY <1>1, <1>17, GotoIs DEF LinkDest
  <2>9. /\ AheadOf("remove", op[p], msg[p]) = Ahead(p) + 0 - 0
        /\ OutOf("remove", op[p], msg[p], NoInfo) + 0 <= Out(p)
        BY <1>6, <2>2, <2>3 DEF AheadOf, OutOf, MayAdd, Ahead, Adds
  <2>10. InFile' = InFile + 0 /\ 0 \in Int BY <1>6, <1>12, <2>2
  <2> QED BY <1>8, <2>2, <2>7, <2>8, <2>9, <2>10
<1>18. CASE LinkDestFails(p)
  <2>1. /\ pc[p] = "linkdest" /\ UNCHANGED <<at, link, file>> /\ Done(p)
        BY <1>18 DEF LinkDestFails, maildir, size
  <2>2. Ahead(p) = 0 BY <2>1 DEF Ahead, AheadOf
  <2>3. Bytes(StoredNow)' = Bytes(StoredNow) + 0 BY <1>10, <2>1 DEF Stored
  <2>4. Ahead(p) + 0 = 0 /\ 0 \in Int BY <2>2
  <2> QED BY <1>9, <1>12, <2>1, <2>3, <2>4
<1> QED BY <1>13, <1>14, <1>15, <1>16, <1>17, <1>18

\* Time passes, a message is looked at for the first time, a flag changes.
LEMMA QuietOver ==
  ASSUME Over, UNCHANGED <<link, file, pc, op, msg, info>>,
         \A m \in Msgs : Stored(m)' = Stored(m)
  PROVE  Over'
<1>1. /\ InFile' = InFile /\ StoredNow' = StoredNow /\ Allowed' = Allowed
      BY DEF InFile, StoredNow, Allowed
<1>2. \A p \in Procs : /\ Out(p)' = Out(p) /\ Ahead(p)' = Ahead(p)
                       /\ QuotaKnown(p)' <=> QuotaKnown(p)
      BY DEF Out, Ahead, QuotaKnown, Compares
<1>3. Outs' = Outs /\ Aheads' = Aheads BY <1>2 DEF Outs, Aheads
<1>4. Books' BY <1>1, <1>3 DEF Over, Books
<1>5. Promised' BY <1>1, <1>3 DEF Over, Promised
<1> QED BY <1>2, <1>4, <1>5 DEF Over

\* Every step keeps the promise, while the quota stays what it is and nothing
\* is forced.
LEMMA OverInductive == OverInv /\ [Next /\ Steady]_vars => OverInv'
<1> SUFFICES ASSUME OverInv, [Next /\ Steady]_vars PROVE OverInv'
    OBVIOUS
<1>1. LedgerInv /\ LedgerInv' /\ link # None /\ NothingForced
      BY LedgerInductive DEF OverInv
<1>2. OpsInv /\ OpsInv' /\ TypeInv /\ TypeInv'
      BY <1>1 DEF LedgerInv, OpsInv
<1>3. /\ clean \in BOOLEAN /\ clean' \in BOOLEAN
      /\ link' \in Inodes \cup {None}
      BY <1>2 DEF TypeInv, TypeOK
<1>4. ASSUME clean PROVE Over /\ Balanced BY <1>1, <1>4 DEF OverInv, LedgerInv
<1>5. CASE UNCHANGED vars
  <2>1. /\ UNCHANGED <<link, file, pc, op, msg, info, at, clean>> BY <1>5 DEF vars
  <2>2. \A m \in Msgs : Stored(m)' = Stored(m) BY <2>1 DEF Stored
  <2>3. clean' => Over' BY <1>4, <2>1, <2>2, QuietOver
  <2>4. NothingForced' BY <1>1, <2>1 DEF NothingForced
  <2> QED BY <1>1, <2>1, <2>3, <2>4 DEF OverInv
<1>6. CASE Next /\ Steady
  <2>1. file'[link'].quota = file[link].quota /\ NothingForced'
        BY <1>6 DEF Steady, NothingForced
  <2>2. link' # None
    <3>1. link' = link \/ link' \in Inodes
          BY <1>6
          DEF Next, Normal, Work, Fault, Start, Open, OpenAs, OpenFails, Admit,
              Refuse, Recount, StatDirectory, ReadDirectory, Install, InstallFails,
              Restat, Accept, Raced, Record, RecordFails, Link, LinkFails, Remove,
              LinkDest, LinkDestFails, Crash, Tick, CheckNew, SetFlag, size, Unused
    <3> QED BY <1>1, <3>1, NoneAssumption
  <2>3. ASSUME clean' PROVE Over'
    <3>1. ASSUME NEW p \in Procs, Start(p) PROVE Over'
      <4>1. clean BY <2>3, <3>1 DEF Start
      <4> QED BY <1>1, <1>2, <1>4, <3>1, <4>1, StartOver
    <3>2. ASSUME NEW p \in Procs, Work(p) PROVE Over'
      <4>1. clean
            BY <1>3, <2>3, <3>2
            DEF Work, Open, Admit, Refuse, Recount, StatDirectory, ReadDirectory,
                Install, Restat, Accept, Raced, Record, Link, Remove, LinkDest
      <4>2. CASE Open(p)
            BY <1>1, <1>2, <1>4, <4>1, <4>2, OpenOver DEF Open
      <4>3. CASE Recount(p) \/ StatDirectory(p) \/ ReadDirectory(p) \/ Restat(p)
            BY <1>1, <1>2, <1>4, <4>1, <4>3, CountOver
      <4>4. CASE Admit(p) \/ Refuse(p) \/ Accept(p)
            BY <1>1, <1>2, <1>4, <2>1, <2>3, <4>1, <4>4, VerdictOver
      <4>5. CASE Install(p)
            BY <1>1, <1>4, <2>1, <2>3, <4>1, <4>5, InstallOver
      <4>6. CASE Record(p) \/ Link(p) \/ Remove(p) \/ LinkDest(p)
            BY <1>1, <1>2, <1>4, <2>1, <2>3, <4>1, <4>6, StoreOver
      <4>7. ~Raced(p) BY <2>3 DEF Raced
      <4> QED BY <3>2, <4>2, <4>3, <4>4, <4>5, <4>6, <4>7 DEF Work
    <3>3. ASSUME NEW p \in Procs, Fault(p) PROVE Over'
      <4>1. InstallFails(p) \/ LinkFails(p) \/ LinkDestFails(p)
            BY <2>3, <3>3 DEF Fault, OpenFails, RecordFails, Crash
      <4>2. clean BY <1>3, <2>3, <4>1 DEF InstallFails, LinkFails, LinkDestFails
      <4>3. CASE InstallFails(p)
            BY <1>1, <1>2, <1>4, <2>1, <2>3, <4>2, <4>3, VerdictOver
      <4>4. CASE LinkFails(p) \/ LinkDestFails(p)
            BY <1>1, <1>2, <1>4, <2>1, <2>3, <4>2, <4>4, StoreOver
      <4> QED BY <4>1, <4>3, <4>4
    <3>4. ASSUME NEW m \in Msgs, CheckNew(m) PROVE Over'
      <4>1. PICK new, cur :
              new \in at[m] /\ at' = [at EXCEPT ![m] = (@ \ {new}) \cup {cur}]
            BY <3>4 DEF CheckNew
      <4>2. UNCHANGED <<link, file, pc, op, msg, info>> /\ clean
            BY <2>3, <3>4 DEF CheckNew, size, local, args
      <4>3. at \in [Msgs -> SUBSET Dirs] BY <1>2 DEF TypeInv, TypeOK
      <4>4. \A x \in Msgs : Stored(x)' = Stored(x)
        <5>1. at'[m] # {} /\ at[m] # {} BY <4>1, <4>3
        <5>2. \A x \in Msgs \ {m} : at'[x] = at[x] BY <4>1, <4>3
        <5> QED BY <5>1, <5>2 DEF Stored
      <4> QED BY <1>4, <4>2, <4>4, QuietOver
    <3>5. CASE Tick \/ \E m \in Msgs : SetFlag(m)
      <4>1. UNCHANGED <<at, link, file, pc, op, msg, info>> /\ clean
            BY <2>3, <3>5 DEF Tick, SetFlag, maildir, size, local, args
      <4>2. \A x \in Msgs : Stored(x)' = Stored(x) BY <4>1 DEF Stored
      <4> QED BY <1>4, <4>1, <4>2, QuietOver
    <3> QED BY <1>6, <3>1, <3>2, <3>3, <3>4, <3>5 DEF Next, Normal
  <2> QED BY <1>1, <2>1, <2>2, <2>3 DEF OverInv
<1> QED BY <1>5, <1>6

\* At first nothing is under way, and what is stored fits.
LEMMA OverInit == Init /\ link # None => OverInv
<1> SUFFICES ASSUME Init, link # None PROVE OverInv
    OBVIOUS
<1>1. LedgerInv /\ clean /\ Balanced BY LedgerInit DEF Init, LedgerInv
<1>2. TypeInv /\ NumbersOK BY <1>1, NumbersType DEF LedgerInv, OpsInv
<1>3. /\ pc = [p \in Procs |-> "idle"] /\ op = [p \in Procs |-> "set"]
      /\ msg = [p \in Procs |-> None]
      BY DEF Init
<1>4. /\ \A p \in Procs : Out(p) = 0 /\ Ahead(p) = 0 /\ QuotaKnown(p)
      /\ NothingForced
      BY <1>3
      DEF Out, OutOf, MayAdd, Ahead, AheadOf, QuotaKnown, Compares, NothingForced
<1>5. SumFunction(Outs) = 0 /\ SumFunction(Aheads) = 0
  <2>1. \A p \in Procs : Outs[p] = 0 /\ Aheads[p] = 0 BY <1>4 DEF Outs, Aheads
  <2> QED BY <1>2, <2>1, ProcsAssumption, SumOfNothing DEF NumbersOK
<1>6. file[link].account = StoredNow
  <2>1. ASSUME NEW m \in Msgs PROVE file[link].account[m] = Stored(m)
    <3>1. ~Busy(m) BY <1>3, NoneAssumption DEF Busy
    <3>2. Stored(m) \in Int BY DEF Stored
    <3> QED BY <1>1, <3>1, <3>2 DEF Balanced, Settled, Balance
  <2> QED BY <1>2, <2>1 DEF NumbersOK, Accounts, StoredNow
<1>7. Books BY <1>2, <1>5, <1>6 DEF Books, InFile, NumbersOK
<1>8. PICK S \in SUBSET Msgs, q \in Quotas :
        /\ WithinQuota([m \in Msgs |-> IF m \in S THEN 1 ELSE 0], q)
        /\ file = [i \in Inodes |->
             IF i # link THEN NoFile
             ELSE [NoFile EXCEPT !.quota = q,
                     !.account = [m \in Msgs |-> IF m \in S THEN 1 ELSE 0],
                     !.nlines = 1]]
      BY DEF Init
<1>9. Fits(InFile, file[link].quota.nbytes)
  <2>1. file[link] = [NoFile EXCEPT !.quota = q,
                     !.account = [m \in Msgs |-> IF m \in S THEN 1 ELSE 0],
                     !.nlines = 1]
        BY <1>2, <1>8 DEF NumbersOK
  <2>2. /\ file[link].quota = q
        /\ file[link].account = [m \in Msgs |-> IF m \in S THEN 1 ELSE 0]
        BY <2>1 DEF NoFile
  <2> QED BY <1>8, <2>2 DEF WithinQuota, InFile
<1>10. (Cardinality(Procs) - 1) * Largest >= 0
  <2>1. Cardinality(Procs) \in Nat /\ Cardinality(Procs) # 0
        BY ProcsAssumption, FS_CardinalityType, FS_EmptySet
  <2>2. Cardinality(Procs) - 1 \in Nat /\ Largest \in Nat BY <2>1, LargestIs
  <2> QED BY <2>2
<1>11. (Cardinality(Procs) - 1) * Largest \in Int
  <2>1. Cardinality(Procs) \in Nat /\ Largest \in Nat
        BY ProcsAssumption, FS_CardinalityType, LargestIs
  <2> QED BY <2>1
<1>12. Promised
       BY <1>2, <1>5, <1>9, <1>10, <1>11 DEF Promised, Allowed, Fits, NumbersOK
<1> QED BY <1>1, <1>4, <1>7, <1>12 DEF OverInv, Over

\* While a quota in bytes stays what it is and no message is kept in spite of
\* it, the writers overshoot it by at most one message for every process but
\* one, for any number of processes: each of them checks what was written,
\* promises itself one message and appends it later.
\* (maildir_quota_add_start, maildir_quota_add_end)
THEOREM OvershootTheorem == SteadySpec => []BoundedOvershoot
<1>1. OverInv => BoundedOvershoot
  <2> SUFFICES ASSUME OverInv, clean, link # None, file[link].quota.nbytes > 0
               PROVE  Bytes(StoredNow) <= Allowed
      BY DEF BoundedOvershoot, StoredNow, Allowed
  <2>1. Over /\ TypeInv BY DEF OverInv, LedgerInv, OpsInv
  <2>2. NumbersOK BY <2>1, NumbersType
  <2>3. SumFunction(Aheads) <= SumFunction(Outs)
    <3>1. \A p \in Procs : Aheads[p] <= Outs[p]
          BY <2>2 DEF NumbersOK, Aheads, Outs
    <3> QED BY <2>2, <3>1, ProcsAssumption, SumGrows DEF NumbersOK
  <2>4. SumFunction(Aheads) \in Int /\ SumFunction(Outs) \in Int /\ InFile \in Int
        BY <2>2, ProcsAssumption, SumType DEF NumbersOK
  <2>5. Allowed \in Int
    <3>1. Cardinality(Procs) \in Nat /\ Largest \in Nat
          BY ProcsAssumption, FS_CardinalityType, LargestIs
    <3>2. (Cardinality(Procs) - 1) * Largest \in Int BY <3>1
    <3> QED BY <2>2, <3>2 DEF Allowed, NumbersOK
  <2> QED BY <2>1, <2>3, <2>4, <2>5 DEF Over, Books, Promised
<1>2. Init /\ link # None => OverInv BY OverInit
<1>3. OverInv /\ [Next /\ Steady]_vars => OverInv' BY OverInductive
<1> QED BY <1>1, <1>2, <1>3, PTL DEF SteadySpec

=============================================================================
