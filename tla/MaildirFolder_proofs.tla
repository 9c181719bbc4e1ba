------------------------ MODULE MaildirFolder_proofs ------------------------
(***************************************************************************)
(* Proofs about MaildirFolder: the types; that no message is lost, that    *)
(* what is purged is due, that a move is exact and that counts taken for   *)
(* current are right.                                                      *)
(*                                                                         *)
(* That a message keeps a live name does not follow from itself: two       *)
(* requests that move it at once each mark the name they found.  What the  *)
(* steps preserve is stronger: a message has more live names than there    *)
(* are requests about to mark one.  A request counts among these only      *)
(* after its own link() has made a name that was not there.                *)
(***************************************************************************)
EXTENDS MaildirFolder, FiniteSetTheorems, TLAPS

-----------------------------------------------------------------------------
(* Type correctness.                                                       *)

\* What a request holds.
LocalOK ==
  /\ pc \in [Sessions -> PCs]
  /\ req \in [Sessions -> Requests]
  /\ todo \in [Sessions -> SUBSET Names]
  /\ path \in [Sessions -> Names \cup {NoName}]
  /\ t0 \in [Sessions -> Times]
  /\ tally \in [Sessions -> Caches]

\* What is on the disk.
DiskOK ==
  /\ entries \subseteq Names /\ shown \subseteq Names
  /\ mtime \in [Folders -> Times]
  /\ ctime \in [Msgs -> Times] /\ trashed \in [Msgs -> Times]

\* The rest.
RestOK ==
  /\ now \in Times
  /\ counts \in [Folders -> Caches \cup {None}]
  /\ lines \in [Msgs -> Int]
  /\ ops \in 0..MaxOps
  /\ arrived \subseteq Msgs /\ expunged \subseteq Msgs
  /\ calm \in BOOLEAN

\* A request that works on a name has one.
FoundOK ==
  \A s \in Sessions :
    pc[s] \in {"account", "link", "mark", "expire"} => path[s] \in Names

TypeInv == TypeOK /\ FoundOK /\ IsFiniteSet(entries)

\* The type invariant in its three parts.
LEMMA TypeSplit == TypeOK <=> DiskOK /\ LocalOK /\ RestOK
BY DEF TypeOK, DiskOK, LocalOK, RestOK

\* The values that a request starts from have their types.
LEMMA BlankTypes ==
  /\ 0 \in Times
  /\ NoTally \in Tallies
  /\ NoCache \in Caches
  /\ NoReq \in Requests
  /\ Inbox \in Folders /\ Trash \in Folders
<1>1. 0 \in Times BY BoundsAssumption DEF Times
<1>2. NoTally \in Tallies BY DEF NoTally, Tallies
<1>3. NoCache \in Caches
      BY <1>1, <1>2, BoundsAssumption DEF NoCache, Caches, Times
<1>4. Inbox \in Folders /\ Trash \in Folders BY FoldersAssumption
<1>5. NoReq \in Requests BY <1>4 DEF NoReq, Requests, AllOps
<1> QED BY <1>1, <1>2, <1>3, <1>4, <1>5, BoundsAssumption DEF Times

\* A count of directory entries is a pair of numbers (docount).
LEMMA CountType ==
  ASSUME IsFiniteSet(entries), NEW f
  PROVE  CountOf(f) \in Tallies
<1>1. ASSUME NEW S \in SUBSET entries PROVE Cardinality(S) \in Nat
      BY <1>1, FS_Subset, FS_CardinalityType
<1>2. /\ {e \in In(f, "cur") : Unread(e)} \in SUBSET entries
      /\ {e \in In(f, "cur") : ~Unread(e)} \in SUBSET entries
      BY DEF In
<1> QED BY <1>1, <1>2 DEF CountOf, Tallies

\* The initial maildir is typed.
LEMMA InitType == Init => TypeInv
<1> SUFFICES ASSUME Init PROVE TypeInv
    OBVIOUS
<1> USE BlankTypes, BoundsAssumption
<1>1. LocalOK
  <2>1. "idle" \in PCs BY DEF PCs
  <2> QED BY <2>1 DEF Init, LocalOK
<1>2. DiskOK BY DEF Init, DiskOK
<1>3. RestOK BY DEF Init, RestOK
<1>4. FoundOK BY DEF Init, FoundOK
<1>5. IsFiniteSet(entries) BY FS_EmptySet DEF Init
<1> QED BY <1>1, <1>2, <1>3, <1>4, <1>5, TypeSplit DEF TypeInv

-----------------------------------------------------------------------------
(* The system calls.                                                       *)

\* Names added or taken away leave the directories well formed.
LEMMA StoreType ==
  ASSUME TypeInv, NEW E \in SUBSET Names, NEW fs, NEW ms,
         IsFiniteSet(E), Store(E, fs, ms), trashed' \in [Msgs -> Times]
  PROVE  DiskOK' /\ IsFiniteSet(entries)'
<1>1. now \in Times BY DEF TypeInv, TypeOK
<1>2. mtime' \in [Folders -> Times] /\ ctime' \in [Msgs -> Times]
      BY <1>1 DEF Store, TypeInv, TypeOK
<1>3. entries' \subseteq Names /\ shown' \subseteq Names
      BY DEF Store, TypeInv, TypeOK
<1> QED BY <1>2, <1>3 DEF Store, DiskOK

\* rename(2) of a name (maildir_checknew, do_msgmove).
LEMMA RenameType ==
  ASSUME TypeInv, NEW a, NEW b \in Names, Rename(a, b)
  PROVE  DiskOK' /\ IsFiniteSet(entries)'
<1>1. CASE a \in entries /\ b \notin entries
  <2> DEFINE E == (entries \ {a}) \cup {b}
  <2>1. E \in SUBSET Names BY DEF TypeInv, TypeOK
  <2>2. IsFiniteSet(E)
    <3>1. IsFiniteSet(entries \ {a}) BY FS_RemoveElement DEF TypeInv
    <3> QED BY <3>1, FS_AddElement
  <2>3. trashed' \in [Msgs -> Times] BY DEF Rename, TypeInv, TypeOK
  <2>4. Store(E, {b.folder}, {a.msg}) BY <1>1 DEF Rename
  <2> QED BY <2>1, <2>2, <2>3, <2>4, StoreType
<1>2. CASE ~(a \in entries /\ b \notin entries)
      BY <1>2 DEF Rename, TypeInv, TypeOK, DiskOK
<1> QED BY <1>1, <1>2

\* unlink(2) of a name (maildir_checknew, rmdirtmp, maildir_autopurge).
LEMMA UnlinkType ==
  ASSUME TypeInv, NEW a, Unlink(a)
  PROVE  DiskOK' /\ IsFiniteSet(entries)'
<1>1. CASE a \in entries
  <2> DEFINE E == entries \ {a}
  <2>1. E \in SUBSET Names BY DEF TypeInv, TypeOK
  <2>2. IsFiniteSet(E) BY FS_RemoveElement DEF TypeInv
  <2>3. trashed' \in [Msgs -> Times] BY DEF Unlink, TypeInv, TypeOK
  <2>4. Store(E, {a.folder}, {a.msg}) BY <1>1 DEF Unlink
  <2> QED BY <2>1, <2>2, <2>3, <2>4, StoreType
<1>2. CASE a \notin entries
      BY <1>2 DEF Unlink, TypeInv, TypeOK, DiskOK
<1> QED BY <1>1, <1>2

-----------------------------------------------------------------------------
(* Control.                                                                *)

\* The other requests stand where they stood.
OthersStay(s) ==
  \A z \in Sessions \ {s} :
    /\ pc'[z] = pc[z] /\ req'[z] = req[z]
    /\ todo'[z] = todo[z] /\ path'[z] = path[z]

\* The answer to a request empties its process.
LEMMA FinishType ==
  ASSUME TypeInv, NEW s \in Sessions, Finish(s)
  PROVE  /\ LocalOK'
         /\ pc'[s] = "idle"
         /\ OthersStay(s)
<1> USE BlankTypes
<1>1. "idle" \in PCs BY DEF PCs
<1> QED BY <1>1 DEF Finish, Goto, OthersStay, LocalOK, TypeInv, TypeOK

\* A step that only goes on.
LEMMA GotoType ==
  ASSUME TypeInv, NEW s \in Sessions, NEW l \in PCs, Goto(s, l), Keep
  PROVE  /\ LocalOK'
         /\ pc'[s] = l
         /\ OthersStay(s)
BY DEF Goto, Keep, OthersStay, LocalOK, TypeInv, TypeOK

\* After maildir_checknew a request counts or ends.
LEMMA AfterCheckType ==
  ASSUME TypeInv, NEW s \in Sessions, AfterCheck(s)
  PROVE  /\ LocalOK'
         /\ pc'[s] \in {"idle", "cstat"}
         /\ OthersStay(s)
<1>1. CASE req[s].op = "list"
  <2>1. Goto(s, "cstat") /\ Keep BY <1>1 DEF AfterCheck
  <2>2. "cstat" \in PCs BY DEF PCs, CountSteps
  <2> QED BY <2>1, <2>2, GotoType
<1>2. CASE req[s].op # "list"
  <2>1. Finish(s) BY <1>2 DEF AfterCheck
  <2> QED BY <2>1, FinishType
<1> QED BY <1>1, <1>2

\* After a message the next one follows, or maildir_checknew, or the end.
LEMMA AfterMoveType ==
  ASSUME TypeInv, NEW s \in Sessions, NEW rest \in SUBSET Names,
         AfterMove(s, rest)
  PROVE  /\ LocalOK'
         /\ pc'[s] \in {"idle", "pickup", "find"}
         /\ pc'[s] # "idle" => req'[s] = req[s]
         /\ OthersStay(s)
<1>1. CASE req[s].op = "read"
  <2>1. Finish(s) BY <1>1 DEF AfterMove
  <2> QED BY <2>1, FinishType
<1>2. CASE req[s].op # "read"
  <2> DEFINE l == IF rest = {} THEN "pickup" ELSE "find"
  <2>1. l \in PCs BY DEF PCs, CheckSteps, MoveSteps
  <2>2. /\ pc' = [pc EXCEPT ![s] = l]
        /\ todo' = [todo EXCEPT ![s] = rest]
        /\ path' = [path EXCEPT ![s] = NoName]
        /\ UNCHANGED <<req, t0, tally>>
        BY <1>2 DEF AfterMove, Goto
  <2> HIDE DEF l
  <2>3. LocalOK' BY <2>1, <2>2 DEF LocalOK, TypeInv, TypeOK
  <2>4. pc'[s] = l BY <2>2 DEF TypeInv, TypeOK
  <2>5. OthersStay(s) BY <2>2 DEF OthersStay, TypeInv, TypeOK
  <2> QED BY <2>2, <2>3, <2>4, <2>5 DEF l
<1> QED BY <1>1, <1>2

\* A failed move stops a request to move, and no other.
LEMMA MoveFailedType ==
  ASSUME TypeInv, NEW s \in Sessions, MoveFailed(s)
  PROVE  /\ LocalOK'
         /\ pc'[s] \in {"idle", "pickup", "find"}
         /\ pc'[s] # "idle" => req'[s] = req[s]
         /\ OthersStay(s)
<1> DEFINE rest == IF req[s].op = "move" THEN {} ELSE todo[s]
<1>1. rest \in SUBSET Names BY DEF TypeInv, TypeOK
<1>2. AfterMove(s, rest) BY DEF MoveFailed
<1> QED BY <1>1, <1>2, AfterMoveType

\* What a request asks for, from the form that was posted.
LEMMA StartShape ==
  ASSUME TypeInv, NEW s \in Sessions, Start(s)
  PROVE  \E op \in AllOps, f \in Folders, dest \in Folders,
            names \in SUBSET Names, l \in {"pickup", "find", "gather"} :
           /\ Begin(s, op, f, dest, names, l)
           /\ l = "find" =>
                \/ op = "read" /\ f = dest
                \/ op = "delete" /\ dest = Trash
                \/ op = "move" /\ dest # f
<1> USE BlankTypes DEF AllOps
<1>0. Inbox \in Folders /\ Trash \in Folders /\ Emptied \subseteq Folders
      BY FoldersAssumption
<1>1. CASE StartList(s)
  <2>1. PICK f \in Folders : Begin(s, "list", f, f, {}, "pickup")
        BY <1>1 DEF StartList
  <2> QED BY <2>1
<1>2. CASE StartDelete(s)
  <2>0. PICK f \in Folders :
          \E S \in Selections(f) : Begin(s, "delete", f, Trash, S, "find")
        BY <1>2 DEF StartDelete
  <2>1. PICK S \in Selections(f) : Begin(s, "delete", f, Trash, S, "find")
        BY <2>0
  <2>2. S \in SUBSET Names BY DEF Selections, TypeInv, TypeOK
  <2> QED BY <1>0, <2>1, <2>2
<1>3. CASE StartMove(s)
  <2>1. PICK f \in Folders : \E dest \in Folders \ {f}, S \in Selections(f) :
          Begin(s, "move", f, dest, S, "find")
        BY <1>3 DEF StartMove
  <2>2. PICK dest \in Folders \ {f}, S \in Selections(f) :
          Begin(s, "move", f, dest, S, "find")
        BY <2>1
  <2>3. S \in SUBSET Names BY DEF Selections, TypeInv, TypeOK
  <2> QED BY <2>2, <2>3
<1>4. CASE StartRead(s)
  <2>1. PICK e \in shown : Begin(s, "read", e.folder, e.folder, {e}, "find")
        BY <1>4 DEF StartRead
  <2>2. e \in Names BY DEF TypeInv, TypeOK
  <2>3. e.folder \in Folders BY <2>2 DEF Names
  <2> QED BY <2>1, <2>2, <2>3
<1>5. CASE StartEmpty(s)
  <2>1. PICK f \in Emptied : Begin(s, "empty", f, f, {}, "gather")
        BY <1>5 DEF StartEmpty
  <2> QED BY <1>0, <2>1
<1>6. CASE StartLogin(s)
  <2>1. Begin(s, "login", Trash, Trash, {}, "gather")
        BY <1>6 DEF StartLogin
  <2> QED BY <1>0, <2>1
<1> QED BY <1>1, <1>2, <1>3, <1>4, <1>5, <1>6 DEF Start

-----------------------------------------------------------------------------
(* Every step keeps the types.                                             *)

\* A step of s that ends without a name to work on, or with a good one.
LEMMA FoundStep ==
  ASSUME TypeInv, NEW s \in Sessions, OthersStay(s),
         pc'[s] \in {"account", "link", "mark", "expire"} => path'[s] \in Names
  PROVE  FoundOK'
BY DEF FoundOK, OthersStay, TypeInv

\* A step of s, by its parts.
LEMMA LocalStepType ==
  ASSUME TypeInv, NEW s \in Sessions, LocalOK', DiskOK', IsFiniteSet(entries)',
         RestOK', OthersStay(s),
         pc'[s] \in {"account", "link", "mark", "expire"} => path'[s] \in Names
  PROVE  TypeInv'
<1>1. TypeOK' BY DEF TypeOK, DiskOK, LocalOK, RestOK
<1>2. FoundOK' BY FoundStep
<1> QED BY <1>1, <1>2 DEF TypeInv

\* A step that leaves the disk alone.
LEMMA DiskStays ==
  ASSUME TypeInv, UNCHANGED disk
  PROVE  DiskOK' /\ IsFiniteSet(entries)'
BY DEF disk, TypeInv, TypeOK, DiskOK

\* A step that changes nothing but its request and the names.
LEMMA EnvStays ==
  ASSUME TypeInv, UNCHANGED env
  PROVE  RestOK' /\ UNCHANGED counts
BY DEF env, history, TypeInv, TypeOK, RestOK

\* maildir_checknew.
LEMMA CheckNewType ==
  ASSUME TypeInv, NEW s \in Sessions, CheckNew(s)
  PROVE  TypeInv'
<1> USE DEF PCs, CheckSteps, CountSteps, MoveSteps
<1>0. UNCHANGED env
      BY DEF CheckNew, Pickup, ToCur, StatCur, SkipPurge, ScanMarked, Purge,
             Purged
<1>1. RestOK' /\ UNCHANGED counts BY <1>0, EnvStays
<1>2. CASE Pickup(s)
  <2>1. In(req[s].folder, "new") \in SUBSET Names
        BY DEF In, TypeInv, TypeOK
  <2>2. LocalOK' /\ OthersStay(s) /\ pc'[s] = "tocur"
        BY <1>2, <2>1
        DEF Pickup, Goto, LocalOK, OthersStay, TypeInv, TypeOK
  <2>3. DiskOK' /\ IsFiniteSet(entries)' BY <1>2, DiskStays DEF Pickup
  <2> QED BY <1>1, <2>2, <2>3, LocalStepType
<1>3. CASE ToCur(s)
  <2>1. PICK e \in todo[s] :
          /\ Rename(e, [e EXCEPT !.sub = "cur"])
          /\ todo' = [todo EXCEPT ![s] = @ \ {e}]
        BY <1>3 DEF ToCur
  <2>2. e \in Names BY DEF TypeInv, TypeOK
  <2>3. [e EXCEPT !.sub = "cur"] \in Names BY <2>2 DEF Names
  <2>4. DiskOK' /\ IsFiniteSet(entries)' BY <2>1, <2>3, RenameType
  <2>5. LocalOK' /\ OthersStay(s) /\ pc'[s] = "tocur"
        BY <1>3, <2>1 DEF ToCur, LocalOK, OthersStay, TypeInv, TypeOK
  <2> QED BY <1>1, <2>4, <2>5, LocalStepType
<1>4. CASE StatCur(s)
  <2>0. req[s].folder \in Folders BY DEF TypeInv, TypeOK, Requests
  <2>1. LocalOK' /\ OthersStay(s) /\ pc'[s] = "look"
        BY <1>4, <2>0 DEF StatCur, Goto, LocalOK, OthersStay, TypeInv, TypeOK
  <2>2. DiskOK' /\ IsFiniteSet(entries)' BY <1>4, DiskStays DEF StatCur
  <2> QED BY <1>1, <2>1, <2>2, LocalStepType
<1>5. CASE SkipPurge(s)
  <2>1. LocalOK' /\ OthersStay(s) /\ pc'[s] \in {"idle", "cstat"}
        BY <1>5, AfterCheckType DEF SkipPurge, OthersStay
  <2>2. DiskOK' /\ IsFiniteSet(entries)' BY <1>5, DiskStays DEF SkipPurge
  <2> QED BY <1>1, <2>1, <2>2, LocalStepType
<1>6. CASE ScanMarked(s)
  <2>1. {e \in In(req[s].folder, "cur") : Marked(e)} \in SUBSET Names
        BY DEF In, TypeInv, TypeOK
  <2>2. LocalOK' /\ OthersStay(s) /\ pc'[s] = "unlink"
        BY <1>6, <2>1
        DEF ScanMarked, Goto, LocalOK, OthersStay, TypeInv, TypeOK
  <2>3. DiskOK' /\ IsFiniteSet(entries)' BY <1>6, DiskStays DEF ScanMarked
  <2> QED BY <1>1, <2>2, <2>3, LocalStepType
<1>7. CASE Purge(s)
  <2>1. PICK e \in todo[s] :
          /\ Unlink(e)
          /\ todo' = [todo EXCEPT ![s] = @ \ {e}]
        BY <1>7 DEF Purge
  <2>2. DiskOK' /\ IsFiniteSet(entries)' BY <2>1, UnlinkType
  <2>3. LocalOK' /\ OthersStay(s) /\ pc'[s] = "unlink"
        BY <1>7, <2>1 DEF Purge, LocalOK, OthersStay, TypeInv, TypeOK
  <2> QED BY <1>1, <2>2, <2>3, LocalStepType
<1>8. CASE Purged(s)
  <2>1. LocalOK' /\ OthersStay(s) /\ pc'[s] \in {"idle", "cstat"}
        BY <1>8, AfterCheckType DEF Purged, OthersStay
  <2>2. DiskOK' /\ IsFiniteSet(entries)' BY <1>8, DiskStays DEF Purged
  <2> QED BY <1>1, <2>1, <2>2, LocalStepType
<1> QED BY <1>2, <1>3, <1>4, <1>5, <1>6, <1>7, <1>8 DEF CheckNew

\* dodirscan.
LEMMA DirScanType ==
  ASSUME TypeInv, NEW s \in Sessions, DirScan(s)
  PROVE  TypeInv'
<1> USE DEF PCs, CheckSteps, CountSteps, MoveSteps
<1> DEFINE f == req[s].folder
<1>0. f \in Folders /\ now \in Times /\ mtime[f] \in Times
      BY DEF TypeInv, TypeOK, Requests
<1>1. tally[s] \in Caches /\ t0[s] \in Times BY DEF TypeInv, TypeOK
<1>2. CASE CountStat(s)
  <2> DEFINE c == [NoCache EXCEPT !.began = now, !.seen = mtime[f]]
  <2>1. c \in Caches BY <1>0, BlankTypes DEF Caches
  <2>2. LocalOK' /\ OthersStay(s) /\ pc'[s] = "cread"
        BY <1>0, <1>2, <2>1
        DEF CountStat, Goto, LocalOK, OthersStay, TypeInv, TypeOK
  <2>3. DiskOK' /\ IsFiniteSet(entries)' BY <1>2, DiskStays DEF CountStat
  <2>4. RestOK' /\ UNCHANGED counts BY <1>2, EnvStays DEF CountStat
  <2> QED BY <2>2, <2>3, <2>4, LocalStepType
<1>3. CASE UseCache(s)
  <2>1. LocalOK' /\ OthersStay(s) /\ pc'[s] = "idle"
        BY <1>3, FinishType DEF UseCache, OthersStay
  <2>2. DiskOK' /\ IsFiniteSet(entries)' BY <1>3, DiskStays DEF UseCache
  <2>3. RestOK' /\ UNCHANGED counts BY <1>3, EnvStays DEF UseCache
  <2> QED BY <2>1, <2>2, <2>3, LocalStepType
<1>4. CASE Tally(s)
  <2>0. CountOf(f) \in Tallies BY CountType DEF TypeInv
  <2>1. [tally[s] EXCEPT !.count = CountOf(f)] \in Caches
        BY <1>1, <2>0 DEF Caches
  <2>2. tally' = [tally EXCEPT ![s] = [tally[s] EXCEPT !.count = CountOf(f)]]
        BY <1>4 DEF Tally
  <2>3. LocalOK' /\ OthersStay(s) /\ pc'[s] = "truncate"
        BY <1>4, <2>1, <2>2
        DEF Tally, Goto, LocalOK, OthersStay, TypeInv, TypeOK
  <2>4. DiskOK' /\ IsFiniteSet(entries)' BY <1>4, DiskStays DEF Tally
  <2>5. RestOK' /\ UNCHANGED counts BY <1>4, EnvStays DEF Tally
  <2> QED BY <2>3, <2>4, <2>5, LocalStepType
<1>5. CASE TruncateCache(s)
  <2>1. counts' \in [Folders -> Caches \cup {None}]
        BY <1>5 DEF TruncateCache, TypeInv, TypeOK
  <2>2. LocalOK' /\ OthersStay(s) /\ pc'[s] = "write"
        BY <1>5, GotoType DEF TruncateCache, OthersStay, Keep
  <2>3. DiskOK' /\ IsFiniteSet(entries)' BY <1>5, DiskStays DEF TruncateCache
  <2>4. RestOK'
        BY <1>5, <2>1 DEF TruncateCache, RestOK, history, TypeInv, TypeOK
  <2> QED BY <2>2, <2>3, <2>4, LocalStepType
<1>6. CASE WriteCache(s)
  <2> DEFINE c == [tally[s] EXCEPT !.mtime = now]
  <2>1. c \in Caches BY <1>0, <1>1 DEF Caches, Times
  <2>2. counts' = [counts EXCEPT ![f] = c] BY <1>6 DEF WriteCache
  <2> HIDE DEF c
  <2>3. counts' \in [Folders -> Caches \cup {None}]
        BY <2>1, <2>2 DEF TypeInv, TypeOK
  <2>4. LocalOK' /\ OthersStay(s) /\ pc'[s] = "reread"
        BY <1>6, GotoType DEF WriteCache, OthersStay, Keep
  <2>5. DiskOK' /\ IsFiniteSet(entries)' BY <1>6, DiskStays DEF WriteCache
  <2>6. RestOK' BY <1>6, <2>3 DEF WriteCache, RestOK, history, TypeInv, TypeOK
  <2> QED BY <2>4, <2>5, <2>6, LocalStepType
<1>7. CASE RereadCache(s)
  <2>1. DiskOK' /\ IsFiniteSet(entries)' BY <1>7, DiskStays DEF RereadCache
  <2>2. RestOK' BY <1>7, EnvStays DEF RereadCache
  <2>3. CASE counts[f] # None
    <3> DEFINE c == [tally[s] EXCEPT !.mtime = counts[f].mtime]
    <3>1. counts[f] \in Caches BY <1>0, <2>3 DEF TypeInv, TypeOK
    <3>2. c \in Caches BY <1>1, <3>1 DEF Caches
    <3>3. tally' = [tally EXCEPT ![s] = c] BY <1>7, <2>3 DEF RereadCache
    <3> HIDE DEF c
    <3>4. /\ pc' = [pc EXCEPT ![s] = "restat"]
          /\ UNCHANGED <<req, todo, path, t0>>
          BY <1>7, <2>3 DEF RereadCache, Goto
    <3>5. LocalOK' /\ OthersStay(s) /\ pc'[s] = "restat"
          BY <3>2, <3>3, <3>4 DEF LocalOK, OthersStay, TypeInv, TypeOK
    <3> QED BY <2>1, <2>2, <3>5, LocalStepType
  <2>4. CASE counts[f] = None
    <3>1. Finish(s) BY <1>7, <2>4 DEF RereadCache
    <3>2. LocalOK' /\ OthersStay(s) /\ pc'[s] = "idle"
          BY <3>1, FinishType DEF OthersStay
    <3> QED BY <2>1, <2>2, <3>2, LocalStepType
  <2> QED BY <2>3, <2>4
<1>8. CASE Restat(s)
  <2>1. DiskOK' /\ IsFiniteSet(entries)' BY <1>8, DiskStays DEF Restat
  <2>2. RestOK' BY <1>8, EnvStays DEF Restat
  <2>3. CASE Doubtful(s)
    <3>1. Goto(s, "reset") /\ Keep BY <1>8, <2>3 DEF Restat
    <3>2. LocalOK' /\ OthersStay(s) /\ pc'[s] = "reset"
          BY <3>1, GotoType DEF OthersStay, Keep
    <3> QED BY <2>1, <2>2, <3>2, LocalStepType
  <2>4. CASE ~Doubtful(s)
    <3>1. Finish(s) BY <1>8, <2>4 DEF Restat
    <3>2. LocalOK' /\ OthersStay(s) /\ pc'[s] = "idle"
          BY <3>1, FinishType DEF OthersStay
    <3> QED BY <2>1, <2>2, <3>2, LocalStepType
  <2> QED BY <2>3, <2>4
<1>9. CASE ResetCache(s)
  <2> DEFINE c == [counts[f] EXCEPT !.mtime = t0[s] - 1]
  <2>1. counts' \in [Folders -> Caches \cup {None}]
    <3>1. CASE counts[f] # None
      <4>1. counts[f] \in Caches BY <1>0, <3>1 DEF TypeInv, TypeOK
      <4>2. t0[s] - 1 \in -1..MaxTime BY <1>1, BoundsAssumption DEF Times
      <4>3. c \in Caches BY <4>1, <4>2 DEF Caches
      <4>4. counts' = [counts EXCEPT ![f] = c]
            BY <1>9, <3>1 DEF ResetCache, RebuildStamp
      <4> HIDE DEF c
      <4> QED BY <4>3, <4>4 DEF TypeInv, TypeOK
    <3>2. CASE counts[f] = None
          BY <1>9, <3>2 DEF ResetCache, TypeInv, TypeOK
    <3> QED BY <3>1, <3>2
  <2>2. LocalOK' /\ OthersStay(s) /\ pc'[s] = "idle"
        BY <1>9, FinishType DEF ResetCache, OthersStay
  <2>3. DiskOK' /\ IsFiniteSet(entries)' BY <1>9, DiskStays DEF ResetCache
  <2>4. RestOK' BY <1>9, <2>1 DEF ResetCache, RestOK, history, TypeInv, TypeOK
  <2> QED BY <2>2, <2>3, <2>4, LocalStepType
<1> QED BY <1>2, <1>3, <1>4, <1>5, <1>6, <1>7, <1>8, <1>9 DEF DirScan

\* do_msgmove and maildir_markflag.
LEMMA MoveType ==
  ASSUME TypeInv, NEW s \in Sessions, Move(s)
  PROVE  TypeInv'
<1> USE DEF PCs, CheckSteps, CountSteps, MoveSteps
<1>1. CASE Find(s)
  <2>1. DiskOK' /\ IsFiniteSet(entries)' BY <1>1, DiskStays DEF Find
  <2>2. RestOK' /\ UNCHANGED counts BY <1>1, EnvStays DEF Find
  <2>3. PICK e \in todo[s] :
          \/ \E x \in Matches(e) :
               /\ path' = [path EXCEPT ![s] = x]
               /\ todo' = [todo EXCEPT ![s] = @ \ {e}]
               /\ Goto(s, IF req[s].folder = req[s].dest
                          THEN "mark" ELSE "account")
               /\ UNCHANGED <<req, t0, tally>>
          \/ /\ Matches(e) = {}
             /\ AfterMove(s, todo[s] \ {e})
        BY <1>1 DEF Find
  <2>4. ASSUME NEW x \in Matches(e),
               path' = [path EXCEPT ![s] = x],
               todo' = [todo EXCEPT ![s] = @ \ {e}],
               Goto(s, IF req[s].folder = req[s].dest
                       THEN "mark" ELSE "account"),
               UNCHANGED <<req, t0, tally>>
        PROVE  TypeInv'
    <3>1. x \in Names BY DEF Matches, In, TypeInv, TypeOK
    <3>2. /\ LocalOK' /\ OthersStay(s) /\ pc'[s] \in {"mark", "account"}
          /\ path'[s] \in Names
          BY <2>4, <3>1 DEF Goto, LocalOK, OthersStay, TypeInv, TypeOK
    <3> QED BY <2>1, <2>2, <3>2, LocalStepType
  <2>5. ASSUME AfterMove(s, todo[s] \ {e}) PROVE TypeInv'
    <3>1. todo[s] \ {e} \in SUBSET Names BY DEF TypeInv, TypeOK
    <3>2. LocalOK' /\ OthersStay(s) /\ pc'[s] \in {"idle", "pickup", "find"}
          BY <2>5, <3>1, AfterMoveType DEF OthersStay
    <3> QED BY <2>1, <2>2, <3>2, LocalStepType
  <2> QED BY <2>3, <2>4, <2>5
<1>2. CASE Account(s)
  <2>1. DiskOK' /\ IsFiniteSet(entries)' BY <1>2, DiskStays DEF Account
  <2>2. lines' \in [Msgs -> Int] BY <1>2 DEF Account, TypeInv, TypeOK
  <2>3. RestOK' /\ UNCHANGED counts
        BY <1>2, <2>2 DEF Account, RestOK, history, TypeInv, TypeOK
  <2>4. (Goto(s, "link") /\ Keep) \/ MoveFailed(s) BY <1>2 DEF Account
  <2>5. CASE Goto(s, "link") /\ Keep
    <3>1. LocalOK' /\ OthersStay(s) /\ pc'[s] = "link" /\ path'[s] \in Names
          BY <1>2, <2>5, GotoType
          DEF Account, OthersStay, Keep, TypeInv, FoundOK
    <3> QED BY <2>1, <2>3, <3>1, LocalStepType
  <2>6. CASE MoveFailed(s)
    <3>1. LocalOK' /\ OthersStay(s) /\ pc'[s] \in {"idle", "pickup", "find"}
          BY <2>6, MoveFailedType DEF OthersStay
    <3> QED BY <2>1, <2>3, <3>1, LocalStepType
  <2> QED BY <2>4, <2>5, <2>6
<1>3. CASE LinkDest(s)
  <2> DEFINE new == Target(s)
  <2>1. RestOK' /\ UNCHANGED counts BY <1>3, EnvStays DEF LinkDest
  <2>2. CASE ~LinkFails(s, new)
    <3>1. path[s] \in Names
          BY <2>2 DEF LinkFails, TypeInv, TypeOK
    <3>2. new \in Names
          BY <3>1 DEF Target, RemFlag, Names, TypeInv, TypeOK, Requests
    <3>3. /\ Store(entries \cup {new}, {new.folder}, {new.msg})
          /\ Goto(s, "mark") /\ Keep
          /\ trashed' = IF req[s].dest = Trash
                        THEN [trashed EXCEPT ![new.msg] = now] ELSE trashed
          BY <1>3, <2>2 DEF LinkDest
    <3>4. trashed' \in [Msgs -> Times] BY <3>3 DEF TypeInv, TypeOK
    <3>5. IsFiniteSet(entries \cup {new}) BY FS_AddElement DEF TypeInv
    <3>6. entries \cup {new} \in SUBSET Names BY <3>2 DEF TypeInv, TypeOK
    <3>7. DiskOK' /\ IsFiniteSet(entries)'
          BY <3>3, <3>4, <3>5, <3>6, StoreType
    <3>8. /\ LocalOK' /\ OthersStay(s) /\ pc'[s] = "mark"
          /\ path'[s] \in Names
          BY <3>1, <3>3, GotoType DEF OthersStay, Keep
    <3> QED BY <2>1, <3>7, <3>8, LocalStepType
  <2>3. CASE LinkFails(s, new)
    <3>1. MoveFailed(s) /\ UNCHANGED disk BY <1>3, <2>3 DEF LinkDest
    <3>2. LocalOK' /\ OthersStay(s) /\ pc'[s] \in {"idle", "pickup", "find"}
          BY <3>1, MoveFailedType DEF OthersStay
    <3> QED BY <2>1, <3>1, <3>2, DiskStays, LocalStepType
  <2> QED BY <2>2, <2>3
<1>4. CASE Mark(s)
  <2> DEFINE b == AddFlag(path[s], MarkFlag(s))
  <2>1. LocalOK' /\ OthersStay(s) /\ pc'[s] \in {"idle", "pickup", "find"}
    <3>1. todo[s] \in SUBSET Names /\ AfterMove(s, todo[s])
          BY <1>4 DEF Mark, TypeInv, TypeOK
    <3> QED BY <3>1, AfterMoveType DEF OthersStay
  <2>2. Rename(path[s], b) BY <1>4 DEF Mark
  <2>3. DiskOK' /\ IsFiniteSet(entries)'
    <3>1. CASE path[s] \in entries
      <4>1. path[s] \in Names BY <3>1 DEF TypeInv, TypeOK
      <4>2. b \in Names BY <4>1 DEF AddFlag, MarkFlag, Names, Flags
      <4> QED BY <2>2, <4>2, RenameType
    <3>2. CASE path[s] \notin entries
          BY <2>2, <3>2 DEF Rename, TypeInv, TypeOK, DiskOK
    <3> QED BY <3>1, <3>2
  <2>4. expunged' \subseteq Msgs
    <3>1. path[s].msg \in Msgs BY <1>4 DEF Mark, TypeInv, FoundOK, Names
    <3> QED BY <1>4, <3>1 DEF Mark, TypeInv, TypeOK
  <2>5. RestOK' /\ UNCHANGED counts
        BY <1>4, <2>4 DEF Mark, RestOK, TypeInv, TypeOK
  <2> QED BY <2>1, <2>3, <2>5, LocalStepType
<1> QED BY <1>1, <1>2, <1>3, <1>4 DEF Move

\* maildir_deleteall and maildir_autopurge.
LEMMA EmptyType ==
  ASSUME TypeInv, NEW s \in Sessions, Empty(s)
  PROVE  TypeInv'
<1> USE DEF PCs, CheckSteps, CountSteps, MoveSteps
<1>1. CASE Gather(s)
  <2> DEFINE found == In(req[s].folder, "cur")
             l == IF req[s].op = "empty" THEN "wipe" ELSE "age"
  <2>1. found \in SUBSET Names BY DEF In, TypeInv, TypeOK
  <2>2. {e.msg : e \in found} \subseteq Msgs BY <2>1 DEF Names
  <2>3. expunged' \subseteq Msgs BY <1>1, <2>2 DEF Gather, TypeInv, TypeOK
  <2>4. /\ todo' = [todo EXCEPT ![s] = found]
        /\ pc' = [pc EXCEPT ![s] = l]
        /\ UNCHANGED <<req, path, t0, tally>>
        BY <1>1 DEF Gather, Goto
  <2> HIDE DEF found
  <2>5. LocalOK' /\ OthersStay(s) /\ pc'[s] \in {"wipe", "age"}
        BY <2>1, <2>4 DEF LocalOK, OthersStay, TypeInv, TypeOK
  <2>6. DiskOK' /\ IsFiniteSet(entries)' BY <1>1, DiskStays DEF Gather
  <2>7. RestOK' /\ UNCHANGED counts
        BY <1>1, <2>3 DEF Gather, RestOK, TypeInv, TypeOK
  <2> QED BY <2>5, <2>6, <2>7, LocalStepType
<1>2. CASE Wipe(s)
  <2>1. RestOK' /\ UNCHANGED counts BY <1>2, EnvStays DEF Wipe
  <2>2. ASSUME NEW e \in todo[s], Unlink(e),
               todo' = [todo EXCEPT ![s] = @ \ {e}],
               UNCHANGED <<pc, req, path, t0, tally>>
        PROVE  TypeInv'
    <3>1. DiskOK' /\ IsFiniteSet(entries)' BY <2>2, UnlinkType
    <3>2. LocalOK' /\ OthersStay(s) /\ pc'[s] = "wipe"
          BY <1>2, <2>2 DEF Wipe, LocalOK, OthersStay, TypeInv, TypeOK
    <3> QED BY <2>1, <3>1, <3>2, LocalStepType
  <2>3. ASSUME Goto(s, "pickup"), Keep, UNCHANGED disk
        PROVE  TypeInv'
    <3>1. LocalOK' /\ OthersStay(s) /\ pc'[s] = "pickup"
          BY <2>3, GotoType DEF OthersStay
    <3> QED BY <2>1, <2>3, <3>1, DiskStays, LocalStepType
  <2> QED BY <1>2, <2>2, <2>3 DEF Wipe
<1>3. CASE Age(s)
  <2>1. DiskOK' /\ IsFiniteSet(entries)' BY <1>3, DiskStays DEF Age
  <2>2. ASSUME NEW e \in todo[s], e \in entries,
               todo' = [todo EXCEPT ![s] = @ \ {e}],
               path' = [path EXCEPT ![s] = e],
               expunged' = expunged \cup {e.msg}, Goto(s, "expire"),
               UNCHANGED <<req, t0, tally>>
        PROVE  TypeInv'
    <3>1. e \in Names /\ e.msg \in Msgs BY <2>2 DEF Names, TypeInv, TypeOK
    <3>2. /\ LocalOK' /\ OthersStay(s) /\ pc'[s] = "expire"
          /\ path'[s] \in Names
          BY <2>2, <3>1 DEF Goto, LocalOK, OthersStay, TypeInv, TypeOK
    <3>3. RestOK' /\ UNCHANGED counts
          BY <1>3, <2>2, <3>1 DEF Age, RestOK, TypeInv, TypeOK
    <3> QED BY <2>1, <3>2, <3>3, LocalStepType
  <2>3. ASSUME NEW e \in todo[s], todo' = [todo EXCEPT ![s] = @ \ {e}],
               UNCHANGED <<path, expunged, pc>>, UNCHANGED <<req, t0, tally>>
        PROVE  TypeInv'
    <3>1. LocalOK' /\ OthersStay(s) /\ pc'[s] = "age"
          BY <1>3, <2>3 DEF Age, LocalOK, OthersStay, TypeInv, TypeOK
    <3>2. RestOK' /\ UNCHANGED counts
          BY <1>3, <2>3 DEF Age, RestOK, TypeInv, TypeOK
    <3> QED BY <2>1, <3>1, <3>2, LocalStepType
  <2>4. ASSUME Finish(s), UNCHANGED expunged
        PROVE  TypeInv'
    <3>1. LocalOK' /\ OthersStay(s) /\ pc'[s] = "idle"
          BY <2>4, FinishType DEF OthersStay
    <3>2. RestOK' /\ UNCHANGED counts
          BY <1>3, <2>4 DEF Age, RestOK, TypeInv, TypeOK
    <3> QED BY <2>1, <3>1, <3>2, LocalStepType
  <2> QED BY <1>3, <2>2, <2>3, <2>4 DEF Age
<1>4. CASE ExpireName(s)
  <2>1. RestOK' /\ UNCHANGED counts BY <1>4, EnvStays DEF ExpireName
  <2>2. DiskOK' /\ IsFiniteSet(entries)' BY <1>4, UnlinkType DEF ExpireName
  <2>3. LocalOK' /\ OthersStay(s) /\ pc'[s] = "age"
        BY <1>4 DEF ExpireName, Goto, LocalOK, OthersStay, TypeInv, TypeOK
  <2> QED BY <2>1, <2>2, <2>3, LocalStepType
<1> QED BY <1>1, <1>2, <1>3, <1>4 DEF Empty

\* A request comes in.
LEMMA StartType ==
  ASSUME TypeInv, NEW s \in Sessions, Start(s)
  PROVE  TypeInv'
<1> USE DEF PCs, CheckSteps, CountSteps, MoveSteps
<1>1. PICK op \in AllOps, f \in Folders, dest \in Folders,
            names \in SUBSET Names, l \in {"pickup", "find", "gather"} :
        Begin(s, op, f, dest, names, l)
      BY StartShape
<1>2. [op |-> op, folder |-> f, dest |-> dest] \in Requests BY DEF Requests
<1>3. LocalOK' /\ OthersStay(s) /\ pc'[s] = l
      BY <1>1, <1>2 DEF Begin, Goto, LocalOK, OthersStay, TypeInv, TypeOK
<1>4. DiskOK' /\ IsFiniteSet(entries)' BY <1>1, DiskStays DEF Begin
<1>5. calm' \in BOOLEAN
  <2>1. calm' = (calm /\ Undisturbed(s, op, names)) BY <1>1 DEF Begin
  <2> QED BY <2>1, Zenon
<1>6. ops' \in 0..MaxOps
      BY <1>1, BoundsAssumption DEF Begin, TypeInv, TypeOK
<1>7. RestOK' /\ UNCHANGED counts
      BY <1>1, <1>5, <1>6 DEF Begin, RestOK, TypeInv, TypeOK
<1> QED BY <1>3, <1>4, <1>7, LocalStepType

\* A message arrives, the clock ticks.
LEMMA WorldType ==
  ASSUME TypeInv, (\E m \in Msgs : Deliver(m)) \/ Tick
  PROVE  TypeInv'
<1>1. ASSUME NEW m \in Msgs, Deliver(m) PROVE TypeInv'
  <2> DEFINE e == [msg |-> m, folder |-> Inbox, sub |-> "new", flags |-> {}]
  <2>1. e \in Names BY BlankTypes DEF Names
  <2>2. entries' = entries \cup {e} BY <1>1 DEF Deliver
  <2> HIDE DEF e
  <2>3. IsFiniteSet(entries') BY <2>2, FS_AddElement DEF TypeInv
  <2>4. DiskOK' BY <1>1, <2>1, <2>2 DEF Deliver, DiskOK, TypeInv, TypeOK
  <2>5. LocalOK' BY <1>1 DEF Deliver, local, LocalOK, TypeInv, TypeOK
  <2>6. RestOK' BY <1>1 DEF Deliver, RestOK, TypeInv, TypeOK
  <2>7. TypeOK' BY <2>4, <2>5, <2>6 DEF TypeOK, DiskOK, LocalOK, RestOK
  <2>8. FoundOK'
        BY <1>1 DEF Deliver, local, FoundOK, TypeInv
  <2> QED BY <2>3, <2>7, <2>8 DEF TypeInv
<1>2. CASE Tick
  <2>1. now' \in Times
        BY <1>2, BoundsAssumption DEF Tick, Times, TypeInv, TypeOK
  <2>2. TypeOK'
        BY <1>2, <2>1 DEF Tick, disk, local, history, TypeInv, TypeOK
  <2>3. FoundOK' /\ IsFiniteSet(entries)'
        BY <1>2 DEF Tick, disk, local, FoundOK, TypeInv
  <2> QED BY <2>2, <2>3 DEF TypeInv
<1> QED BY <1>1, <1>2

\* A request is killed.
LEMMA CrashType ==
  ASSUME TypeInv, NEW s \in Sessions, Crash(s)
  PROVE  TypeInv'
<1>1. LocalOK' /\ OthersStay(s) /\ pc'[s] = "idle"
      BY FinishType DEF Crash, OthersStay
<1>2. DiskOK' /\ IsFiniteSet(entries)' BY DiskStays DEF Crash
<1>3. RestOK' /\ UNCHANGED counts BY DEF Crash, RestOK, TypeInv, TypeOK
<1> QED BY <1>1, <1>2, <1>3, LocalStepType

\* Nothing happens.
LEMMA StutterType == TypeInv /\ UNCHANGED vars => TypeInv'
BY DEF vars, disk, local, history, TypeInv, TypeOK, FoundOK

\* Every step of a request, of the world and of a crash keeps the types
\* (maildir_count, folder_delmsgs, maildir_autopurge).
LEMMA NextType == TypeInv /\ [Next]_vars => TypeInv'
BY StartType, CheckNewType, DirScanType, MoveType, EmptyType, WorldType,
   CrashType, StutterType DEF Next, Normal

\* The types hold in every state that the requests can reach (maildir.c).
LEMMA TypeInvariant == Spec => []TypeInv
BY InitType, NextType, PTL DEF Spec

\* Every variable keeps its type, whatever the requests do to each other and
\* wherever they are killed; in particular a request that has written the
\* counts never finds the file gone (dodirscan reopens it and stats it), and
\* one that links or marks a name has found one (maildir_find).
THEOREM FolderTypeCorrect == Spec => []TypeOK
BY TypeInvariant, PTL DEF TypeInv

-----------------------------------------------------------------------------
(* No message is lost: the invariant.                                      *)

\* Who is about to mark a name of m after linking another one.
Moving(m) ==
  {s \in Sessions : /\ pc[s] = "mark" /\ req[s].folder # req[s].dest
                    /\ path[s].msg = m}

\* More live names than there are requests about to mark one.
EnoughNames ==
  \A m \in arrived \ expunged :
    Cardinality(Moving(m)) < Cardinality(LiveNames(m))

\* What a request that stands somewhere has done before.
HereOK(s) ==
  /\ pc[s] \in MoveSteps =>
       \/ req[s].op = "read" /\ req[s].folder = req[s].dest
       \/ req[s].op = "delete" /\ req[s].dest = Trash
       \/ req[s].op = "move" /\ req[s].folder # req[s].dest
  /\ pc[s] \in {"account", "link", "mark"} => path[s].msg \in arrived
  /\ pc[s] = "unlink" => \A e \in todo[s] : Marked(e)
  /\ pc[s] = "wipe" => \A e \in todo[s] : e.msg \in expunged
  /\ pc[s] = "expire" => path[s].msg \in expunged

KnownNames == \A e \in entries : e.msg \in arrived

Control == KnownNames /\ \A s \in Sessions : HereOK(s)

NoLossInv == TypeInv /\ Control /\ EnoughNames

-----------------------------------------------------------------------------
(* Counting.                                                               *)

\* A exceeds B, and still does after a step that takes a member of A only
\* with one of B or for another, and adds to B only with a new one in A.
LEMMA Outnumber ==
  ASSUME NEW A, NEW B, NEW A1, NEW B1,
         IsFiniteSet(A), IsFiniteSet(B), IsFiniteSet(A1),
         Cardinality(B) < Cardinality(A),
         \/ A \subseteq A1 /\ B1 \subseteq B
         \/ \E x \in A1 \ A : \E y : A \subseteq A1 /\ B1 \subseteq B \cup {y}
         \/ \E x : \E y \in B : A \ {x} \subseteq A1 /\ B1 \subseteq B \ {y}
         \/ \E x : \E z \in A1 \ A : A \ {x} \subseteq A1 /\ B1 \subseteq B
  PROVE  Cardinality(B1) < Cardinality(A1)
<1> DEFINE n(S) == Cardinality(S)
<1>1. n(A) \in Nat /\ n(B) \in Nat /\ n(A1) \in Nat BY FS_CardinalityType
<1>2. ASSUME NEW S, IsFiniteSet(S), NEW T, T \subseteq S
      PROVE  IsFiniteSet(T) /\ n(T) \in Nat /\ n(T) <= n(S)
  <2>1. T \in SUBSET S BY <1>2
  <2>2. IsFiniteSet(T) /\ n(T) <= n(S) BY <1>2, <2>1, FS_Subset
  <2> QED BY <2>2, FS_CardinalityType
<1>3. ASSUME NEW x PROVE IsFiniteSet(A \ {x}) /\ n(A \ {x}) >= n(A) - 1
  <2>1. n(A \ {x}) = IF x \in A THEN n(A) - 1 ELSE n(A)
        BY FS_RemoveElement
  <2>2. IsFiniteSet(A \ {x}) BY FS_RemoveElement
  <2> QED BY <1>1, <2>1, <2>2
<1>4. CASE A \subseteq A1 /\ B1 \subseteq B
  <2>1. n(A) <= n(A1) /\ n(B1) <= n(B) /\ n(B1) \in Nat BY <1>2, <1>4
  <2> QED BY <1>1, <2>1
<1>5. ASSUME NEW x \in A1 \ A, NEW y, A \subseteq A1, B1 \subseteq B \cup {y}
      PROVE  n(B1) < n(A1)
  <2>1. n(A \cup {x}) = n(A) + 1 BY <1>5, FS_AddElement
  <2>2. A \cup {x} \subseteq A1 BY <1>5
  <2>3. n(A) + 1 <= n(A1) BY <1>2, <2>1, <2>2
  <2>4. IsFiniteSet(B \cup {y}) /\ n(B \cup {y}) <= n(B) + 1
    <3>1. n(B \cup {y}) = IF y \in B THEN n(B) ELSE n(B) + 1
          BY FS_AddElement
    <3>2. IsFiniteSet(B \cup {y}) BY FS_AddElement
    <3> QED BY <1>1, <3>1, <3>2
  <2>5. n(B1) <= n(B \cup {y}) /\ n(B1) \in Nat BY <1>2, <1>5, <2>4
  <2>6. n(B \cup {y}) \in Nat BY <2>4, FS_CardinalityType
  <2> QED BY <1>1, <2>3, <2>4, <2>5, <2>6
<1>6. ASSUME NEW x, NEW y \in B, A \ {x} \subseteq A1, B1 \subseteq B \ {y}
      PROVE  n(B1) < n(A1)
  <2>1. IsFiniteSet(B \ {y}) /\ n(B \ {y}) = n(B) - 1
        BY <1>6, FS_RemoveElement
  <2>2. IsFiniteSet(A \ {x}) /\ n(A \ {x}) >= n(A) - 1
        BY <1>3
  <2>3. n(B1) <= n(B) - 1 /\ n(B1) \in Nat BY <1>2, <1>6, <2>1
  <2>4. n(A \ {x}) <= n(A1) /\ n(A \ {x}) \in Nat
        BY <1>2, <1>6, FS_CardinalityType
  <2> QED BY <1>1, <2>2, <2>3, <2>4
<1>7. ASSUME NEW x, NEW z \in A1 \ A, A \ {x} \subseteq A1, B1 \subseteq B
      PROVE  n(B1) < n(A1)
  <2>1. IsFiniteSet(A \ {x}) /\ n(A \ {x}) >= n(A) - 1
        BY <1>3
  <2>2. n((A \ {x}) \cup {z}) = n(A \ {x}) + 1 BY <2>1, FS_AddElement
  <2>3. (A \ {x}) \cup {z} \subseteq A1 BY <1>7
  <2>4. n((A \ {x}) \cup {z}) <= n(A1) BY <1>2, <2>3
  <2>5. n(B1) <= n(B) /\ n(B1) \in Nat BY <1>2, <1>7
  <2>6. n(A \ {x}) \in Nat BY <2>1, FS_CardinalityType
  <2> QED BY <1>1, <2>1, <2>2, <2>4, <2>5, <2>6
<1> QED BY <1>4, <1>5, <1>6, <1>7

\* What is counted is finite.
LEMMA FiniteCounts ==
  ASSUME TypeInv, NEW m
  PROVE  IsFiniteSet(LiveNames(m)) /\ IsFiniteSet(Moving(m))
<1>1. LiveNames(m) \in SUBSET entries BY DEF LiveNames
<1>2. Moving(m) \in SUBSET Sessions BY DEF Moving
<1> QED BY <1>1, <1>2, FS_Subset, SessionsAssumption DEF TypeInv

\* A live name is kept, or another one takes its place.
LivesOn(m) ==
  \/ LiveNames(m) \subseteq LiveNames(m)'
  \/ \E x : \E z \in LiveNames(m)' \ LiveNames(m) :
       LiveNames(m) \ {x} \subseteq LiveNames(m)'

\* The same, of the next state.
LEMMA FinitePrime ==
  ASSUME TypeInv', NEW m
  PROVE  IsFiniteSet(LiveNames(m)')
<1>1. IsFiniteSet(entries') BY DEF TypeInv
<1>2. LiveNames(m)' \in SUBSET entries' BY DEF LiveNames
<1> QED BY <1>1, <1>2, FS_Subset

\* Steps that move nothing.
LEMMA EnoughKept ==
  ASSUME TypeInv, TypeInv', EnoughNames,
         \A m : Moving(m)' \subseteq Moving(m),
         arrived' = arrived, expunged \subseteq expunged',
         \A m \in arrived \ expunged' : LivesOn(m)
  PROVE  EnoughNames'
<1> SUFFICES ASSUME NEW m \in arrived \ expunged'
             PROVE  Cardinality(Moving(m)') < Cardinality(LiveNames(m)')
    BY DEF EnoughNames
<1>1. /\ IsFiniteSet(LiveNames(m)) /\ IsFiniteSet(Moving(m))
      /\ IsFiniteSet(LiveNames(m)')
      BY FiniteCounts, FinitePrime
<1>2. Cardinality(Moving(m)) < Cardinality(LiveNames(m)) BY DEF EnoughNames
<1>3. LivesOn(m) /\ Moving(m)' \subseteq Moving(m) OBVIOUS
<1> QED BY <1>1, <1>2, <1>3, Outnumber DEF LivesOn

\* A request that does not arrive at a mark adds no mover.
LEMMA MoversKept ==
  ASSUME NEW s \in Sessions, OthersStay(s),
         pc'[s] # "mark" \/ req'[s].folder = req'[s].dest
  PROVE  \A m : Moving(m)' \subseteq Moving(m) \ {s}
BY DEF Moving, OthersStay

\* Names that stay are live as before.
LEMMA LiveKept ==
  ASSUME NEW m, \A e \in entries : e.msg = m /\ Live(e) => e \in entries'
  PROVE  LivesOn(m)
BY DEF LivesOn, LiveNames

\* rename(2) of a name to one of the same message keeps the number of live
\* names, if a live one stays live.
LEMMA RenameLives ==
  ASSUME NEW a, NEW b, Rename(a, b), b.msg = a.msg, Live(a) => Live(b), NEW m
  PROVE  LivesOn(m)
<1>1. CASE a \in entries /\ b \notin entries
  <2>1. entries' = (entries \ {a}) \cup {b} BY <1>1 DEF Rename, Store
  <2>2. CASE a \in LiveNames(m)
    <3>1. a.msg = m /\ Live(b) BY <2>2 DEF LiveNames
    <3>2. b \in LiveNames(m)' \ LiveNames(m)
          BY <1>1, <2>1, <3>1 DEF LiveNames
    <3>3. LiveNames(m) \ {a} \subseteq LiveNames(m)' BY <2>1 DEF LiveNames
    <3> QED BY <3>2, <3>3 DEF LivesOn
  <2>3. CASE a \notin LiveNames(m)
        BY <2>1, <2>3 DEF LivesOn, LiveNames
  <2> QED BY <2>2, <2>3
<1>2. CASE ~(a \in entries /\ b \notin entries)
      BY <1>2 DEF Rename, LivesOn, LiveNames
<1> QED BY <1>1, <1>2

\* unlink(2) of a name that is marked, or of another message.
LEMMA UnlinkLives ==
  ASSUME NEW a, Unlink(a), NEW m, Marked(a) \/ a.msg # m
  PROVE  LivesOn(m)
BY DEF Unlink, Store, LivesOn, LiveNames, Live

-----------------------------------------------------------------------------
(* Every step keeps the invariant.                                         *)

\* A step of s after which it is not about to mark for another folder.
LEMMA PlainStep ==
  ASSUME NoLossInv, TypeInv', NEW s \in Sessions, OthersStay(s),
         arrived' = arrived, expunged \subseteq expunged',
         KnownNames', HereOK(s)',
         pc'[s] # "mark" \/ req'[s].folder = req'[s].dest,
         \A m \in arrived \ expunged' : LivesOn(m)
  PROVE  NoLossInv'
<1>1. Control'
  <2>1. ASSUME NEW z \in Sessions PROVE HereOK(z)'
    <3>1. CASE z = s BY <3>1
    <3>2. CASE z # s BY <3>2 DEF NoLossInv, Control, HereOK, OthersStay
    <3> QED BY <3>1, <3>2
  <2> QED BY <2>1 DEF Control
<1>2. EnoughNames' BY MoversKept, EnoughKept DEF NoLossInv
<1> QED BY <1>1, <1>2 DEF NoLossInv

\* Such a step that leaves the disk alone.
LEMMA IdleDisk ==
  ASSUME NoLossInv, TypeInv', NEW s \in Sessions, OthersStay(s),
         arrived' = arrived, expunged \subseteq expunged', UNCHANGED disk,
         HereOK(s)',
         pc'[s] # "mark" \/ req'[s].folder = req'[s].dest
  PROVE  NoLossInv'
<1>1. entries' = entries BY DEF disk
<1>2. KnownNames' BY <1>1 DEF KnownNames, NoLossInv, Control
<1>3. \A m \in arrived \ expunged' : LivesOn(m) BY <1>1, LiveKept
<1> QED BY <1>2, <1>3, PlainStep

\* rename(2) and unlink(2) bring up no new message.
LEMMA NamesKnown ==
  ASSUME Control, arrived' = arrived, NEW a, NEW b, b.msg = a.msg,
         Rename(a, b) \/ Unlink(a)
  PROVE  KnownNames'
BY DEF Control, KnownNames, Rename, Unlink, Store

\* maildir_checknew unlinks only what was marked when it read the directory.
LEMMA CheckNewNoLoss ==
  ASSUME NoLossInv, TypeInv', NEW s \in Sessions, CheckNew(s)
  PROVE  NoLossInv'
<1> USE DEF MoveSteps
<1>0. TypeInv /\ Control BY DEF NoLossInv
<1>1. arrived' = arrived /\ expunged' = expunged
      BY DEF CheckNew, Pickup, ToCur, StatCur, SkipPurge, ScanMarked, Purge,
             Purged, env, history
<1>2. CASE Pickup(s) \/ StatCur(s)
  <2>1. OthersStay(s) /\ pc'[s] \in {"tocur", "look"} /\ UNCHANGED disk
        BY <1>0, <1>2
        DEF Pickup, StatCur, Goto, OthersStay, TypeInv, TypeOK
  <2>2. HereOK(s)' BY <2>1 DEF HereOK
  <2> QED BY <1>1, <2>1, <2>2, IdleDisk
<1>3. CASE ToCur(s)
  <2>1. PICK e \in todo[s] :
          /\ Rename(e, [e EXCEPT !.sub = "cur"])
          /\ todo' = [todo EXCEPT ![s] = @ \ {e}]
        BY <1>3 DEF ToCur
  <2> DEFINE b == [e EXCEPT !.sub = "cur"]
  <2>2. e \in Names BY <1>0 DEF TypeInv, TypeOK
  <2>3. b.msg = e.msg /\ b.flags = e.flags BY <2>2 DEF Names
  <2>4. Rename(e, b) BY <2>1
  <2> HIDE DEF b
  <2>5. OthersStay(s) /\ pc'[s] = "tocur"
        BY <1>0, <1>3, <2>1 DEF ToCur, OthersStay, TypeInv, TypeOK
  <2>6. HereOK(s)' BY <2>5 DEF HereOK
  <2>7. KnownNames' BY <1>0, <1>1, <2>3, <2>4, NamesKnown
  <2>8. \A m : LivesOn(m)
        BY <2>3, <2>4, RenameLives DEF Live, Marked
  <2> QED BY <1>1, <2>5, <2>6, <2>7, <2>8, PlainStep
<1>4. CASE SkipPurge(s) \/ Purged(s)
  <2>1. AfterCheck(s) /\ UNCHANGED disk BY <1>4 DEF SkipPurge, Purged
  <2>2. OthersStay(s) /\ pc'[s] \in {"idle", "cstat"}
        BY <1>0, <2>1, AfterCheckType
  <2>3. HereOK(s)' BY <2>2 DEF HereOK
  <2> QED BY <1>1, <2>1, <2>2, <2>3, IdleDisk
<1>5. CASE ScanMarked(s)
  <2>1. /\ OthersStay(s) /\ pc'[s] = "unlink" /\ UNCHANGED disk
        /\ todo'[s] = {e \in In(req[s].folder, "cur") : Marked(e)}
        BY <1>0, <1>5 DEF ScanMarked, Goto, OthersStay, TypeInv, TypeOK
  <2>2. HereOK(s)' BY <2>1 DEF HereOK, Marked
  <2> QED BY <1>1, <2>1, <2>2, IdleDisk
<1>6. CASE Purge(s)
  <2>1. PICK e \in todo[s] :
          /\ Unlink(e)
          /\ todo' = [todo EXCEPT ![s] = @ \ {e}]
        BY <1>6 DEF Purge
  <2>2. /\ OthersStay(s) /\ pc[s] = "unlink" /\ pc'[s] = "unlink"
        /\ todo'[s] \subseteq todo[s]
        BY <1>0, <1>6, <2>1 DEF Purge, OthersStay, TypeInv, TypeOK
  <2>3. \A x \in todo[s] : Marked(x) BY <1>0, <2>2 DEF Control, HereOK
  <2>4. HereOK(s)' BY <2>2, <2>3 DEF HereOK, Marked
  <2>5. KnownNames' BY <1>0, <1>1, <2>1, NamesKnown
  <2>6. \A m : LivesOn(m) BY <2>1, <2>3, UnlinkLives
  <2> QED BY <1>1, <2>2, <2>4, <2>5, <2>6, PlainStep
<1> QED BY <1>2, <1>3, <1>4, <1>5, <1>6 DEF CheckNew

\* dodirscan touches no message.
LEMMA DirScanNoLoss ==
  ASSUME NoLossInv, TypeInv', NEW s \in Sessions, DirScan(s)
  PROVE  NoLossInv'
<1> USE DEF MoveSteps
<1>0. TypeInv BY DEF NoLossInv
<1>1. arrived' = arrived /\ expunged' = expunged /\ UNCHANGED disk
      BY DEF DirScan, CountStat, UseCache, Tally, TruncateCache,
             WriteCache, RereadCache, Restat, ResetCache, env, history
<1>2. OthersStay(s) /\ pc'[s] \in CountSteps \cup {"idle"}
  <2> USE DEF CountSteps
  <2>1. CASE UseCache(s) \/ ResetCache(s) \/ Finish(s)
    <3>1. Finish(s) BY <2>1 DEF UseCache, ResetCache
    <3> QED BY <1>0, <3>1, FinishType
  <2>2. CASE Restat(s)
    <3>1. (Goto(s, "reset") /\ Keep) \/ Finish(s) BY <2>2 DEF Restat
    <3>2. "reset" \in PCs BY DEF PCs
    <3> QED BY <1>0, <3>1, <3>2, FinishType, GotoType
  <2>3. CASE /\ ~Finish(s)
             /\ \/ CountStat(s) \/ Tally(s) \/ TruncateCache(s)
                \/ WriteCache(s) \/ RereadCache(s)
        BY <1>0, <2>3 DEF CountStat, Tally, TruncateCache,
                          WriteCache, RereadCache, Goto, Keep, OthersStay, TypeInv, TypeOK
  <2> QED BY <2>1, <2>2, <2>3 DEF DirScan
<1>3. HereOK(s)' BY <1>2 DEF HereOK, CountSteps
<1> QED BY <1>1, <1>2, <1>3, IdleDisk DEF CountSteps

\* do_msgmove links a name that was not there before it becomes one that is
\* about to mark, and the mark takes at most the name it is meant for.
LEMMA LinkNoLoss ==
  ASSUME NoLossInv, TypeInv', NEW s \in Sessions, pc[s] = "link",
         LinkDest(s), ~LinkFails(s, Target(s))
  PROVE  NoLossInv'
<1> USE DEF MoveSteps
<1> DEFINE new == Target(s)
<1>0. TypeInv /\ Control /\ EnoughNames BY DEF NoLossInv
<1>1. /\ entries' = entries \cup {new} /\ new \notin entries
      /\ Goto(s, "mark") /\ Keep
      /\ arrived' = arrived /\ expunged' = expunged
      BY DEF LinkDest, LinkFails, Store, env, history
<1>2. path[s] \in Names /\ path[s].msg \in arrived
      BY <1>0 DEF LinkFails, TypeInv, FoundOK, Control, HereOK
<1>3. new.msg = path[s].msg /\ Live(new)
      BY <1>2 DEF Target, RemFlag, Live, Marked, Names
<1>4. /\ OthersStay(s) /\ pc'[s] = "mark"
      /\ req' = req /\ path' = path
      BY <1>0, <1>1 DEF Goto, Keep, OthersStay, TypeInv, TypeOK
<1> HIDE DEF new
<1>5. Control'
  <2>1. HereOK(s) BY <1>0 DEF Control
  <2>2. HereOK(s)' BY <1>1, <1>2, <1>4, <2>1 DEF HereOK
  <2>3. ASSUME NEW z \in Sessions \ {s} PROVE HereOK(z)'
        BY <1>0, <1>1, <1>4, <2>3 DEF Control, HereOK, OthersStay
  <2>4. KnownNames' BY <1>0, <1>1, <1>2, <1>3 DEF Control, KnownNames
  <2> QED BY <2>2, <2>3, <2>4 DEF Control
<1>6. EnoughNames'
  <2> SUFFICES ASSUME NEW m \in arrived \ expunged
               PROVE  Cardinality(Moving(m)') < Cardinality(LiveNames(m)')
      BY <1>1 DEF EnoughNames
  <2>1. /\ IsFiniteSet(LiveNames(m)) /\ IsFiniteSet(Moving(m))
        /\ IsFiniteSet(LiveNames(m)')
        BY <1>0, FiniteCounts, FinitePrime
  <2>2. Cardinality(Moving(m)) < Cardinality(LiveNames(m))
        BY <1>0 DEF EnoughNames
  <2>3. LiveNames(m) \subseteq LiveNames(m)' BY <1>1 DEF LiveNames
  <2>4. CASE m = path[s].msg
    <3>1. new \in LiveNames(m)' \ LiveNames(m)
          BY <1>1, <1>3, <2>4 DEF LiveNames
    <3>2. Moving(m)' \subseteq Moving(m) \cup {s}
          BY <1>4 DEF Moving, OthersStay
    <3> QED BY <2>1, <2>2, <2>3, <3>1, <3>2, Outnumber
  <2>5. CASE m # path[s].msg
    <3>1. Moving(m)' \subseteq Moving(m)
          BY <1>4, <2>5 DEF Moving, OthersStay
    <3> QED BY <2>1, <2>2, <2>3, <3>1, Outnumber
  <2> QED BY <2>4, <2>5
<1> QED BY <1>5, <1>6 DEF NoLossInv

\* The mark of a move, or the flag of a message that was read, or the mark of
\* a message that is to be removed for good.
LEMMA MarkNoLoss ==
  ASSUME NoLossInv, TypeInv', NEW s \in Sessions, Mark(s)
  PROVE  NoLossInv'
<1> USE DEF MoveSteps
<1> DEFINE a == path[s]
           b == AddFlag(path[s], MarkFlag(s))
<1>0. TypeInv /\ Control /\ EnoughNames /\ pc[s] = "mark"
      BY DEF NoLossInv, Mark
<1>1. /\ Rename(a, b) /\ arrived' = arrived /\ expunged \subseteq expunged'
      BY DEF Mark
<1>2. a \in Names BY <1>0 DEF TypeInv, FoundOK
<1>3. b.msg = a.msg /\ b.flags = a.flags \cup {MarkFlag(s)}
      BY <1>2 DEF AddFlag, Names
<1>4. /\ OthersStay(s) /\ pc'[s] \in {"idle", "pickup", "find"}
      /\ pc'[s] # "idle" => req'[s] = req[s]
  <2>1. todo[s] \in SUBSET Names /\ AfterMove(s, todo[s])
        BY <1>0 DEF Mark, TypeInv, TypeOK
  <2> QED BY <1>0, <2>1, AfterMoveType
<1>5. HereOK(s) BY <1>0 DEF Control
<1>6. HereOK(s)' BY <1>0, <1>4, <1>5 DEF HereOK
<1>7. KnownNames' BY <1>0, <1>1, <1>3, NamesKnown
<1> HIDE DEF b
<1>8. CASE req[s].folder = req[s].dest
  <2>1. \A m \in arrived \ expunged' : LivesOn(m)
    <3>1. CASE req[s].op = "read"
      <4>1. Live(a) => Live(b)
            BY <1>3, <3>1 DEF Live, Marked, MarkFlag
      <4> QED BY <1>1, <1>3, <4>1, RenameLives
    <3>2. CASE req[s].op = "delete" /\ req[s].folder = Trash
      <4>1. a.msg \in expunged' BY <3>2 DEF Mark
      <4>2. ASSUME NEW m \in arrived \ expunged' PROVE LivesOn(m)
            BY <1>1, <4>1, <4>2, LiveKept DEF Rename, Store
      <4> QED BY <4>2
    <3> QED BY <1>0, <1>5, <1>8, <3>1, <3>2 DEF HereOK
  <2> QED BY <1>1, <1>4, <1>6, <1>7, <2>1, PlainStep
<1>9. CASE req[s].folder # req[s].dest
  <2>1. Control'
    <3>1. ASSUME NEW z \in Sessions \ {s} PROVE HereOK(z)'
          BY <1>0, <1>1, <1>4, <3>1 DEF Control, HereOK, OthersStay
    <3> QED BY <1>6, <1>7, <3>1 DEF Control
  <2>2. EnoughNames'
    <3> SUFFICES ASSUME NEW m \in arrived \ expunged'
                 PROVE  Cardinality(Moving(m)') < Cardinality(LiveNames(m)')
        BY <1>1 DEF EnoughNames
    <3>0. m \in arrived \ expunged BY <1>1
    <3>1. /\ IsFiniteSet(LiveNames(m)) /\ IsFiniteSet(Moving(m))
          /\ IsFiniteSet(LiveNames(m)')
          BY <1>0, FiniteCounts, FinitePrime
    <3>2. Cardinality(Moving(m)) < Cardinality(LiveNames(m))
          BY <1>0, <3>0 DEF EnoughNames
    <3>3. Moving(m)' \subseteq Moving(m) \ {s} BY <1>4, MoversKept
    <3>4. LiveNames(m) \ {a} \subseteq LiveNames(m)'
          BY <1>1 DEF LiveNames, Rename, Store
    <3>5. CASE m = a.msg
      <4>1. s \in Moving(m) BY <1>0, <1>9, <3>5 DEF Moving
      <4> QED BY <3>1, <3>2, <3>3, <3>4, <4>1, Outnumber
    <3>6. CASE m # a.msg
      <4>1. LiveNames(m) \subseteq LiveNames(m)'
            BY <3>4, <3>6 DEF LiveNames
      <4>2. Moving(m)' \subseteq Moving(m) BY <3>3
      <4> QED BY <3>1, <3>2, <4>1, <4>2, Outnumber
    <3> QED BY <3>5, <3>6
  <2> QED BY <2>1, <2>2 DEF NoLossInv
<1> QED BY <1>8, <1>9

\* do_msgmove and maildir_markflag.
LEMMA MoveNoLoss ==
  ASSUME NoLossInv, TypeInv', NEW s \in Sessions, Move(s)
  PROVE  NoLossInv'
<1> USE DEF MoveSteps
<1>0. TypeInv /\ Control BY DEF NoLossInv
<1>1. HereOK(s) BY <1>0 DEF Control
<1>2. ASSUME UNCHANGED disk, arrived' = arrived, expunged' = expunged,
             pc[s] \in MoveSteps, OthersStay(s),
             pc'[s] \in {"idle", "pickup", "find"},
             pc'[s] # "idle" => req'[s] = req[s]
      PROVE  NoLossInv'
  <2>1. HereOK(s)' BY <1>1, <1>2 DEF HereOK
  <2> QED BY <1>2, <2>1, IdleDisk
<1>3. CASE Find(s)
  <2>0. /\ pc[s] = "find" /\ UNCHANGED disk
        /\ arrived' = arrived /\ expunged' = expunged
        BY <1>3 DEF Find, env, history
  <2>1. PICK e \in todo[s] :
          \/ \E x \in Matches(e) :
               /\ path' = [path EXCEPT ![s] = x]
               /\ todo' = [todo EXCEPT ![s] = @ \ {e}]
               /\ Goto(s, IF req[s].folder = req[s].dest
                          THEN "mark" ELSE "account")
               /\ UNCHANGED <<req, t0, tally>>
          \/ /\ Matches(e) = {}
             /\ AfterMove(s, todo[s] \ {e})
        BY <1>3 DEF Find
  <2>2. ASSUME NEW x \in Matches(e),
               path' = [path EXCEPT ![s] = x],
               todo' = [todo EXCEPT ![s] = @ \ {e}],
               Goto(s, IF req[s].folder = req[s].dest
                       THEN "mark" ELSE "account"),
               UNCHANGED <<req, t0, tally>>
        PROVE  NoLossInv'
    <3>1. x \in entries /\ x.msg \in arrived
      <4>1. x \in entries BY <2>2 DEF Matches, In
      <4> QED BY <1>0, <4>1 DEF Control, KnownNames
    <3>2. /\ OthersStay(s) /\ req' = req /\ path'[s] = x
          /\ pc'[s] = IF req[s].folder = req[s].dest
                      THEN "mark" ELSE "account"
          BY <1>0, <2>2 DEF Goto, OthersStay, TypeInv, TypeOK
    <3>3. HereOK(s)' BY <1>1, <2>0, <3>1, <3>2 DEF HereOK
    <3>4. pc'[s] # "mark" \/ req'[s].folder = req'[s].dest BY <3>2
    <3> QED BY <2>0, <3>2, <3>3, <3>4, IdleDisk
  <2>3. ASSUME AfterMove(s, todo[s] \ {e}) PROVE NoLossInv'
    <3>1. todo[s] \ {e} \in SUBSET Names BY <1>0 DEF TypeInv, TypeOK
    <3> QED BY <1>0, <1>2, <2>0, <2>3, <3>1, AfterMoveType
  <2> QED BY <2>1, <2>2, <2>3
<1>4. CASE Account(s)
  <2>0. /\ pc[s] = "account" /\ UNCHANGED disk
        /\ arrived' = arrived /\ expunged' = expunged
        BY <1>4 DEF Account, history
  <2>1. CASE Goto(s, "link") /\ Keep
    <3>1. OthersStay(s) /\ pc'[s] = "link" /\ req' = req /\ path' = path
          BY <1>0, <2>1 DEF Goto, Keep, OthersStay, TypeInv, TypeOK
    <3>2. HereOK(s)' BY <1>1, <2>0, <3>1 DEF HereOK
    <3> QED BY <2>0, <3>1, <3>2, IdleDisk
  <2>2. CASE MoveFailed(s)
        BY <1>0, <1>2, <2>0, <2>2, MoveFailedType
  <2> QED BY <1>4, <2>1, <2>2 DEF Account
<1>5. CASE LinkDest(s)
  <2>0. /\ pc[s] = "link" /\ arrived' = arrived /\ expunged' = expunged
        BY <1>5 DEF LinkDest, env, history
  <2>1. CASE LinkFails(s, Target(s))
    <3>1. MoveFailed(s) /\ UNCHANGED disk BY <1>5, <2>1 DEF LinkDest
    <3> QED BY <1>0, <1>2, <2>0, <3>1, MoveFailedType
  <2> QED BY <1>5, <2>0, <2>1, LinkNoLoss
<1> QED BY <1>3, <1>4, <1>5, MarkNoLoss DEF Move

\* rmdirtmp and maildir_autopurge unlink what was to go.
LEMMA EmptyNoLoss ==
  ASSUME NoLossInv, TypeInv', NEW s \in Sessions, Empty(s)
  PROVE  NoLossInv'
<1> USE DEF MoveSteps
<1>0. TypeInv /\ Control BY DEF NoLossInv
<1>1. HereOK(s) BY <1>0 DEF Control
<1>2. arrived' = arrived /\ expunged \subseteq expunged'
      BY DEF Empty, Gather, Wipe, Age, ExpireName, env, history
<1>3. CASE Gather(s)
  <2>1. /\ OthersStay(s) /\ UNCHANGED disk
        /\ pc'[s] = IF req[s].op = "empty" THEN "wipe" ELSE "age"
        /\ todo'[s] = In(req[s].folder, "cur")
        BY <1>0, <1>3 DEF Gather, Goto, OthersStay, TypeInv, TypeOK
  <2>2. pc'[s] = "wipe" => \A e \in todo'[s] : e.msg \in expunged'
        BY <1>3, <2>1 DEF Gather
  <2>3. HereOK(s)' BY <2>1, <2>2 DEF HereOK
  <2> QED BY <1>2, <2>1, <2>3, IdleDisk
<1>4. CASE Wipe(s)
  <2>0. pc[s] = "wipe" /\ expunged' = expunged
        BY <1>4 DEF Wipe, env, history
  <2>1. ASSUME NEW e \in todo[s], Unlink(e),
               todo' = [todo EXCEPT ![s] = @ \ {e}],
               UNCHANGED <<pc, req, path, t0, tally>>
        PROVE  NoLossInv'
    <3>1. /\ OthersStay(s) /\ pc'[s] = "wipe" /\ todo'[s] \subseteq todo[s]
          BY <1>0, <2>0, <2>1 DEF OthersStay, TypeInv, TypeOK
    <3>2. HereOK(s)' BY <1>1, <2>0, <3>1 DEF HereOK
    <3>3. KnownNames' BY <1>0, <1>2, <2>1, NamesKnown
    <3>4. e.msg \in expunged BY <1>1, <2>0 DEF HereOK
    <3>5. \A m \in arrived \ expunged' : LivesOn(m)
          BY <2>0, <2>1, <3>4, UnlinkLives
    <3> QED BY <1>2, <3>1, <3>2, <3>3, <3>5, PlainStep
  <2>2. ASSUME Goto(s, "pickup"), Keep, UNCHANGED disk
        PROVE  NoLossInv'
    <3>1. OthersStay(s) /\ pc'[s] = "pickup"
          BY <1>0, <2>2 DEF Goto, Keep, OthersStay, TypeInv, TypeOK
    <3>2. HereOK(s)' BY <3>1 DEF HereOK
    <3> QED BY <1>2, <2>2, <3>1, <3>2, IdleDisk
  <2> QED BY <1>4, <2>1, <2>2 DEF Wipe
<1>5. CASE Age(s)
  <2>0. UNCHANGED disk BY <1>5 DEF Age
  <2>1. ASSUME NEW e \in todo[s], path' = [path EXCEPT ![s] = e],
               todo' = [todo EXCEPT ![s] = @ \ {e}],
               expunged' = expunged \cup {e.msg}, Goto(s, "expire"),
               UNCHANGED <<req, t0, tally>>
        PROVE  NoLossInv'
    <3>1. /\ OthersStay(s) /\ pc'[s] = "expire" /\ path'[s] = e
          BY <1>0, <2>1 DEF Goto, OthersStay, TypeInv, TypeOK
    <3>2. HereOK(s)' BY <2>1, <3>1 DEF HereOK
    <3> QED BY <1>2, <2>0, <3>1, <3>2, IdleDisk
  <2>2. ASSUME NEW e \in todo[s], todo' = [todo EXCEPT ![s] = @ \ {e}],
               UNCHANGED <<path, expunged, pc>>, UNCHANGED <<req, t0, tally>>
        PROVE  NoLossInv'
    <3>1. OthersStay(s) /\ pc'[s] = "age"
          BY <1>0, <1>5, <2>2 DEF Age, OthersStay, TypeInv, TypeOK
    <3>2. HereOK(s)' BY <3>1 DEF HereOK
    <3> QED BY <1>2, <2>0, <3>1, <3>2, IdleDisk
  <2>3. CASE Finish(s)
    <3>1. OthersStay(s) /\ pc'[s] = "idle" BY <1>0, <2>3, FinishType
    <3>2. HereOK(s)' BY <3>1 DEF HereOK
    <3> QED BY <1>2, <2>0, <3>1, <3>2, IdleDisk
  <2> QED BY <1>5, <2>1, <2>2, <2>3 DEF Age
<1>6. CASE ExpireName(s)
  <2>1. /\ pc[s] = "expire" /\ expunged' = expunged /\ Unlink(path[s])
        BY <1>6 DEF ExpireName, env, history
  <2>2. OthersStay(s) /\ pc'[s] = "age"
        BY <1>0, <1>6 DEF ExpireName, Goto, OthersStay, TypeInv, TypeOK
  <2>3. HereOK(s)' BY <2>2 DEF HereOK
  <2>4. KnownNames' BY <1>0, <1>2, <2>1, NamesKnown
  <2>5. path[s].msg \in expunged BY <1>1, <2>1 DEF HereOK
  <2>6. \A m \in arrived \ expunged' : LivesOn(m)
        BY <2>1, <2>5, UnlinkLives
  <2> QED BY <1>2, <2>2, <2>3, <2>4, <2>6, PlainStep
<1> QED BY <1>3, <1>4, <1>5, <1>6 DEF Empty

\* A request comes in.
LEMMA StartNoLoss ==
  ASSUME NoLossInv, TypeInv', NEW s \in Sessions, Start(s)
  PROVE  NoLossInv'
<1>0. TypeInv BY DEF NoLossInv
<1>1. PICK op \in AllOps, f \in Folders, dest \in Folders,
            names \in SUBSET Names, l \in {"pickup", "find", "gather"} :
        /\ Begin(s, op, f, dest, names, l)
        /\ l = "find" =>
             \/ op = "read" /\ f = dest
             \/ op = "delete" /\ dest = Trash
             \/ op = "move" /\ dest # f
      BY <1>0, StartShape
<1>2. /\ OthersStay(s) /\ pc'[s] = l /\ UNCHANGED disk
      /\ req'[s] = [op |-> op, folder |-> f, dest |-> dest]
      /\ arrived' = arrived /\ expunged' = expunged
      BY <1>0, <1>1 DEF Begin, Goto, OthersStay, TypeInv, TypeOK
<1>3. HereOK(s)' BY <1>1, <1>2 DEF HereOK, MoveSteps
<1> QED BY <1>2, <1>3, IdleDisk

\* A message that arrives has a name, and nobody moves it yet.
LEMMA DeliverNoLoss ==
  ASSUME NoLossInv, TypeInv', NEW m \in Msgs, Deliver(m)
  PROVE  NoLossInv'
<1> DEFINE e == [msg |-> m, folder |-> Inbox, sub |-> "new", flags |-> {}]
<1>0. TypeInv /\ Control /\ EnoughNames BY DEF NoLossInv
<1>1. /\ entries' = entries \cup {e} /\ arrived' = arrived \cup {m}
      /\ m \notin arrived /\ UNCHANGED <<local, expunged>>
      BY DEF Deliver
<1>2. e.msg = m /\ Live(e) BY DEF Live, Marked
<1> HIDE DEF e
<1>3. Control'
  <2>1. ASSUME NEW z \in Sessions PROVE HereOK(z)'
        BY <1>0, <1>1, <2>1 DEF Control, HereOK, local
  <2>2. KnownNames' BY <1>0, <1>1, <1>2 DEF Control, KnownNames
  <2> QED BY <2>1, <2>2 DEF Control
<1>4. EnoughNames'
  <2> SUFFICES ASSUME NEW x \in arrived' \ expunged
               PROVE  Cardinality(Moving(x)') < Cardinality(LiveNames(x)')
      BY <1>1 DEF EnoughNames
  <2>1. Moving(x)' = Moving(x) BY <1>1 DEF Moving, local
  <2>2. IsFiniteSet(LiveNames(x)') BY FinitePrime
  <2>3. LiveNames(x) \subseteq LiveNames(x)' BY <1>1 DEF LiveNames
  <2>4. CASE x = m
    <3>1. Moving(x) = {}
          BY <1>0, <1>1, <2>4 DEF Moving, Control, HereOK
    <3>2. e \in LiveNames(x)' BY <1>1, <1>2, <2>4 DEF LiveNames
    <3>3. Cardinality(LiveNames(x)') # 0 BY <2>2, <3>2, FS_EmptySet
    <3>4. Cardinality(LiveNames(x)') \in Nat BY <2>2, FS_CardinalityType
    <3> QED BY <2>1, <3>1, <3>3, <3>4, FS_EmptySet
  <2>5. CASE x # m
    <3>1. x \in arrived \ expunged BY <1>1, <2>5
    <3>2. Cardinality(Moving(x)) < Cardinality(LiveNames(x))
          BY <1>0, <3>1 DEF EnoughNames
    <3> QED BY <1>0, <2>1, <2>2, <2>3, <3>2, FiniteCounts, Outnumber
  <2> QED BY <2>4, <2>5
<1> QED BY <1>3, <1>4 DEF NoLossInv

\* A request that is killed marks nothing any more.
LEMMA CrashNoLoss ==
  ASSUME NoLossInv, TypeInv', NEW s \in Sessions, Crash(s)
  PROVE  NoLossInv'
<1>1. OthersStay(s) /\ pc'[s] = "idle"
      BY FinishType DEF Crash, NoLossInv
<1>2. HereOK(s)' BY <1>1 DEF HereOK, MoveSteps
<1>3. UNCHANGED disk /\ arrived' = arrived /\ expunged' = expunged
      BY DEF Crash
<1> QED BY <1>1, <1>2, <1>3, IdleDisk

\* The clock says nothing about names.
LEMMA TimeNoLoss ==
  ASSUME NoLossInv, TypeInv', Tick \/ UNCHANGED vars
  PROVE  NoLossInv'
<1>1. UNCHANGED <<entries, pc, req, todo, path, arrived, expunged>>
      BY DEF Tick, vars, disk, local, history
<1>2. Control' BY <1>1 DEF NoLossInv, Control, KnownNames, HereOK
<1>3. EnoughNames'
      BY <1>1 DEF NoLossInv, EnoughNames, Moving, LiveNames
<1> QED BY <1>2, <1>3 DEF NoLossInv

\* In the empty maildir there is nothing to lose (maildir_create).
LEMMA NoLossInit == Init => NoLossInv
<1> SUFFICES ASSUME Init PROVE NoLossInv
    OBVIOUS
<1>1. TypeInv BY InitType
<1>2. Control BY DEF Init, Control, KnownNames, HereOK, MoveSteps
<1>3. EnoughNames BY DEF Init, EnoughNames
<1> QED BY <1>1, <1>2, <1>3 DEF NoLossInv

\* No step of a request, of the world or of a crash breaks the invariant
\* (do_msgmove, maildir_checknew, maildir_deleteall, maildir_autopurge).
LEMMA NoLossNext == NoLossInv /\ [Next]_vars => NoLossInv'
<1> SUFFICES ASSUME NoLossInv, [Next]_vars PROVE NoLossInv'
    OBVIOUS
<1>1. TypeInv' BY NextType DEF NoLossInv
<1> QED BY <1>1, StartNoLoss, CheckNewNoLoss, DirScanNoLoss, MoveNoLoss,
           EmptyNoLoss, DeliverNoLoss, CrashNoLoss, TimeNoLoss
        DEF Next, Normal

\* A message has more live names than there are requests about to mark one.
LEMMA NoLossInvIsSafe == NoLossInv => NoLoss
<1> SUFFICES ASSUME NoLossInv, NEW m \in arrived \ expunged
             PROVE  LiveNames(m) # {}
    BY DEF NoLoss
<1>1. Cardinality(Moving(m)) \in Nat
      BY FiniteCounts, FS_CardinalityType DEF NoLossInv
<1>2. Cardinality(Moving(m)) < Cardinality(LiveNames(m))
      BY DEF NoLossInv, EnoughNames
<1>3. Cardinality({}) = 0 BY FS_EmptySet
<1> QED BY <1>1, <1>2, <1>3

\* However many requests move, delete or empty on pages of any age, in
\* whatever order their system calls fall, and wherever they are killed: a
\* message that nobody asked to remove for good keeps a live name
\* (do_msgmove, maildir_checknew, maildir_deleteall, maildir_autopurge).
THEOREM NoLossTheorem == Spec => []NoLoss
<1>1. Spec => []NoLossInv BY NoLossInit, NoLossNext, PTL DEF Spec
<1> QED BY <1>1, NoLossInvIsSafe, PTL

-----------------------------------------------------------------------------
(* What a step of a request leaves to the others.                          *)

\* A step of the request of s, or its end.
SessionStep(s) ==
  Start(s) \/ CheckNew(s) \/ DirScan(s) \/ Move(s) \/ Empty(s) \/ Crash(s)

\* The requests share the maildir and the count caches, and nothing else.
LEMMA StepsApart ==
  ASSUME TypeInv, NEW s \in Sessions, SessionStep(s)
  PROVE  OthersStay(s)
<1> USE DEF OthersStay, TypeInv, TypeOK, Goto, Keep
<1>1. CASE Start(s)
  <2>1. PICK op \in AllOps, f \in Folders, dest \in Folders,
              names \in SUBSET Names, l \in {"pickup", "find", "gather"} :
          Begin(s, op, f, dest, names, l)
        BY <1>1, StartShape
  <2> QED BY <2>1 DEF Begin
<1>2. CASE CheckNew(s)
  <2>1. CASE SkipPurge(s) \/ Purged(s)
    <3>1. AfterCheck(s) BY <2>1 DEF SkipPurge, Purged
    <3> QED BY <3>1, AfterCheckType
  <2>2. CASE Pickup(s) \/ ToCur(s) \/ StatCur(s) \/ ScanMarked(s) \/ Purge(s)
        BY <2>2 DEF Pickup, ToCur, StatCur, ScanMarked, Purge
  <2> QED BY <1>2, <2>1, <2>2 DEF CheckNew
<1>3. CASE DirScan(s)
  <2>1. CASE UseCache(s) \/ ResetCache(s) \/ Finish(s)
    <3>1. Finish(s) BY <2>1 DEF UseCache, ResetCache
    <3> QED BY <3>1, FinishType
  <2>2. CASE Restat(s)
        BY <2>1, <2>2 DEF Restat
  <2>3. CASE /\ ~Finish(s)
             /\ \/ CountStat(s) \/ Tally(s) \/ TruncateCache(s)
                \/ WriteCache(s) \/ RereadCache(s)
        BY <2>3 DEF CountStat, Tally, TruncateCache, WriteCache, RereadCache
  <2> QED BY <1>3, <2>1, <2>2, <2>3 DEF DirScan
<1>4. CASE Move(s)
  <2>1. ASSUME NEW rest \in SUBSET Names, AfterMove(s, rest)
        PROVE  OthersStay(s)
        BY <2>1, AfterMoveType
  <2>2. CASE MoveFailed(s) BY <2>2, MoveFailedType
  <2>3. CASE Find(s)
    <3>1. PICK e \in todo[s] :
            \/ \E x \in Matches(e) :
                 /\ path' = [path EXCEPT ![s] = x]
                 /\ todo' = [todo EXCEPT ![s] = @ \ {e}]
                 /\ Goto(s, IF req[s].folder = req[s].dest
                            THEN "mark" ELSE "account")
                 /\ UNCHANGED <<req, t0, tally>>
            \/ AfterMove(s, todo[s] \ {e})
          BY <2>3 DEF Find
    <3>2. todo[s] \ {e} \in SUBSET Names OBVIOUS
    <3>3. CASE AfterMove(s, todo[s] \ {e}) BY <2>1, <3>2, <3>3
    <3>4. CASE ~AfterMove(s, todo[s] \ {e}) BY <3>1, <3>4
    <3> QED BY <3>3, <3>4
  <2>4. CASE Account(s)
        BY <2>2, <2>4 DEF Account
  <2>5. CASE LinkDest(s)
        BY <2>2, <2>5 DEF LinkDest
  <2>6. CASE Mark(s)
    <3>1. todo[s] \in SUBSET Names /\ AfterMove(s, todo[s]) BY <2>6 DEF Mark
    <3> QED BY <2>1, <3>1
  <2> QED BY <1>4, <2>3, <2>4, <2>5, <2>6 DEF Move
<1>5. CASE Empty(s)
  <2>1. CASE Finish(s) BY <2>1, FinishType
  <2>2. CASE Age(s) BY <2>1, <2>2 DEF Age
  <2>3. CASE Gather(s) \/ Wipe(s) \/ ExpireName(s)
        BY <2>3 DEF Gather, Wipe, ExpireName
  <2> QED BY <1>5, <2>2, <2>3 DEF Empty
<1>6. CASE Crash(s) BY <1>6, FinishType DEF Crash
<1> QED BY <1>1, <1>2, <1>3, <1>4, <1>5, <1>6 DEF SessionStep

\* The step of a request, of the world, or none.
LEMMA NextSteps ==
  ASSUME [Next]_vars
  PROVE  \/ \E s \in Sessions : SessionStep(s)
         \/ \E m \in Msgs : Deliver(m)
         \/ Tick
         \/ UNCHANGED vars
BY DEF Next, Normal, SessionStep

-----------------------------------------------------------------------------
(* What is purged at login is due.                                         *)

\* A message was linked into Trash no later than its inode last changed, and
\* that was no later than now.
ClockOK == \A m \in Msgs : trashed[m] =< ctime[m] /\ ctime[m] =< now

DueInv == TypeInv /\ ClockOK

\* Whatever a step does to the times, it sets them to now; trashed only with
\* the ctime of the same message.
TimesSetToNow ==
  \A m \in Msgs :
    \/ ctime'[m] = ctime[m] /\ trashed'[m] = trashed[m]
    \/ ctime'[m] = now /\ trashed'[m] \in {trashed[m], now}

\* Such a step keeps the order of the times.
LEMMA ClockStep ==
  ASSUME DueInv, now' = now, TimesSetToNow
  PROVE  ClockOK'
<1> SUFFICES ASSUME NEW m \in Msgs
             PROVE  trashed'[m] =< ctime'[m] /\ ctime'[m] =< now'
    BY DEF ClockOK
<1>1. now \in Int /\ trashed[m] \in Int /\ ctime[m] \in Int
      BY DEF DueInv, TypeInv, TypeOK, Times
<1>2. trashed[m] =< ctime[m] /\ ctime[m] =< now BY DEF DueInv, ClockOK
<1>3. CASE ctime'[m] = ctime[m] /\ trashed'[m] = trashed[m]
      BY <1>2, <1>3
<1>4. CASE ctime'[m] = now /\ trashed'[m] \in {trashed[m], now}
      BY <1>1, <1>2, <1>4
<1> QED BY <1>3, <1>4 DEF TimesSetToNow

\* link, rename and unlink set the ctime of the inode.
LEMMA CallsSetToNow ==
  ASSUME TypeInv,
         \/ UNCHANGED disk
         \/ \E a, b : Rename(a, b)
         \/ \E a : Unlink(a)
  PROVE  TimesSetToNow
BY DEF TypeInv, TypeOK, disk, Rename, Unlink, Store, TimesSetToNow

\* link(2) into the other folder (do_msgmove).
LEMMA LinkSetsToNow ==
  ASSUME TypeInv, NEW s \in Sessions, LinkDest(s)
  PROVE  TimesSetToNow
<1> DEFINE new == Target(s)
<1>1. CASE UNCHANGED disk BY <1>1, CallsSetToNow
<1>2. CASE /\ Store(entries \cup {new}, {new.folder}, {new.msg})
           /\ trashed' = IF req[s].dest = Trash
                         THEN [trashed EXCEPT ![new.msg] = now] ELSE trashed
  <2> HIDE DEF new
  <2> QED BY <1>2 DEF TypeInv, TypeOK, Store, TimesSetToNow
<1> QED BY <1>1, <1>2 DEF LinkDest

\* The steps of a request do not touch the clock.
LEMMA RequestSetsToNow ==
  ASSUME TypeInv, NEW s \in Sessions, SessionStep(s)
  PROVE  now' = now /\ TimesSetToNow
<1>1. CASE Start(s)
  <2>1. PICK op \in AllOps, f \in Folders, dest \in Folders,
              names \in SUBSET Names, l \in {"pickup", "find", "gather"} :
          Begin(s, op, f, dest, names, l)
        BY <1>1, StartShape
  <2> QED BY <2>1, CallsSetToNow DEF Begin
<1>2. CASE CheckNew(s)
      BY <1>2, CallsSetToNow
      DEF CheckNew, Pickup, ToCur, StatCur, SkipPurge, ScanMarked, Purge,
          Purged, env
<1>3. CASE DirScan(s)
      BY <1>3, CallsSetToNow
      DEF DirScan, CountStat, UseCache, Tally, TruncateCache,
          WriteCache, RereadCache, Restat, ResetCache, env
<1>4. CASE Move(s)
      BY <1>4, CallsSetToNow, LinkSetsToNow
      DEF Move, Find, Account, LinkDest, Mark, env
<1>5. CASE Empty(s)
      BY <1>5, CallsSetToNow DEF Empty, Gather, Wipe, Age, ExpireName, env
<1>6. CASE Crash(s) BY <1>6, CallsSetToNow DEF Crash
<1> QED BY <1>1, <1>2, <1>3, <1>4, <1>5, <1>6 DEF SessionStep

\* The order of the times is kept (do_msgmove, maildir_checknew).
LEMMA DueNext == DueInv /\ [Next]_vars => DueInv'
<1> SUFFICES ASSUME DueInv, [Next]_vars PROVE DueInv'
    OBVIOUS
<1>0. TypeInv /\ TypeInv' BY NextType DEF DueInv
<1>1. ASSUME NEW s \in Sessions, SessionStep(s) PROVE ClockOK'
      BY <1>0, <1>1, RequestSetsToNow, ClockStep
<1>2. ASSUME NEW m \in Msgs, Deliver(m) PROVE ClockOK'
  <2>1. now' = now /\ TimesSetToNow
        BY <1>0, <1>2 DEF Deliver, TimesSetToNow, TypeInv, TypeOK
  <2> QED BY <2>1, ClockStep
<1>3. ASSUME Tick PROVE ClockOK'
  <2>1. now \in Int /\ \A m \in Msgs : ctime[m] \in Int
        BY <1>0 DEF TypeInv, TypeOK, Times
  <2>2. now' = now + 1 /\ UNCHANGED <<ctime, trashed>>
        BY <1>3 DEF Tick, disk
  <2> QED BY <2>1, <2>2 DEF DueInv, ClockOK
<1>4. ASSUME UNCHANGED vars PROVE ClockOK'
      BY <1>4 DEF vars, disk, DueInv, ClockOK
<1> QED BY <1>0, <1>1, <1>2, <1>3, <1>4, NextSteps DEF DueInv

\* Only the stat() of a name makes a request unlink it for its age.
LEMMA OnlyAgeExpires ==
  ASSUME TypeInv, NEW s \in Sessions, [Next]_vars,
         pc[s] = "age", pc'[s] = "expire"
  PROVE  Age(s)
<1>1. ASSUME NEW z \in Sessions, SessionStep(z) PROVE Age(s)
  <2>1. z = s BY <1>1, StepsApart DEF OthersStay
  <2>2. ~Crash(s) BY FinishType DEF Crash
  <2>3. ~Start(s)
    <3>1. SUFFICES ASSUME Start(s) PROVE FALSE
          OBVIOUS
    <3>2. PICK op \in AllOps, f \in Folders, dest \in Folders,
                names \in SUBSET Names, l \in {"pickup", "find", "gather"} :
            Begin(s, op, f, dest, names, l)
          BY <3>1, StartShape
    <3> QED BY <3>2 DEF Begin
  <2>4. CheckNew(s) \/ DirScan(s) \/ Move(s) \/ Empty(s)
        BY <1>1, <2>1, <2>2, <2>3 DEF SessionStep
  <2> QED BY <2>4
          DEF CheckNew, Pickup, ToCur, StatCur, SkipPurge, ScanMarked, Purge,
              Purged, DirScan, CountStat, UseCache, Tally, TruncateCache,
              WriteCache, RereadCache, Restat, ResetCache, Move, Find, Account, LinkDest,
              Mark, Empty, Gather, Wipe, ExpireName
<1>2. ASSUME \/ \E m \in Msgs : Deliver(m)
             \/ Tick
             \/ UNCHANGED vars
      PROVE  FALSE
      BY <1>2 DEF Deliver, Tick, vars, local
<1> QED BY <1>1, <1>2, NextSteps

\* What a request decides to purge is due at that moment.
LEMMA DueStep ==
  ASSUME DueInv, [Next]_vars, NEW s \in Sessions,
         pc[s] = "age", pc'[s] = "expire"
  PROVE  trashed[path'[s].msg] < now - Expire
<1>0. TypeInv BY DEF DueInv
<1>1. Age(s) BY <1>0, OnlyAgeExpires
<1>2. ~Finish(s) BY <1>0, FinishType
<1>3. PICK e \in todo[s] : path' = [path EXCEPT ![s] = e] /\ Old(e.msg)
      BY <1>0, <1>1, <1>2 DEF Age, TypeInv, TypeOK
<1>4. path'[s] = e /\ e.msg \in Msgs
      BY <1>0, <1>3 DEF TypeInv, TypeOK, Names
<1>5. /\ now \in Int /\ trashed[e.msg] \in Int /\ ctime[e.msg] \in Int
      /\ Expire \in Int
      BY <1>0, <1>4, BoundsAssumption DEF TypeInv, TypeOK, Times
<1>6. trashed[e.msg] =< ctime[e.msg] /\ ctime[e.msg] < now - Expire
      BY <1>3, <1>4 DEF Old, DueInv, ClockOK
<1> QED BY <1>4, <1>5, <1>6

\* In the empty maildir the times agree.
LEMMA DueInit == Init => DueInv
BY InitType DEF Init, DueInv, ClockOK

\* At login only messages go that were linked into Trash longer than Expire
\* ago, however long the page and the request took, and although the request
\* reads the ctime of the inode, which every other request may change
\* (maildir_autopurge).
THEOREM PurgeTheorem == Spec => PurgeIsDue
<1> DEFINE Due == \A s \in Sessions : pc[s] = "age" /\ pc'[s] = "expire" =>
                    trashed[path'[s].msg] < now - Expire
<1>1. Spec => []DueInv BY DueInit, DueNext, PTL DEF Spec
<1>2. DueInv /\ [Next]_vars => [Due]_vars BY DueStep
<1>3. Spec => [][Due]_vars BY <1>1, <1>2, PTL DEF Spec
<1> QED BY <1>3 DEF PurgeIsDue

-----------------------------------------------------------------------------
(* A move is exact: the invariant.                                         *)
(*                                                                         *)
(* As long as no request was killed and none that changes messages came    *)
(* while another one ran, there is at most one such request.  The names it *)
(* still has to work on stand as the page showed them, and a message that  *)
(* is not under way has one live name, with its line for that folder.      *)

\* What the line of a message comes to in folder f.
Share(f) == IF Counts(f) THEN 1 ELSE 0

\* Only names in cur are shown; maildir_checknew renames those in new.
ShownCur == \A e \in shown : e.sub = "cur"

PlaceOK(s) ==
  /\ pc[s] = "tocur" => \A e \in todo[s] : e.sub = "new"
  /\ pc[s] \in MoveSteps \cup {"gather", "wipe", "age", "expire"} =>
       req[s].op # "list"
  /\ pc[s] \in {"account", "link"} => req[s].folder # req[s].dest

PlaceInv == NoLossInv /\ ShownCur /\ \A s \in Sessions : PlaceOK(s)

\* A request that changes messages.
Works(s) == Active(s) /\ req[s].op # "list"

Alone == \A s, z \in Sessions : Works(s) /\ Works(z) => s = z

\* A name that can be moved or marked.
Ready(s, e) ==
  /\ e \in entries /\ e.sub = "cur" /\ e.folder = req[s].folder
  /\ \A x \in entries : x.msg = e.msg => Live(x)

Prepared(s) ==
  pc[s] \in MoveSteps =>
    /\ \A e \in todo[s] : Ready(s, e)
    /\ \A x, y \in todo[s] : x.msg = y.msg => x = y
    /\ pc[s] # "find" =>
         Ready(s, path[s]) /\ \A e \in todo[s] : e.msg # path[s].msg

\* The line of m is that of the other folder already.
Moves(s, m) ==
  /\ pc[s] \in {"link", "mark"} /\ req[s].folder # req[s].dest
  /\ path[s].msg = m

Settled(m) ==
  \E e \in entries : LiveNames(m) = {e} /\ lines[m] = Share(e.folder)

HalfMoved(s, m) ==
  /\ LiveNames(m) = IF pc[s] = "link" THEN {path[s]} ELSE {path[s], Target(s)}
  /\ lines[m] = Share(req[s].dest)

Exact(m) ==
  /\ (\A s \in Sessions : ~Moves(s, m)) => Settled(m)
  /\ \A s \in Sessions : Moves(s, m) => HalfMoved(s, m)

Quiet ==
  /\ Alone
  /\ \A s \in Sessions : Prepared(s)
  /\ \A m \in arrived \ expunged : Exact(m)

ExactInv == PlaceInv /\ (calm => Quiet)

-----------------------------------------------------------------------------
(* Where a request stands.                                                 *)

\* The form that was posted, with what it selects.
LEMMA StartSelects ==
  ASSUME TypeInv, NEW s \in Sessions, Start(s)
  PROVE  \E op \in AllOps, f \in Folders, dest \in Folders,
            names \in SUBSET Names, l \in {"pickup", "find", "gather"} :
           /\ Begin(s, op, f, dest, names, l)
           /\ l = "find" =>
                /\ op # "list" /\ names \subseteq {e \in shown : e.folder = f}
                /\ \A x, y \in names : x.msg = y.msg => x = y
           /\ l = "gather" => op # "list"
<1> USE BlankTypes DEF AllOps
<1>0. Inbox \in Folders /\ Trash \in Folders /\ Emptied \subseteq Folders
      BY FoldersAssumption
<1>1. CASE StartList(s)
  <2>1. PICK f \in Folders : Begin(s, "list", f, f, {}, "pickup")
        BY <1>1 DEF StartList
  <2> QED BY <2>1
<1>2. CASE StartDelete(s)
  <2>0. PICK f \in Folders :
          \E S \in Selections(f) : Begin(s, "delete", f, Trash, S, "find")
        BY <1>2 DEF StartDelete
  <2>1. PICK S \in Selections(f) : Begin(s, "delete", f, Trash, S, "find")
        BY <2>0
  <2>2. /\ S \in SUBSET Names /\ S \subseteq {e \in shown : e.folder = f}
        /\ \A x, y \in S : x.msg = y.msg => x = y
        BY DEF Selections, TypeInv, TypeOK
  <2> QED BY <1>0, <2>1, <2>2
<1>3. CASE StartMove(s)
  <2>1. PICK f \in Folders : \E dest \in Folders \ {f}, S \in Selections(f) :
          Begin(s, "move", f, dest, S, "find")
        BY <1>3 DEF StartMove
  <2>2. PICK dest \in Folders \ {f}, S \in Selections(f) :
          Begin(s, "move", f, dest, S, "find")
        BY <2>1
  <2>3. /\ S \in SUBSET Names /\ S \subseteq {e \in shown : e.folder = f}
        /\ \A x, y \in S : x.msg = y.msg => x = y
        BY DEF Selections, TypeInv, TypeOK
  <2> QED BY <2>2, <2>3
<1>4. CASE StartRead(s)
  <2>1. PICK e \in shown : Begin(s, "read", e.folder, e.folder, {e}, "find")
        BY <1>4 DEF StartRead
  <2>2. e \in Names /\ e.folder \in Folders BY DEF TypeInv, TypeOK, Names
  <2> QED BY <2>1, <2>2
<1>5. CASE StartEmpty(s)
  <2>1. PICK f \in Emptied : Begin(s, "empty", f, f, {}, "gather")
        BY <1>5 DEF StartEmpty
  <2> QED BY <1>0, <2>1
<1>6. CASE StartLogin(s)
  <2>1. Begin(s, "login", Trash, Trash, {}, "gather")
        BY <1>6 DEF StartLogin
  <2> QED BY <1>0, <2>1
<1> QED BY <1>1, <1>2, <1>3, <1>4, <1>5, <1>6 DEF Start

\* After a message a request has less to do, and is the same request.
Goes(s) ==
  /\ pc'[s] \in {"idle", "pickup", "find"}
  /\ pc'[s] # "idle" => req'[s] = req[s]
  /\ pc'[s] = "find" => todo'[s] \subseteq todo[s]

\* A request goes on after a message, moved or not.
LEMMA AfterMoveGoes ==
  ASSUME TypeInv, NEW s \in Sessions,
         MoveFailed(s) \/ \E rest \in SUBSET todo[s] : AfterMove(s, rest)
  PROVE  Goes(s)
<1>1. PICK rest \in SUBSET todo[s] : AfterMove(s, rest)
      BY DEF MoveFailed
<1>2. rest \in SUBSET Names BY DEF TypeInv, TypeOK
<1>3. /\ pc'[s] \in {"idle", "pickup", "find"}
      /\ pc'[s] # "idle" => req'[s] = req[s]
      BY <1>1, <1>2, AfterMoveType
<1>4. ASSUME pc'[s] = "find" PROVE todo'[s] = rest
  <2>1. ~Finish(s) BY <1>4, FinishType
  <2> QED BY <1>1, <2>1 DEF AfterMove, TypeInv, TypeOK
<1> QED BY <1>3, <1>4 DEF Goes

\* What do_msgmove and maildir_markflag do next.
LEMMA MoveTurns ==
  ASSUME TypeInv, NEW s \in Sessions, Move(s)
  PROVE  \/ pc[s] \in MoveSteps /\ Goes(s)
         \/ /\ pc[s] = "find" /\ req' = req /\ UNCHANGED <<disk, env>>
            /\ pc'[s] \in {"account", "mark"}
            /\ pc'[s] = "account" <=> req[s].folder # req[s].dest
            /\ \E e \in todo[s] : /\ path'[s] \in Matches(e)
                                  /\ todo'[s] = todo[s] \ {e}
         \/ /\ pc[s] = "account" /\ pc'[s] = "link"
            /\ req' = req /\ path' = path /\ todo' = todo
         \/ /\ pc[s] = "link" /\ pc'[s] = "mark"
            /\ req' = req /\ path' = path /\ todo' = todo
<1> USE DEF MoveSteps
<1>1. CASE Find(s)
  <2>1. PICK e \in todo[s] :
          \/ \E x \in Matches(e) :
               /\ path' = [path EXCEPT ![s] = x]
               /\ todo' = [todo EXCEPT ![s] = @ \ {e}]
               /\ Goto(s, IF req[s].folder = req[s].dest
                          THEN "mark" ELSE "account")
               /\ UNCHANGED <<req, t0, tally>>
          \/ /\ Matches(e) = {}
             /\ AfterMove(s, todo[s] \ {e})
        BY <1>1 DEF Find
  <2>2. CASE AfterMove(s, todo[s] \ {e})
    <3>1. Goes(s) BY <2>2, AfterMoveGoes
    <3> QED BY <1>1, <3>1 DEF Find
  <2>3. CASE ~AfterMove(s, todo[s] \ {e})
    <3>1. PICK x \in Matches(e) :
               /\ path' = [path EXCEPT ![s] = x]
               /\ todo' = [todo EXCEPT ![s] = @ \ {e}]
               /\ Goto(s, IF req[s].folder = req[s].dest
                          THEN "mark" ELSE "account")
               /\ UNCHANGED <<req, t0, tally>>
          BY <2>1, <2>3
    <3>2. path'[s] = x /\ todo'[s] = todo[s] \ {e}
          BY <3>1 DEF TypeInv, TypeOK
    <3>3. /\ pc'[s] \in {"account", "mark"}
          /\ pc'[s] = "account" <=> req[s].folder # req[s].dest
          BY <3>1 DEF Goto, TypeInv, TypeOK
    <3> QED BY <1>1, <3>1, <3>2, <3>3 DEF Find
  <2> QED BY <2>2, <2>3
<1>2. CASE Account(s)
  <2>1. CASE MoveFailed(s) BY <1>2, <2>1, AfterMoveGoes DEF Account
  <2>2. CASE Goto(s, "link") /\ Keep
        BY <1>2, <2>2 DEF Account, Goto, Keep, TypeInv, TypeOK
  <2> QED BY <1>2, <2>1, <2>2 DEF Account
<1>3. CASE LinkDest(s)
  <2>1. CASE MoveFailed(s) BY <1>3, <2>1, AfterMoveGoes DEF LinkDest
  <2>2. CASE Goto(s, "mark") /\ Keep
        BY <1>3, <2>2 DEF LinkDest, Goto, Keep, TypeInv, TypeOK
  <2> QED BY <1>3, <2>1, <2>2 DEF LinkDest
<1>4. CASE Mark(s) BY <1>4, AfterMoveGoes DEF Mark
<1> QED BY <1>1, <1>2, <1>3, <1>4 DEF Move

\* What maildir_checknew and dodirscan do next.
LEMMA ScanTurns ==
  ASSUME TypeInv, NEW s \in Sessions, CheckNew(s) \/ DirScan(s)
  PROVE  /\ pc[s] \in CheckSteps \cup CountSteps
         /\ pc'[s] \in CheckSteps \cup CountSteps \cup {"idle"}
         /\ pc'[s] # "idle" => req'[s] = req[s]
         /\ pc'[s] = "tocur" => \/ todo'[s] = In(req[s].folder, "new")
                                \/ pc[s] = "tocur" /\ todo'[s] \subseteq todo[s]
<1> USE DEF CheckSteps, CountSteps
<1>1. CASE Finish(s)
      BY <1>1, FinishType
      DEF CheckNew, Pickup, ToCur, StatCur, SkipPurge, ScanMarked, Purge,
          Purged, DirScan, CountStat, UseCache, Tally, TruncateCache, WriteCache,
          RereadCache, Restat, ResetCache
<1>2. CASE ~Finish(s) /\ CheckNew(s)
      BY <1>2
      DEF CheckNew, Pickup, ToCur, StatCur, SkipPurge, ScanMarked, Purge,
          Purged, AfterCheck, Goto, Keep, TypeInv, TypeOK
<1>3. CASE ~Finish(s) /\ DirScan(s)
      BY <1>3
      DEF DirScan, CountStat, UseCache, Tally, TruncateCache, WriteCache,
          RereadCache, Restat, ResetCache, Goto, Keep, TypeInv, TypeOK
<1> QED BY <1>1, <1>2, <1>3

\* What maildir_deleteall and maildir_autopurge do next.
LEMMA EmptyTurns ==
  ASSUME TypeInv, NEW s \in Sessions, Empty(s)
  PROVE  /\ pc[s] \in {"gather", "wipe", "age", "expire"}
         /\ pc'[s] \in {"wipe", "age", "expire", "pickup", "idle"}
         /\ pc'[s] # "idle" => req'[s] = req[s]
<1>1. CASE Finish(s)
      BY <1>1, FinishType DEF Empty, Gather, Wipe, Age, ExpireName
<1>2. CASE ~Finish(s)
      BY <1>2 DEF Empty, Gather, Wipe, Age, ExpireName, Goto, Keep, TypeInv,
                  TypeOK
<1> QED BY <1>1, <1>2

\* What is shown was in cur (maildir_listdir reads nothing else).
LEMMA ShownNext ==
  ASSUME ShownCur, [Next]_vars
  PROVE  ShownCur'
<1>1. \/ UNCHANGED shown
      \/ \E E : shown' = shown \cup {e \in E : e.sub = "cur" /\ Live(e)}
  <2>1. ASSUME NEW s \in Sessions, Start(s) PROVE UNCHANGED shown
        BY <2>1 DEF Start, StartList, StartDelete, StartMove, StartRead,
                    StartEmpty, StartLogin, Begin, disk
  <2>2. ASSUME NEW s \in Sessions, CheckNew(s) \/ DirScan(s) \/ Crash(s)
        PROVE  \/ UNCHANGED shown
               \/ \E E : shown' = shown \cup {e \in E : e.sub = "cur" /\ Live(e)}
        BY <2>2
        DEF CheckNew, Pickup, ToCur, StatCur, SkipPurge, ScanMarked, Purge,
            Purged, DirScan, CountStat, UseCache, Tally, TruncateCache, WriteCache,
            RereadCache, Restat, ResetCache, Crash, Rename, Unlink, Store, disk
  <2>3. ASSUME NEW s \in Sessions, Move(s) \/ Empty(s)
        PROVE  \/ UNCHANGED shown
               \/ \E E : shown' = shown \cup {e \in E : e.sub = "cur" /\ Live(e)}
        BY <2>3
        DEF Move, Find, Account, LinkDest, Mark, Empty, Gather, Wipe, Age,
            ExpireName, Rename, Unlink, Store, disk
  <2>4. ASSUME (\E m \in Msgs : Deliver(m)) \/ Tick \/ UNCHANGED vars
        PROVE  UNCHANGED shown
        BY <2>4 DEF Deliver, Tick, vars, disk
  <2> QED BY <2>1, <2>2, <2>3, <2>4 DEF Next, Normal
<1> QED BY <1>1 DEF ShownCur

\* A request stands where it may (maildir_checknew, do_msgmove).
LEMMA PlaceStep ==
  ASSUME PlaceInv, NEW s \in Sessions, SessionStep(s)
  PROVE  PlaceOK(s)'
<1> USE DEF CheckSteps, CountSteps, MoveSteps
<1>0. TypeInv /\ HereOK(s) /\ PlaceOK(s)
      BY DEF PlaceInv, NoLossInv, Control
<1>1. CASE Start(s)
  <2>1. PICK op \in AllOps, f \in Folders, dest \in Folders,
              names \in SUBSET Names, l \in {"pickup", "find", "gather"} :
          /\ Begin(s, op, f, dest, names, l)
          /\ l = "find" => op # "list"
          /\ l = "gather" => op # "list"
        BY <1>0, <1>1, StartSelects
  <2>2. pc'[s] = l /\ req'[s].op = op
        BY <1>0, <2>1 DEF Begin, Goto, TypeInv, TypeOK
  <2> QED BY <2>1, <2>2 DEF PlaceOK
<1>2. CASE CheckNew(s) \/ DirScan(s)
  <2>1. \A e \in In(req[s].folder, "new") : e.sub = "new" BY DEF In
  <2> QED BY <1>0, <1>2, <2>1, ScanTurns DEF PlaceOK
<1>3. CASE Move(s)
  <2>1. CASE pc[s] \in MoveSteps /\ Goes(s)
        BY <1>0, <2>1 DEF PlaceOK, Goes
  <2>2. CASE ~(pc[s] \in MoveSteps /\ Goes(s))
    <3>1. /\ pc[s] \in MoveSteps /\ req' = req
          /\ pc'[s] \in {"account", "link", "mark"}
          /\ pc'[s] \in {"account", "link"} =>
               req[s].folder # req[s].dest
          BY <1>0, <1>3, <2>2, MoveTurns DEF PlaceOK
    <3> QED BY <1>0, <3>1 DEF PlaceOK
  <2> QED BY <2>1, <2>2
<1>4. CASE Empty(s) BY <1>0, <1>4, EmptyTurns DEF PlaceOK
<1>5. CASE Crash(s)
  <2>1. pc'[s] = "idle" BY <1>0, <1>5, FinishType DEF Crash
  <2> QED BY <2>1 DEF PlaceOK
<1> QED BY <1>1, <1>2, <1>3, <1>4, <1>5 DEF SessionStep

\* Every step keeps the requests where they may be.
LEMMA PlaceNext == PlaceInv /\ [Next]_vars => PlaceInv'
<1> SUFFICES ASSUME PlaceInv, [Next]_vars PROVE PlaceInv'
    OBVIOUS
<1>0. TypeInv /\ NoLossInv' /\ ShownCur'
      BY NoLossNext, ShownNext DEF PlaceInv, NoLossInv
<1>1. ASSUME NEW s \in Sessions, SessionStep(s), NEW z \in Sessions
      PROVE  PlaceOK(z)'
  <2>1. CASE z = s BY <1>1, <2>1, PlaceStep
  <2>2. CASE z # s
    <3>1. OthersStay(s) BY <1>0, <1>1, StepsApart
    <3> QED BY <2>2, <3>1 DEF OthersStay, PlaceInv, PlaceOK
  <2> QED BY <2>1, <2>2
<1>2. ASSUME (\E m \in Msgs : Deliver(m)) \/ Tick \/ UNCHANGED vars,
             NEW z \in Sessions
      PROVE  PlaceOK(z)'
  <2>1. UNCHANGED local BY <1>2 DEF Deliver, Tick, vars
  <2> QED BY <2>1 DEF local, PlaceInv, PlaceOK
<1> QED BY <1>0, <1>1, <1>2, NextSteps DEF PlaceInv

-----------------------------------------------------------------------------
(* What a step does to a name that another request is to work on.          *)

\* Live names in cur stay, and no marked name comes without one.
Gentle ==
  /\ \A e \in entries : e.sub = "cur" /\ Live(e) => e \in entries'
  /\ \A x \in entries' : \/ x \in entries \/ Live(x)
                         \/ \E y \in entries : y.msg = x.msg /\ ~Live(y)

\* The live names of m stay, or one is renamed that nobody moves.
Kept(m) ==
  \/ LiveNames(m)' = LiveNames(m)
  \/ /\ \A z \in Sessions : ~Moves(z, m)
     /\ \E a \in LiveNames(m) : \E b :
          b.folder = a.folder /\ LiveNames(m)' = (LiveNames(m) \ {a}) \cup {b}

\* A name that is ready stays so.
LEMMA ReadyStays ==
  ASSUME NEW s, NEW e, Ready(s, e), Gentle, req'[s] = req[s]
  PROVE  Ready(s, e)'
<1>1. e \in entries /\ e.sub = "cur" /\ Live(e) BY DEF Ready
<1>2. e \in entries' BY <1>1 DEF Gentle
<1>3. ASSUME NEW x \in entries', x.msg = e.msg PROVE Live(x)
      BY <1>3 DEF Gentle, Ready
<1> QED BY <1>1, <1>2, <1>3 DEF Ready, Live, Marked

\* So does a name when only those of another message change.
LEMMA ReadyApart ==
  ASSUME NEW s, NEW e, Ready(s, e), req'[s] = req[s], NEW m, e.msg # m,
         \A x : x.msg # m => (x \in entries' <=> x \in entries)
  PROVE  Ready(s, e)'
BY DEF Ready, Live, Marked

\* A message that nobody moves is settled, and stays so.
LEMMA SettledStays ==
  ASSUME NEW m, Settled(m), Kept(m), lines'[m] = lines[m]
  PROVE  Settled(m)'
<1>1. PICK e \in entries : LiveNames(m) = {e} /\ lines[m] = Share(e.folder)
      BY DEF Settled
<1>2. PICK b : b.folder = e.folder /\ LiveNames(m)' = {b}
  <2>1. CASE LiveNames(m)' = LiveNames(m) BY <1>1, <2>1
  <2>2. CASE \E a \in LiveNames(m) : \E b :
               b.folder = a.folder /\ LiveNames(m)' = (LiveNames(m) \ {a}) \cup {b}
        BY <1>1, <2>2
  <2> QED BY <2>1, <2>2 DEF Kept
<1>3. b \in entries' BY <1>2 DEF LiveNames
<1>4. lines'[m] = Share(b.folder) BY <1>1, <1>2
<1> QED BY <1>2, <1>3, <1>4 DEF Settled, Share, Counts

\* As long as no request was killed, the others do not work on messages.
LEMMA OthersDoNot ==
  ASSUME PlaceInv, Quiet, NEW s \in Sessions, Works(s),
         NEW z \in Sessions \ {s}
  PROVE  ~Works(z) /\ pc[z] \notin MoveSteps /\ \A m : ~Moves(z, m)
<1>1. ~Works(z) BY DEF Quiet, Alone
<1>2. pc[z] \notin MoveSteps
      BY <1>1 DEF PlaceInv, PlaceOK, Works, Active, MoveSteps
<1> QED BY <1>1, <1>2 DEF Moves, MoveSteps

\* A request at its work works.
LEMMA AtWork ==
  ASSUME PlaceInv, NEW s \in Sessions,
         pc[s] \in MoveSteps \cup {"gather", "wipe", "age", "expire"}
  PROVE  Works(s)
BY DEF PlaceInv, PlaceOK, Works, Active, MoveSteps

\* A step of s while it moves nothing.
LEMMA Bystander ==
  ASSUME PlaceInv, PlaceInv', Quiet, NEW s \in Sessions, OthersStay(s),
         lines' = lines, arrived' = arrived, expunged \subseteq expunged',
         \A m : ~Moves(s, m) /\ ~Moves(s, m)',
         Gentle \/ Works(s),
         Works(s)' => Works(s) \/ \A z \in Sessions \ {s} : ~Works(z),
         Prepared(s)',
         \A m \in arrived \ expunged' : Kept(m)
  PROVE  Quiet'
<1>1. \A z \in Sessions \ {s} : Works(z)' <=> Works(z)
      BY DEF OthersStay, Works, Active
<1>2. Alone'
  <2> SUFFICES ASSUME NEW x \in Sessions, NEW z \in Sessions,
                      Works(x)', Works(z)', x # z
               PROVE  FALSE
      BY DEF Alone
  <2>1. CASE x # s /\ z # s BY <1>1, <2>1 DEF Quiet, Alone
  <2>2. CASE x = s BY <1>1, <2>2 DEF Quiet, Alone
  <2>3. CASE z = s BY <1>1, <2>3 DEF Quiet, Alone
  <2> QED BY <2>1, <2>2, <2>3
<1>3. ASSUME NEW z \in Sessions PROVE Prepared(z)'
  <2>1. CASE z = s BY <2>1
  <2>2. CASE z # s /\ pc[z] \in MoveSteps
    <3>1. Gentle BY <2>2, AtWork DEF Quiet, Alone
    <3>2. /\ pc'[z] = pc[z] /\ req'[z] = req[z]
          /\ todo'[z] = todo[z] /\ path'[z] = path[z]
          BY <2>2 DEF OthersStay
    <3>3. Prepared(z) BY DEF Quiet
    <3>4. ASSUME NEW e, Ready(z, e) PROVE Ready(z, e)'
          BY <3>1, <3>2, <3>4, ReadyStays
    <3> QED BY <2>2, <3>2, <3>3, <3>4 DEF Prepared
  <2>3. CASE z # s /\ pc[z] \notin MoveSteps
        BY <2>3 DEF OthersStay, Prepared
  <2> QED BY <2>1, <2>2, <2>3
<1>4. ASSUME NEW m \in arrived \ expunged' PROVE Exact(m)'
  <2>1. Exact(m) /\ Kept(m) /\ lines'[m] = lines[m] BY DEF Quiet
  <2>2. \A z \in Sessions : Moves(z, m)' <=> Moves(z, m)
        BY DEF OthersStay, Moves
  <2>3. ASSUME \A z \in Sessions : ~Moves(z, m) PROVE Settled(m)'
        BY <2>1, <2>3, SettledStays DEF Exact
  <2>4. ASSUME NEW z \in Sessions, Moves(z, m) PROVE HalfMoved(z, m)'
    <3>1. z # s BY <2>4
    <3>2. LiveNames(m)' = LiveNames(m) BY <2>1, <2>4 DEF Kept
    <3>3. HalfMoved(z, m) BY <2>1, <2>4 DEF Exact
    <3>4. pc'[z] = pc[z] /\ req'[z] = req[z] /\ path'[z] = path[z]
          BY <3>1 DEF OthersStay
    <3>5. Target(z)' = Target(z) BY <3>4 DEF Target
    <3> QED BY <2>1, <3>2, <3>3, <3>4, <3>5 DEF HalfMoved
  <2> QED BY <2>2, <2>3, <2>4 DEF Exact
<1> QED BY <1>2, <1>3, <1>4 DEF Quiet

\* A step of the one request that moves messages, with the name it has found.
LEMMA SoleStep ==
  ASSUME PlaceInv, PlaceInv', Quiet, NEW s \in Sessions, OthersStay(s),
         pc[s] \in MoveSteps, pc'[s] # "idle" => req'[s] = req[s],
         arrived' = arrived, expunged \subseteq expunged',
         Prepared(s)',
         \A m : Moves(s, m) \/ Moves(s, m)' => m = path[s].msg,
         \A m \in arrived \ expunged' : m # path[s].msg =>
           LiveNames(m)' = LiveNames(m) /\ lines'[m] = lines[m],
         \A m \in arrived \ expunged' : m = path[s].msg => Exact(m)'
  PROVE  Quiet'
<1>1. Works(s) BY AtWork
<1>2. ASSUME NEW z \in Sessions \ {s}
      PROVE  /\ ~Works(z)' /\ Prepared(z)'
             /\ \A m : ~Moves(z, m) /\ ~Moves(z, m)'
  <2>1. ~Works(z) /\ pc[z] \notin MoveSteps /\ \A m : ~Moves(z, m)
        BY <1>1, OthersDoNot
  <2> QED BY <2>1 DEF OthersStay, Works, Active, Prepared, Moves
<1>3. Alone' BY <1>2 DEF Alone
<1>4. ASSUME NEW m \in arrived \ expunged' PROVE Exact(m)'
  <2>1. CASE m = path[s].msg BY <2>1
  <2>2. CASE m # path[s].msg
    <3>1. \A z \in Sessions : ~Moves(z, m) /\ ~Moves(z, m)' BY <1>2, <2>2
    <3>2. Settled(m) BY <3>1 DEF Quiet, Exact
    <3>3. Settled(m)' BY <2>2, <3>2, SettledStays DEF Kept
    <3> QED BY <3>1, <3>3 DEF Exact
  <2> QED BY <2>1, <2>2
<1> QED BY <1>2, <1>3, <1>4 DEF Quiet

-----------------------------------------------------------------------------
(* Every step keeps the maildir exact.                                     *)

\* A name that goes from new to cur, or is marked and goes.
LEMMA CallsGentle ==
  ASSUME NEW a, NEW b,
         \/ /\ Rename(a, b) /\ a.sub = "new" /\ b.msg = a.msg
            /\ Live(b) <=> Live(a)
         \/ Unlink(a) /\ Marked(a)
  PROVE  Gentle
<1>1. CASE /\ Rename(a, b) /\ a.sub = "new" /\ b.msg = a.msg
           /\ Live(b) <=> Live(a)
  <2>1. CASE a \in entries /\ b \notin entries
    <3>1. entries' = (entries \ {a}) \cup {b} BY <1>1, <2>1 DEF Rename, Store
    <3> QED BY <1>1, <2>1, <3>1 DEF Gentle
  <2>2. CASE ~(a \in entries /\ b \notin entries)
        BY <1>1, <2>2 DEF Rename, Gentle
  <2> QED BY <2>1, <2>2
<1>2. CASE Unlink(a) /\ Marked(a)
      BY <1>2 DEF Unlink, Store, Gentle, Live
<1> QED BY <1>1, <1>2

\* A directory that stays as it is.
LEMMA StillKept ==
  ASSUME UNCHANGED entries
  PROVE  Gentle /\ \A m : Kept(m)
BY DEF Gentle, Kept, LiveNames

\* A live name that nobody moves may be renamed.
LEMMA RenameKept ==
  ASSUME NEW a, NEW b, Rename(a, b), b.msg = a.msg, b.folder = a.folder,
         Live(b) <=> Live(a), NEW m,
         a \in LiveNames(m) => \A z \in Sessions : ~Moves(z, m)
  PROVE  Kept(m)
<1>1. CASE a \in entries /\ b \notin entries
  <2>1. entries' = (entries \ {a}) \cup {b} BY <1>1 DEF Rename, Store
  <2>2. CASE a \in LiveNames(m)
    <3>1. LiveNames(m)' = (LiveNames(m) \ {a}) \cup {b}
          BY <2>1, <2>2 DEF LiveNames, Live, Marked
    <3> QED BY <2>2, <3>1 DEF Kept
  <2>3. CASE a \notin LiveNames(m)
    <3>1. LiveNames(m)' = LiveNames(m)
          BY <1>1, <2>1, <2>3 DEF LiveNames, Live, Marked
    <3> QED BY <3>1 DEF Kept
  <2> QED BY <2>2, <2>3
<1>2. CASE ~(a \in entries /\ b \notin entries)
  <2>1. UNCHANGED entries BY <1>2 DEF Rename
  <2> QED BY <2>1, StillKept
<1> QED BY <1>1, <1>2

\* A name that is marked, or of another message, may be unlinked.
LEMMA UnlinkKept ==
  ASSUME NEW a, Unlink(a), NEW m, Marked(a) \/ a.msg # m
  PROVE  Kept(m)
<1>1. LiveNames(m)' = LiveNames(m)
      BY DEF Unlink, Store, LiveNames, Live, Marked
<1> QED BY <1>1 DEF Kept

\* Names in new are not on their way to another folder.
LEMMA NewIsNotMoved ==
  ASSUME PlaceInv, Quiet, NEW m \in arrived \ expunged,
         NEW a \in LiveNames(m), a.sub = "new", NEW z \in Sessions
  PROVE  ~Moves(z, m)
<1> SUFFICES ASSUME Moves(z, m) PROVE FALSE
    OBVIOUS
<1>1. pc[z] \in {"link", "mark"} BY DEF Moves
<1>2. path[z] \in Names
      BY <1>1 DEF PlaceInv, NoLossInv, TypeInv, FoundOK
<1>3. Ready(z, path[z]) BY <1>1 DEF Quiet, Prepared, MoveSteps
<1>4. path[z].sub = "cur" BY <1>3 DEF Ready
<1>5. Target(z).sub = "cur" BY <1>2, <1>4 DEF Target, RemFlag, Names
<1>6. LiveNames(m) \subseteq {path[z], Target(z)}
      BY DEF Quiet, Exact, HalfMoved
<1> QED BY <1>4, <1>5, <1>6

\* A scan is not a move.
LEMMA ScanStands ==
  ASSUME PlaceInv, NEW s \in Sessions, CheckNew(s) \/ DirScan(s)
  PROVE  /\ OthersStay(s) /\ Prepared(s)'
         /\ \A m : ~Moves(s, m) /\ ~Moves(s, m)'
         /\ Works(s)' => Works(s)
<1>0. TypeInv BY DEF PlaceInv, NoLossInv
<1>1. OthersStay(s) BY <1>0, StepsApart DEF SessionStep
<1>2. /\ pc[s] \in CheckSteps \cup CountSteps
      /\ pc'[s] \in CheckSteps \cup CountSteps \cup {"idle"}
      /\ pc'[s] # "idle" => req'[s] = req[s]
      BY <1>0, ScanTurns
<1> QED BY <1>1, <1>2
        DEF CheckSteps, CountSteps, MoveSteps, Prepared, Moves, Works, Active

\* maildir_checknew, of whichever request.
LEMMA CheckNewQuiet ==
  ASSUME PlaceInv, PlaceInv', Quiet, NEW s \in Sessions, CheckNew(s)
  PROVE  Quiet'
<1>0. TypeInv /\ HereOK(s) /\ PlaceOK(s)
      BY DEF PlaceInv, NoLossInv, Control
<1>1. lines' = lines /\ arrived' = arrived /\ expunged' = expunged
      BY DEF CheckNew, Pickup, ToCur, StatCur, SkipPurge, ScanMarked, Purge,
             Purged, env, history
<1>2. Gentle /\ \A m \in arrived \ expunged : Kept(m)
  <2>1. CASE ToCur(s)
    <3>1. PICK e \in todo[s] : Rename(e, [e EXCEPT !.sub = "cur"])
          BY <2>1 DEF ToCur
    <3> DEFINE b == [e EXCEPT !.sub = "cur"]
    <3>2. e \in Names /\ e.sub = "new"
          BY <1>0, <2>1 DEF TypeInv, TypeOK, ToCur, PlaceOK
    <3>3. b.msg = e.msg /\ b.flags = e.flags /\ b.folder = e.folder
          BY <3>2 DEF Names
    <3>4. Rename(e, b) BY <3>1
    <3> HIDE DEF b
    <3>5. Live(b) <=> Live(e) BY <3>3 DEF Live, Marked
    <3>6. ASSUME NEW m \in arrived \ expunged, e \in LiveNames(m)
          PROVE  \A z \in Sessions : ~Moves(z, m)
          BY <3>2, <3>6, NewIsNotMoved
    <3>7. ASSUME NEW m \in arrived \ expunged PROVE Kept(m)
          BY <3>3, <3>4, <3>5, <3>6, RenameKept
    <3> QED BY <3>2, <3>3, <3>4, <3>5, <3>7, CallsGentle
  <2>2. CASE Purge(s)
    <3>1. PICK e \in todo[s] : Unlink(e) BY <2>2 DEF Purge
    <3>2. Marked(e) BY <1>0, <2>2 DEF Purge, HereOK
    <3> QED BY <3>1, <3>2, CallsGentle, UnlinkKept
  <2>3. CASE UNCHANGED disk BY <2>3, StillKept DEF disk
  <2> QED BY <2>1, <2>2, <2>3
          DEF CheckNew, Pickup, StatCur, SkipPurge, ScanMarked, Purged
<1> QED BY <1>1, <1>2, ScanStands, Bystander

\* dodirscan, of whichever request.
LEMMA DirScanQuiet ==
  ASSUME PlaceInv, PlaceInv', Quiet, NEW s \in Sessions, DirScan(s)
  PROVE  Quiet'
<1>1. /\ lines' = lines /\ arrived' = arrived /\ expunged' = expunged
      /\ UNCHANGED entries
      BY DEF DirScan, CountStat, UseCache, Tally, TruncateCache,
             WriteCache, RereadCache, Restat, ResetCache, env, history, disk
<1> QED BY <1>1, StillKept, ScanStands, Bystander

\* rmdirtmp and maildir_autopurge take only what was to go.
LEMMA EmptyQuiet ==
  ASSUME PlaceInv, PlaceInv', Quiet, NEW s \in Sessions, Empty(s)
  PROVE  Quiet'
<1>0. TypeInv /\ HereOK(s) BY DEF PlaceInv, NoLossInv, Control
<1>1. lines' = lines /\ arrived' = arrived /\ expunged \subseteq expunged'
      BY DEF Empty, Gather, Wipe, Age, ExpireName, env, history
<1>2. OthersStay(s) BY <1>0, StepsApart DEF SessionStep
<1>3. /\ Works(s) /\ Prepared(s)'
      /\ \A m : ~Moves(s, m) /\ ~Moves(s, m)'
  <2>1. /\ pc[s] \in {"gather", "wipe", "age", "expire"}
        /\ pc'[s] \in {"wipe", "age", "expire", "pickup", "idle"}
        BY <1>0, EmptyTurns
  <2> QED BY <2>1, AtWork DEF Prepared, MoveSteps, Moves
<1>4. \A m \in arrived \ expunged' : Kept(m)
  <2>1. CASE UNCHANGED disk BY <2>1, StillKept DEF disk
  <2>2. ASSUME NEW e, Unlink(e), e.msg \in expunged
        PROVE  \A m \in arrived \ expunged' : Kept(m)
        BY <1>1, <2>2, UnlinkKept
  <2>3. CASE Wipe(s) /\ ~UNCHANGED disk
    <3>1. PICK e \in todo[s] : Unlink(e) BY <2>3 DEF Wipe
    <3>2. e.msg \in expunged BY <1>0, <2>3 DEF Wipe, HereOK
    <3> QED BY <2>2, <3>1, <3>2
  <2>4. CASE ExpireName(s)
        BY <1>0, <2>2, <2>4 DEF ExpireName, HereOK
  <2> QED BY <2>1, <2>3, <2>4 DEF Empty, Gather, Age
<1> QED BY <1>1, <1>2, <1>3, <1>4, Bystander

\* A request comes in that does not clash.
LEMMA StartQuiet ==
  ASSUME PlaceInv, PlaceInv', Quiet, NEW s \in Sessions, Start(s), calm'
  PROVE  Quiet'
<1>0. TypeInv BY DEF PlaceInv, NoLossInv
<1>1. PICK op \in AllOps, f \in Folders, dest \in Folders,
            names \in SUBSET Names, l \in {"pickup", "find", "gather"} :
        /\ Begin(s, op, f, dest, names, l)
        /\ l = "find" =>
             /\ op # "list" /\ names \subseteq {e \in shown : e.folder = f}
             /\ \A x, y \in names : x.msg = y.msg => x = y
      BY <1>0, StartSelects
<1>2. /\ pc[s] = "idle" /\ pc'[s] = l /\ UNCHANGED entries
      /\ req'[s] = [op |-> op, folder |-> f, dest |-> dest]
      /\ todo'[s] = names
      /\ lines' = lines /\ arrived' = arrived /\ expunged' = expunged
      BY <1>0, <1>1 DEF Begin, Goto, TypeInv, TypeOK, disk
<1>3. Undisturbed(s, op, names) BY <1>1 DEF Begin
<1>4. OthersStay(s) BY <1>0, StepsApart DEF SessionStep
<1>5. Works(s)' => \A z \in Sessions \ {s} : ~Works(z)
      BY <1>2, <1>3 DEF Undisturbed, Works
<1>6. Prepared(s)'
  <2>1. CASE l # "find" BY <1>2, <2>1 DEF Prepared, MoveSteps
  <2>2. CASE l = "find"
    <3>1. ASSUME NEW e \in names PROVE Ready(s, e)'
      <4>1. e \in entries /\ \A x \in entries : x.msg = e.msg => Live(x)
            BY <1>1, <1>3, <2>2 DEF Undisturbed
      <4>2. e.sub = "cur" /\ e.folder = f
            BY <1>1, <2>2 DEF PlaceInv, ShownCur
      <4> QED BY <1>2, <4>1, <4>2 DEF Ready, Live, Marked
    <3> QED BY <1>1, <1>2, <2>2, <3>1 DEF Prepared
  <2> QED BY <2>1, <2>2
<1>7. \A m : ~Moves(s, m) /\ ~Moves(s, m)' BY <1>2 DEF Moves
<1> QED BY <1>2, <1>4, <1>5, <1>6, <1>7, StillKept, Bystander

\* A message arrives: one name, one line.
LEMMA DeliverQuiet ==
  ASSUME PlaceInv, PlaceInv', Quiet, NEW n \in Msgs, Deliver(n)
  PROVE  Quiet'
<1> DEFINE e == [msg |-> n, folder |-> Inbox, sub |-> "new", flags |-> {}]
<1>0. TypeInv /\ Control BY DEF PlaceInv, NoLossInv
<1>1. /\ entries' = entries \cup {e} /\ arrived' = arrived \cup {n}
      /\ n \notin arrived /\ UNCHANGED <<local, expunged>>
      /\ lines' = [lines EXCEPT ![n] = 1]
      BY DEF Deliver
<1>2. e.msg = n /\ e.folder = Inbox /\ Live(e) BY DEF Live, Marked
<1> HIDE DEF e
<1>3. Gentle BY <1>1, <1>2 DEF Gentle
<1>4. \A z \in Sessions : /\ pc'[z] = pc[z] /\ req'[z] = req[z]
                          /\ todo'[z] = todo[z] /\ path'[z] = path[z]
      BY <1>1 DEF local
<1>5. Alone' BY <1>4 DEF Quiet, Alone, Works, Active
<1>6. ASSUME NEW z \in Sessions PROVE Prepared(z)'
  <2>1. ASSUME NEW x, Ready(z, x) PROVE Ready(z, x)'
        BY <1>3, <1>4, <2>1, ReadyStays
  <2> QED BY <1>4, <2>1 DEF Quiet, Prepared
<1>7. ASSUME NEW m \in arrived' \ expunged' PROVE Exact(m)'
  <2>1. \A z \in Sessions : Moves(z, m)' <=> Moves(z, m)
        BY <1>4 DEF Moves
  <2>2. CASE m = n
    <3>1. \A z \in Sessions : ~Moves(z, m)
          BY <1>0, <1>1, <2>2 DEF Moves, Control, HereOK
    <3>2. LiveNames(m)' = {e}
          BY <1>0, <1>1, <1>2, <2>2 DEF LiveNames, Control, KnownNames
    <3>3. lines'[m] = 1 BY <1>0, <1>1, <2>2 DEF TypeInv, TypeOK
    <3>4. Share(e.folder) = 1
          BY <1>2, FoldersAssumption DEF Share, Counts
    <3>5. e \in entries' BY <1>1
    <3>6. Settled(m)' BY <3>2, <3>3, <3>4, <3>5 DEF Settled, Share, Counts
    <3> QED BY <2>1, <3>1, <3>6 DEF Exact
  <2>3. CASE m # n
    <3>1. m \in arrived \ expunged BY <1>1, <2>3
    <3>2. Exact(m) BY <3>1 DEF Quiet
    <3>3. LiveNames(m)' = LiveNames(m)
          BY <1>1, <1>2, <2>3 DEF LiveNames, Live, Marked
    <3>4. lines'[m] = lines[m] BY <1>0, <1>1, <2>3 DEF TypeInv, TypeOK
    <3>5. Settled(m) => Settled(m)'
          BY <3>3, <3>4, SettledStays DEF Kept
    <3>6. ASSUME NEW z \in Sessions, HalfMoved(z, m) PROVE HalfMoved(z, m)'
      <4>1. Target(z)' = Target(z) BY <1>4 DEF Target
      <4> QED BY <1>4, <3>3, <3>4, <3>6, <4>1 DEF HalfMoved
    <3> QED BY <2>1, <3>2, <3>5, <3>6 DEF Exact
  <2> QED BY <2>2, <2>3
<1> QED BY <1>5, <1>6, <1>7 DEF Quiet

\* The clock moves no message.
LEMMA TimeQuiet ==
  ASSUME Quiet, Tick \/ UNCHANGED vars
  PROVE  Quiet'
<1>1. UNCHANGED <<entries, lines, pc, req, todo, path, arrived, expunged>>
      BY DEF Tick, vars, disk, local, history
<1>2. Alone' BY <1>1 DEF Quiet, Alone, Works, Active
<1>3. \A z \in Sessions : Prepared(z)'
      BY <1>1 DEF Quiet, Prepared, Ready, Live, Marked
<1>4. ASSUME NEW m \in arrived \ expunged PROVE Exact(m)'
  <2>1. Exact(m) BY DEF Quiet
  <2>2. LiveNames(m)' = LiveNames(m) BY <1>1 DEF LiveNames, Live, Marked
  <2> QED BY <1>1, <2>1, <2>2
          DEF Exact, Settled, HalfMoved, Moves, Share, Counts, Target, RemFlag
<1> QED BY <1>1, <1>2, <1>3, <1>4 DEF Quiet

\* What is left to do after a message is as ready as before.
LEMMA GoesPrepared ==
  ASSUME NEW s \in Sessions, pc[s] \in MoveSteps, Goes(s), Prepared(s),
         \A e \in todo[s] : req'[s] = req[s] /\ Ready(s, e) => Ready(s, e)'
  PROVE  Prepared(s)'
<1>1. CASE pc'[s] = "find"
  <2>1. todo'[s] \subseteq todo[s] /\ req'[s] = req[s] BY <1>1 DEF Goes
  <2> QED BY <1>1, <2>1 DEF Prepared
<1>2. CASE pc'[s] # "find" BY <1>2 DEF Goes, Prepared, MoveSteps
<1> QED BY <1>1, <1>2

\* A message that is given up before its new name is linked.
LEMMA GivenUpQuiet ==
  ASSUME PlaceInv, PlaceInv', Quiet, NEW s \in Sessions, Move(s), Goes(s),
         pc[s] \in {"find", "account"}, UNCHANGED <<disk, lines>>,
         arrived' = arrived, expunged' = expunged
  PROVE  Quiet'
<1>0. TypeInv BY DEF PlaceInv, NoLossInv
<1>1. OthersStay(s) BY <1>0, StepsApart DEF SessionStep
<1>2. Gentle /\ \A m : Kept(m) BY StillKept DEF disk
<1>3. Prepared(s)'
      BY <1>2, ReadyStays, GoesPrepared DEF Quiet, MoveSteps
<1>4. \A m : ~Moves(s, m) /\ ~Moves(s, m)' BY DEF Moves, Goes
<1>5. Works(s) BY AtWork DEF MoveSteps
<1> QED BY <1>1, <1>2, <1>3, <1>4, <1>5, Bystander

\* maildir_find finds the very name that was on the page.
LEMMA FindQuiet ==
  ASSUME PlaceInv, PlaceInv', Quiet, NEW s \in Sessions, Find(s)
  PROVE  Quiet'
<1>0. TypeInv BY DEF PlaceInv, NoLossInv
<1>1. /\ Move(s) /\ pc[s] = "find" /\ UNCHANGED <<disk, lines>>
      /\ arrived' = arrived /\ expunged' = expunged
      BY DEF Move, Find, env, history
<1>2. CASE Goes(s) BY <1>1, <1>2, GivenUpQuiet
<1>3. CASE ~Goes(s)
  <2>1. /\ req' = req /\ pc'[s] \in {"account", "mark"}
        /\ pc'[s] = "account" <=> req[s].folder # req[s].dest
        BY <1>0, <1>1, <1>3, MoveTurns
  <2>2. PICK e \in todo[s] : path'[s] \in Matches(e)
                             /\ todo'[s] = todo[s] \ {e}
        BY <1>0, <1>1, <1>3, MoveTurns
  <2>3. OthersStay(s) BY <1>0, <1>1, StepsApart DEF SessionStep
  <2>4. Gentle /\ \A m : Kept(m) BY <1>1, StillKept DEF disk
  <2>5. Prepared(s) BY DEF Quiet
  <2>6. \A x \in todo[s] : Ready(s, x) BY <1>1, <2>5 DEF Prepared, MoveSteps
  <2>7. path'[s] = e BY <2>2, <2>6 DEF Ready, Matches
  <2>8. \A x \in todo[s] : Ready(s, x)' BY <2>1, <2>4, <2>6, ReadyStays
  <2>9. \A x, y \in todo[s] : x.msg = y.msg => x = y
        BY <1>1, <2>5 DEF Prepared, MoveSteps
  <2>10. Prepared(s)'
    <3>1. Ready(s, e)' BY <2>8
    <3>2. \A x \in todo'[s] : Ready(s, x)' /\ x.msg # e.msg
          BY <2>2, <2>8, <2>9
    <3>3. \A x, y \in todo'[s] : x.msg = y.msg => x = y BY <2>2, <2>9
    <3> QED BY <2>7, <3>1, <3>2, <3>3 DEF Prepared, Ready
  <2>11. \A m : ~Moves(s, m) /\ ~Moves(s, m)' BY <1>1, <2>1 DEF Moves
  <2>12. Works(s) BY <1>1, AtWork DEF MoveSteps
  <2> QED BY <1>1, <2>3, <2>4, <2>10, <2>11, <2>12, Bystander
<1> QED BY <1>2, <1>3

\* The request has found the only live name of the message.
LEMMA OnlyName ==
  ASSUME PlaceInv, Quiet, NEW s \in Sessions, NEW m \in arrived \ expunged,
         pc[s] \in {"account", "link", "mark"}, path[s].msg = m,
         ~Moves(s, m)
  PROVE  LiveNames(m) = {path[s]} /\ lines[m] = Share(req[s].folder)
<1>1. Works(s) BY AtWork DEF MoveSteps
<1>2. \A z \in Sessions : ~Moves(z, m) BY <1>1, OthersDoNot
<1>3. Settled(m) BY <1>2 DEF Quiet, Exact
<1>4. Ready(s, path[s]) BY DEF Quiet, Prepared, MoveSteps
<1>5. path[s] \in LiveNames(m) /\ path[s].folder = req[s].folder
      BY <1>4 DEF Ready, LiveNames
<1> QED BY <1>3, <1>5 DEF Settled

\* The quota is changed for the folder where the message will be.
LEMMA AccountQuiet ==
  ASSUME PlaceInv, PlaceInv', Quiet, NEW s \in Sessions, Account(s)
  PROVE  Quiet'
<1>0. TypeInv /\ PlaceOK(s) BY DEF PlaceInv, NoLossInv
<1>1. /\ Move(s) /\ pc[s] = "account" /\ UNCHANGED disk
      /\ arrived' = arrived /\ expunged' = expunged
      BY DEF Move, Account, history
<1>2. CASE MoveFailed(s) /\ UNCHANGED lines
      BY <1>0, <1>1, <1>2, AfterMoveGoes, GivenUpQuiet
<1>3. CASE /\ Goto(s, "link") /\ Keep
           /\ \/ /\ IntoTrash(s)
                 /\ lines' = [lines EXCEPT ![path[s].msg] = @ - 1]
              \/ /\ FromTrash(s)
                 /\ lines' = [lines EXCEPT ![path[s].msg] = @ + 1]
              \/ /\ ~IntoTrash(s) /\ ~FromTrash(s)
                 /\ UNCHANGED lines
  <2>1. OthersStay(s) BY <1>0, <1>1, StepsApart DEF SessionStep
  <2>2. pc'[s] = "link" /\ req' = req /\ path' = path /\ todo' = todo
        BY <1>0, <1>3 DEF Goto, Keep, TypeInv, TypeOK
  <2>3. Prepared(s) /\ req[s].folder # req[s].dest
        BY <1>0, <1>1 DEF Quiet, PlaceOK
  <2>4. Gentle /\ \A m : LiveNames(m)' = LiveNames(m)
        BY <1>1, StillKept DEF disk, LiveNames, Live, Marked
  <2>5. ASSUME NEW e, Ready(s, e) PROVE Ready(s, e)'
        BY <2>2, <2>4, <2>5, ReadyStays
  <2>6. Prepared(s)' BY <1>1, <2>2, <2>3, <2>5 DEF Prepared, MoveSteps
  <2>7. Ready(s, path[s]) BY <1>1, <2>3 DEF Prepared, MoveSteps
  <2>8. ASSUME NEW m \in arrived \ expunged, m = path[s].msg
        PROVE  Exact(m)'
    <3>1. LiveNames(m) = {path[s]} /\ lines[m] = Share(req[s].folder)
          BY <1>1, <2>8, OnlyName DEF Moves
    <3>2. lines'[m] = Share(req[s].dest)
      <4>1. Live(path[s]) BY <2>7 DEF Ready
      <4>2. m \in Msgs BY <1>0 DEF TypeInv, TypeOK
      <4> QED BY <1>0, <1>3, <2>3, <2>8, <3>1, <4>1, <4>2
              DEF IntoTrash, FromTrash, Counts, Share, TypeInv, TypeOK
    <3>3. HalfMoved(s, m)'
          BY <2>2, <2>4, <3>1, <3>2 DEF HalfMoved, Share, Counts
    <3>4. Moves(s, m)' BY <2>2, <2>3, <2>8 DEF Moves
    <3>5. \A z \in Sessions \ {s} : ~Moves(z, m)'
      <4>1. Works(s) BY <1>1, AtWork DEF MoveSteps
      <4>2. \A z \in Sessions \ {s} : ~Moves(z, m) BY <4>1, OthersDoNot
      <4> QED BY <2>1, <4>2 DEF OthersStay, Moves
    <3> QED BY <3>3, <3>4, <3>5 DEF Exact
  <2>9. ASSUME NEW m \in arrived \ expunged, m # path[s].msg
        PROVE  LiveNames(m)' = LiveNames(m) /\ lines'[m] = lines[m]
    <3>1. m \in Msgs BY <1>0 DEF TypeInv, TypeOK
    <3> QED BY <1>0, <1>3, <2>4, <2>9, <3>1 DEF TypeInv, TypeOK
  <2>10. \A m : Moves(s, m) \/ Moves(s, m)' => m = path[s].msg
         BY <2>2 DEF Moves
  <2> QED BY <1>1, <2>1, <2>2, <2>6, <2>8, <2>9, <2>10, SoleStep DEF MoveSteps
<1> QED BY <1>2, <1>3 DEF Account

\* link() into the other folder does not fail, and then there are two names.
LEMMA LinkQuiet ==
  ASSUME PlaceInv, PlaceInv', Quiet, NEW s \in Sessions, LinkDest(s)
  PROVE  Quiet'
<1> DEFINE new == Target(s)
           a == path[s]
<1>0. TypeInv /\ PlaceOK(s) BY DEF PlaceInv, NoLossInv
<1>1. /\ Move(s) /\ pc[s] = "link" /\ UNCHANGED lines
      /\ arrived' = arrived /\ expunged' = expunged
      BY DEF Move, LinkDest, env, history
<1>2. Prepared(s) /\ req[s].folder # req[s].dest
      BY <1>0, <1>1 DEF Quiet, PlaceOK
<1>3. Ready(s, a) BY <1>1, <1>2 DEF Prepared, MoveSteps
<1>4. a \in Names /\ a \in entries BY <1>0, <1>3 DEF Ready, TypeInv, TypeOK
<1>5. new.msg = a.msg /\ new.folder = req[s].dest /\ Live(new) /\ new # a
  <2>1. new.msg = a.msg /\ new.folder = req[s].dest /\ Live(new)
        BY <1>4 DEF Target, RemFlag, Live, Marked, Names
  <2>2. a.folder = req[s].folder BY <1>3 DEF Ready
  <2> QED BY <1>2, <2>1, <2>2
<1>6. OthersStay(s) BY <1>0, <1>1, StepsApart DEF SessionStep
<1>7. ASSUME NEW m \in arrived \ expunged, m = a.msg
      PROVE  LiveNames(m) = {a} /\ lines[m] = Share(req[s].dest)
  <2>1. Moves(s, m) BY <1>1, <1>2, <1>7 DEF Moves
  <2> QED BY <1>1, <2>1 DEF Quiet, Exact, HalfMoved
<1>8. CASE LinkFails(s, new)
  <2>0. /\ MoveFailed(s) /\ UNCHANGED disk BY <1>8 DEF LinkDest
  <2>1. new \in entries BY <1>4, <1>8 DEF LinkFails
  <2>2. a.msg \notin arrived \ expunged
        BY <1>5, <1>7, <2>1 DEF LiveNames
  <2>3. Goes(s) BY <1>0, <2>0, AfterMoveGoes
  <2>4. Gentle /\ \A m : LiveNames(m)' = LiveNames(m)
        BY <2>0, StillKept DEF disk, LiveNames, Live, Marked
  <2>5. Prepared(s)'
        BY <1>1, <1>2, <2>3, <2>4, ReadyStays, GoesPrepared DEF MoveSteps
  <2>6. \A m : Moves(s, m) \/ Moves(s, m)' => m = a.msg
        BY <2>3 DEF Moves, Goes
  <2> HIDE DEF a
  <2> QED BY <1>1, <1>6, <2>2, <2>3, <2>4, <2>5, <2>6, SoleStep
          DEF MoveSteps, Goes, a
<1>9. CASE ~LinkFails(s, new)
  <2>1. /\ entries' = entries \cup {new}
        /\ Goto(s, "mark") /\ Keep
        BY <1>9 DEF LinkDest, Store
  <2>2. pc'[s] = "mark" /\ req' = req /\ path' = path /\ todo' = todo
        BY <1>0, <2>1 DEF Goto, Keep, TypeInv, TypeOK
  <2> HIDE DEF new
  <2>3. Ready(s, a)'
    <3>1. \A x \in entries : x.msg = a.msg => Live(x) BY <1>3 DEF Ready
    <3>2. \A x \in entries' : x.msg = a.msg => Live(x) BY <1>5, <2>1, <3>1
    <3>3. a \in entries' BY <1>4, <2>1
    <3> QED BY <1>3, <2>2, <3>2, <3>3 DEF Ready, Live, Marked
  <2>4. \A e \in todo[s] : Ready(s, e)'
    <3>1. \A e \in todo[s] : Ready(s, e) /\ e.msg # a.msg
          BY <1>1, <1>2 DEF Prepared, MoveSteps
    <3>2. \A x : x.msg # a.msg => (x \in entries' <=> x \in entries)
          BY <1>5, <2>1
    <3> HIDE DEF a
    <3> QED BY <2>2, <3>1, <3>2, ReadyApart
  <2>5. Prepared(s)' BY <1>1, <1>2, <2>2, <2>3, <2>4 DEF Prepared, MoveSteps
  <2>6. ASSUME NEW m \in arrived \ expunged, m = a.msg
        PROVE  Exact(m)'
    <3>1. LiveNames(m)' = {a, new}
          BY <1>5, <1>7, <2>1, <2>6 DEF LiveNames, Live, Marked
    <3>2. Target(s)' = new BY <2>2 DEF Target, RemFlag, new
    <3>3. HalfMoved(s, m)'
          BY <1>1, <1>7, <2>2, <2>6, <3>1, <3>2 DEF HalfMoved, Share, Counts
    <3>4. Moves(s, m)' BY <1>2, <2>2, <2>6 DEF Moves
    <3>5. \A z \in Sessions \ {s} : ~Moves(z, m)'
      <4>1. Works(s) BY <1>1, AtWork DEF MoveSteps
      <4>2. \A z \in Sessions \ {s} : ~Moves(z, m) BY <4>1, OthersDoNot
      <4> QED BY <1>6, <4>2 DEF OthersStay, Moves
    <3> QED BY <3>3, <3>4, <3>5 DEF Exact
  <2>7. ASSUME NEW m \in arrived \ expunged, m # a.msg
        PROVE  LiveNames(m)' = LiveNames(m)
        BY <1>5, <2>1, <2>7 DEF LiveNames, Live, Marked
  <2>8. \A m : Moves(s, m) \/ Moves(s, m)' => m = a.msg BY <2>2 DEF Moves
  <2> QED BY <1>1, <1>6, <2>2, <2>5, <2>6, <2>7, <2>8, SoleStep DEF MoveSteps
<1> QED BY <1>8, <1>9

\* The old name is marked: the message is under the new name alone.
LEMMA MarkQuiet ==
  ASSUME PlaceInv, PlaceInv', Quiet, NEW s \in Sessions, Mark(s)
  PROVE  Quiet'
<1> DEFINE new == Target(s)
           a == path[s]
           b == AddFlag(a, MarkFlag(s))
<1>0. TypeInv /\ HereOK(s) BY DEF PlaceInv, NoLossInv, Control
<1>1. /\ Move(s) /\ pc[s] = "mark" /\ UNCHANGED lines /\ Rename(a, b)
      /\ arrived' = arrived /\ expunged \subseteq expunged'
      BY DEF Move, Mark
<1>2. Goes(s) BY <1>0, AfterMoveGoes DEF Mark
<1>3. OthersStay(s) BY <1>0, <1>1, StepsApart DEF SessionStep
<1>4. Prepared(s) BY DEF Quiet
<1>5. Ready(s, a) BY <1>1, <1>4 DEF Prepared, MoveSteps
<1>6. a \in Names /\ a \in entries BY <1>0, <1>5 DEF Ready, TypeInv, TypeOK
<1>7. /\ b.msg = a.msg /\ b.folder = a.folder
      /\ b.flags = a.flags \cup {MarkFlag(s)}
      BY <1>6 DEF AddFlag, Names
<1>8. /\ new.msg = a.msg /\ new.folder = req[s].dest
      BY <1>6 DEF Target, RemFlag, Names
<1>9. /\ \A m : ~Moves(s, m)'
      /\ \A z \in Sessions \ {s} : \A m : ~Moves(z, m)'
  <2>1. Works(s) BY <1>1, AtWork DEF MoveSteps
  <2>2. \A z \in Sessions \ {s} : \A m : ~Moves(z, m) BY <2>1, OthersDoNot
  <2> QED BY <1>2, <1>3, <2>2 DEF OthersStay, Moves, Goes
<1> HIDE DEF b, new
<1>10. \A x : x.msg # a.msg => (x \in entries' <=> x \in entries)
       BY <1>1, <1>7 DEF Rename, Store
<1>11. Prepared(s)'
  <2>1. \A e \in todo[s] : Ready(s, e) /\ e.msg # a.msg
        BY <1>1, <1>4 DEF Prepared, MoveSteps
  <2> HIDE DEF a
  <2>2. \A e \in todo[s] : req'[s] = req[s] /\ Ready(s, e) => Ready(s, e)'
        BY <1>10, <2>1, ReadyApart
  <2> QED BY <1>1, <1>2, <1>4, <2>2, GoesPrepared DEF MoveSteps
<1>12. ASSUME NEW m \in arrived \ expunged', m # a.msg
       PROVE  LiveNames(m)' = LiveNames(m)
       BY <1>10, <1>12 DEF LiveNames, Live, Marked
<1>13. ASSUME NEW m \in arrived \ expunged', m = a.msg
       PROVE  Settled(m)'
  <2>0. m \in arrived \ expunged BY <1>1
  <2>1. CASE req[s].folder = req[s].dest
    <3>1. ~(req[s].op = "delete" /\ req[s].folder = Trash)
          BY <1>13 DEF Mark
    <3>2. req[s].op = "read" BY <1>0, <1>1, <2>1, <3>1 DEF HereOK, MoveSteps
    <3>3. Live(b) <=> Live(a)
          BY <1>7, <3>2 DEF Live, Marked, MarkFlag
    <3>4. LiveNames(m) = {a} /\ lines[m] = Share(req[s].folder)
          BY <1>1, <1>13, <2>0, <2>1, OnlyName DEF Moves
    <3>5. Settled(m) BY <1>5, <1>6, <3>4 DEF Settled, Ready
    <3>6. \A z \in Sessions : ~Moves(z, m)
      <4>1. Works(s) BY <1>1, AtWork DEF MoveSteps
      <4> QED BY <2>1, <4>1, OthersDoNot DEF Moves
    <3>7. Kept(m) BY <1>1, <1>7, <3>3, <3>6, RenameKept
    <3> QED BY <1>1, <3>5, <3>7, SettledStays
  <2>2. CASE req[s].folder # req[s].dest
    <3>1. req[s].op # "read"
          BY <1>0, <1>1, <2>2 DEF HereOK, MoveSteps
    <3>2. Marked(b) BY <1>7, <3>1 DEF Marked, MarkFlag
    <3>3. b \notin entries BY <1>5, <1>7, <3>2 DEF Ready, Live
    <3>4. entries' = (entries \ {a}) \cup {b}
          BY <1>1, <1>6, <3>3 DEF Rename, Store
    <3>5. LiveNames(m) = {a, new} /\ lines[m] = Share(req[s].dest)
      <4>1. Moves(s, m) BY <1>1, <1>13, <2>2 DEF Moves
      <4> QED BY <1>1, <2>0, <4>1 DEF Quiet, Exact, HalfMoved, new
    <3>6. new # a BY <1>5, <1>8, <2>2 DEF Ready
    <3>7. LiveNames(m)' = {new}
          BY <3>2, <3>4, <3>5, <3>6 DEF LiveNames, Live, Marked
    <3>8. new \in entries' BY <3>7 DEF LiveNames
    <3>9. lines'[m] = Share(new.folder) BY <1>1, <1>8, <3>5
    <3> QED BY <3>7, <3>8, <3>9 DEF Settled, Share, Counts
  <2> QED BY <2>1, <2>2
<1>14. ASSUME NEW m \in arrived \ expunged', m = a.msg PROVE Exact(m)'
       BY <1>9, <1>13, <1>14 DEF Exact
<1>15. \A m : Moves(s, m) \/ Moves(s, m)' => m = a.msg
       BY <1>9 DEF Moves
<1> QED BY <1>1, <1>2, <1>3, <1>11, <1>12, <1>14, <1>15, SoleStep
        DEF MoveSteps, Goes

\* The empty maildir is exact.
LEMMA ExactInit == Init => ExactInv
<1> SUFFICES ASSUME Init PROVE ExactInv
    OBVIOUS
<1>1. PlaceInv
      BY NoLossInit DEF Init, PlaceInv, ShownCur, PlaceOK, MoveSteps
<1>2. Quiet
      BY DEF Init, Quiet, Alone, Works, Active, Prepared, MoveSteps
<1> QED BY <1>1, <1>2 DEF ExactInv

\* Every step keeps the maildir exact, or is a crash or a clash
\* (do_msgmove, maildir_checknew, maildir_deleteall, maildir_autopurge).
LEMMA ExactNext == ExactInv /\ [Next]_vars => ExactInv'
<1> SUFFICES ASSUME ExactInv, [Next]_vars PROVE ExactInv'
    OBVIOUS
<1>0. PlaceInv /\ PlaceInv' BY PlaceNext DEF ExactInv
<1>1. SUFFICES ASSUME calm' PROVE Quiet'
      BY <1>0 DEF ExactInv
<1>2. ASSUME NEW s \in Sessions, Start(s) PROVE Quiet'
  <2>1. TypeInv BY <1>0 DEF PlaceInv, NoLossInv
  <2>2. PICK op \in AllOps, f \in Folders, dest \in Folders,
              names \in SUBSET Names, l \in {"pickup", "find", "gather"} :
          Begin(s, op, f, dest, names, l)
        BY <1>2, <2>1, StartShape
  <2>3. calm' = (calm /\ Undisturbed(s, op, names)) BY <2>2 DEF Begin
  <2>4. calm BY <1>1, <2>3
  <2> QED BY <1>0, <1>1, <1>2, <2>4, StartQuiet DEF ExactInv
<1>3. ASSUME NEW s \in Sessions, CheckNew(s) \/ DirScan(s) \/ Empty(s)
      PROVE  Quiet'
  <2>1. calm' = calm
        BY <1>3
        DEF CheckNew, Pickup, ToCur, StatCur, SkipPurge, ScanMarked, Purge,
            Purged, DirScan, CountStat, UseCache, Tally, TruncateCache, WriteCache,
            RereadCache, Restat, ResetCache, Empty, Gather, Wipe, Age,
            ExpireName, env, history
  <2>2. Quiet BY <1>1, <2>1 DEF ExactInv
  <2> QED BY <1>0, <1>3, <2>2, CheckNewQuiet, DirScanQuiet, EmptyQuiet
<1>4. ASSUME NEW s \in Sessions, Move(s) PROVE Quiet'
  <2>1. calm' = calm
        BY <1>4 DEF Move, Find, Account, LinkDest, Mark, env, history
  <2>2. Quiet BY <1>1, <2>1 DEF ExactInv
  <2> QED BY <1>0, <1>4, <2>2, FindQuiet, AccountQuiet, LinkQuiet, MarkQuiet
          DEF Move
<1>5. ASSUME NEW s \in Sessions, Crash(s) PROVE Quiet'
      BY <1>1, <1>5 DEF Crash
<1>6. ASSUME NEW m \in Msgs, Deliver(m) PROVE Quiet'
  <2>1. Quiet BY <1>1, <1>6 DEF Deliver, ExactInv
  <2> QED BY <1>0, <1>6, <2>1, DeliverQuiet
<1>7. ASSUME Tick \/ UNCHANGED vars PROVE Quiet'
  <2>1. Quiet BY <1>1, <1>7 DEF Tick, vars, history, ExactInv
  <2> QED BY <1>7, <2>1, TimeQuiet
<1> QED BY <1>2, <1>3, <1>4, <1>5, <1>6, <1>7 DEF Next, Normal

\* When no request is under way, every message is settled.
LEMMA ExactInvIsExact == ExactInv => MoveIsExact
<1> SUFFICES ASSUME ExactInv, calm, AllQuiet, NEW m \in arrived \ expunged
             PROVE  /\ Cardinality(LiveNames(m)) = 1
                    /\ \A e \in LiveNames(m) :
                         lines[m] = IF Counts(e.folder) THEN 1 ELSE 0
    BY DEF MoveIsExact
<1>1. \A s \in Sessions : ~Moves(s, m) BY DEF AllQuiet, Active, Moves
<1>2. Settled(m) BY <1>1 DEF ExactInv, Quiet, Exact
<1>3. PICK e \in entries : LiveNames(m) = {e} /\ lines[m] = Share(e.folder)
      BY <1>2 DEF Settled
<1>4. Cardinality({e}) = 1 BY FS_Singleton
<1> QED BY <1>3, <1>4 DEF Share

\* Requests that do not clash and are not killed leave every message in one
\* folder, under one name, with the lines in maildirsize that the folder asks
\* for: however the requests that only look rename and purge meanwhile, and
\* whether the quota lets a message out of the Trash or not (do_msgmove).
THEOREM MoveTheorem == Spec => []MoveIsExact
<1>1. Spec => []ExactInv BY ExactInit, ExactNext, PTL DEF Spec
<1> QED BY <1>1, ExactInvIsExact, PTL

-----------------------------------------------------------------------------
(* Counts that are taken for current are right.                            *)
(*                                                                         *)
(* The mtime of a directory never goes back, and whatever changes a count  *)
(* sets it to the current time.  Counts begun in a later second than the   *)
(* last change are wrong only if the directory has changed since, and is   *)
(* newer than it was then; while the counts are newer still, their writer  *)
(* has yet to look again, and will take them back.                         *)

\* The directory f stays as it is, or changes now.
Stamped(f) ==
  \/ mtime'[f] = now
  \/ mtime'[f] = mtime[f] /\ CountOf(f)' = CountOf(f)

\* What a request in dodirscan knows about the directory.
ScanOK(s) ==
  pc[s] \in {"cread", "truncate", "write", "reread", "restat", "reset"} =>
    /\ t0[s] = tally[s].seen /\ t0[s] =< mtime[req[s].folder]
    /\ tally[s].began =< now
    /\ pc[s] \in {"truncate", "write"} /\ t0[s] < tally[s].began
       /\ mtime[req[s].folder] = t0[s] =>
         tally[s].count = CountOf(req[s].folder)

\* The request is going to take back what it wrote for f.
TakesBack(s, f) ==
  /\ Rechecks(s) /\ req[s].folder = f
  /\ pc[s] = "reset" \/ t0[s] < mtime[f]

CacheOK(f) ==
  counts[f] # None =>
    /\ counts[f].mtime =< now
    /\ counts[f].seen < counts[f].began /\ Current(counts[f], mtime[f])
       /\ counts[f].count # CountOf(f) =>
         \E s \in Sessions : TakesBack(s, f)

StampOK == \A f \in Folders : mtime[f] =< now

CountInv ==
  /\ TypeInv /\ StampOK
  /\ \A s \in Sessions : ScanOK(s)
  /\ \A f \in Folders : CacheOK(f)

\* The counts of a folder are those of the names in its cur.
LEMMA SameCount ==
  ASSUME NEW f, In(f, "cur")' = In(f, "cur")
  PROVE  CountOf(f)' = CountOf(f)
BY DEF CountOf, Unread, Live, Marked

\* link, rename within a folder and unlink stamp the directory they change.
LEMMA CallsStamp ==
  ASSUME TypeInv, NEW f \in Folders,
         \/ UNCHANGED disk
         \/ \E a, b : Rename(a, b) /\ b.folder = a.folder
         \/ \E a : Unlink(a)
         \/ \E a, ms : Store(entries \cup {a}, {a.folder}, ms)
  PROVE  Stamped(f)
<1>1. CASE UNCHANGED disk
  <2>1. In(f, "cur")' = In(f, "cur") BY <1>1 DEF In, disk
  <2> QED BY <1>1, <2>1, SameCount DEF Stamped, disk
<1>2. ASSUME NEW a, NEW b, Rename(a, b), b.folder = a.folder
      PROVE  Stamped(f)
  <2>1. CASE UNCHANGED <<entries, mtime>>
    <3>1. In(f, "cur")' = In(f, "cur") BY <2>1 DEF In
    <3> QED BY <2>1, <3>1, SameCount DEF Stamped
  <2>2. CASE Store((entries \ {a}) \cup {b}, {b.folder}, {a.msg})
    <3>1. CASE f = b.folder BY <2>2, <3>1 DEF Store, Stamped
    <3>2. CASE f # b.folder
      <4>1. In(f, "cur")' = In(f, "cur")
            BY <1>2, <2>2, <3>2 DEF In, Store
      <4>2. mtime'[f] = mtime[f] BY <2>2, <3>2 DEF Store
      <4> QED BY <4>1, <4>2, SameCount DEF Stamped
    <3> QED BY <3>1, <3>2
  <2> QED BY <1>2, <2>1, <2>2 DEF Rename
<1>3. ASSUME NEW a, Unlink(a) PROVE Stamped(f)
  <2>1. CASE UNCHANGED <<entries, mtime>>
    <3>1. In(f, "cur")' = In(f, "cur") BY <2>1 DEF In
    <3> QED BY <2>1, <3>1, SameCount DEF Stamped
  <2>2. CASE Store(entries \ {a}, {a.folder}, {a.msg})
    <3>1. CASE f = a.folder BY <2>2, <3>1 DEF Store, Stamped
    <3>2. CASE f # a.folder
      <4>1. In(f, "cur")' = In(f, "cur") BY <2>2, <3>2 DEF In, Store
      <4>2. mtime'[f] = mtime[f] BY <2>2, <3>2 DEF Store
      <4> QED BY <4>1, <4>2, SameCount DEF Stamped
    <3> QED BY <3>1, <3>2
  <2> QED BY <1>3, <2>1, <2>2 DEF Unlink
<1>4. ASSUME NEW a, NEW ms, Store(entries \cup {a}, {a.folder}, ms)
      PROVE  Stamped(f)
  <2>1. CASE f = a.folder BY <1>4, <2>1 DEF Store, Stamped
  <2>2. CASE f # a.folder
    <3>1. In(f, "cur")' = In(f, "cur") BY <1>4, <2>2 DEF In, Store
    <3>2. mtime'[f] = mtime[f] BY <1>4, <2>2 DEF Store
    <3> QED BY <3>1, <3>2, SameCount DEF Stamped
  <2> QED BY <2>1, <2>2
<1> QED BY <1>1, <1>2, <1>3, <1>4

\* Every change of the names stamps the directory.
LEMMA RequestStamps ==
  ASSUME TypeInv, NEW s \in Sessions, SessionStep(s), NEW f \in Folders
  PROVE  Stamped(f)
<1>1. CASE UNCHANGED disk BY <1>1, CallsStamp
<1>2. CASE ToCur(s)
  <2>1. PICK e \in todo[s] : Rename(e, [e EXCEPT !.sub = "cur"])
        BY <1>2 DEF ToCur
  <2>2. e \in Names BY DEF TypeInv, TypeOK
  <2>3. [e EXCEPT !.sub = "cur"].folder = e.folder BY <2>2 DEF Names
  <2> QED BY <2>1, <2>3, CallsStamp
<1>3. CASE Mark(s)
  <2>1. path[s] \in Names BY <1>3 DEF Mark, TypeInv, FoundOK
  <2>2. AddFlag(path[s], MarkFlag(s)).folder = path[s].folder
        BY <2>1 DEF AddFlag, Names
  <2> QED BY <1>3, <2>2, CallsStamp DEF Mark
<1>4. CASE LinkDest(s) /\ ~UNCHANGED disk
  <2>1. Store(entries \cup {Target(s)}, {Target(s).folder}, {Target(s).msg})
        BY <1>4 DEF LinkDest
  <2> QED BY <2>1, CallsStamp
<1>5. CASE Purge(s) \/ Wipe(s) \/ ExpireName(s)
      BY <1>5, CallsStamp DEF Purge, Wipe, ExpireName
<1>6. CASE /\ ~ToCur(s) /\ ~Mark(s) /\ ~LinkDest(s)
           /\ ~Purge(s) /\ ~Wipe(s) /\ ~ExpireName(s)
  <2>1. UNCHANGED disk
    <3>1. CASE Start(s)
          BY <3>1 DEF Start, StartList, StartDelete, StartMove, StartRead,
                      StartEmpty, StartLogin, Begin
    <3>2. CASE ~Start(s)
          BY <1>6, <3>2
          DEF SessionStep, CheckNew, Pickup, StatCur, SkipPurge, ScanMarked,
              Purged, DirScan, CountStat, UseCache, Tally, TruncateCache,
              WriteCache, RereadCache, Restat, ResetCache, Move, Find, Account, Empty,
              Gather, Age, Crash
    <3> QED BY <3>1, <3>2
  <2> QED BY <2>1, CallsStamp
<1> QED BY <1>1, <1>2, <1>3, <1>4, <1>5, <1>6

\* A request has its own stat buffer and its own tally.
LEMMA BuffersApart ==
  ASSUME TypeInv, NEW s \in Sessions, SessionStep(s),
         NEW z \in Sessions \ {s}
  PROVE  t0'[z] = t0[z] /\ tally'[z] = tally[z]
<1>1. /\ UNCHANGED t0 \/ \E v : t0' = [t0 EXCEPT ![s] = v]
      /\ UNCHANGED tally \/ \E v : tally' = [tally EXCEPT ![s] = v]
  <2>1. CASE Start(s)
        BY <2>1 DEF Start, StartList, StartDelete, StartMove, StartRead,
                    StartEmpty, StartLogin, Begin
  <2>2. CASE Finish(s) BY <2>2 DEF Finish
  <2>3. CASE CheckNew(s) /\ ~Finish(s)
        BY <2>3 DEF CheckNew, Pickup, ToCur, StatCur, SkipPurge, ScanMarked,
                    Purge, Purged, AfterCheck, Keep
  <2>4. CASE DirScan(s) /\ ~Finish(s)
        BY <2>4 DEF DirScan, CountStat, UseCache, Tally, TruncateCache, WriteCache,
                    RereadCache, Restat, ResetCache, Keep
  <2>5. CASE Move(s) /\ ~Finish(s)
        BY <2>5 DEF Move, Find, Account, LinkDest, Mark, MoveFailed,
                    AfterMove, Keep
  <2>6. CASE Empty(s) /\ ~Finish(s)
        BY <2>6 DEF Empty, Gather, Wipe, Age, ExpireName, Keep
  <2> QED BY <2>1, <2>2, <2>3, <2>4, <2>5, <2>6 DEF SessionStep, Crash
<1> QED BY <1>1 DEF TypeInv, TypeOK

\* The numbers that are compared.
LEMMA CountTypes ==
  ASSUME TypeInv
  PROVE  /\ now \in Int
         /\ \A f \in Folders : mtime[f] \in Int
         /\ \A s \in Sessions :
              /\ req[s].folder \in Folders /\ t0[s] \in Int
              /\ tally[s] \in Caches
              /\ tally[s].seen \in Int /\ tally[s].began \in Int
         /\ \A f \in Folders : counts[f] # None =>
              /\ counts[f] \in Caches /\ counts[f].mtime \in Int
BY DEF TypeInv, TypeOK, Times, Requests, Caches

\* mtime never goes back.
LEMMA StampsRise ==
  ASSUME CountInv, NEW f \in Folders, Stamped(f), now' = now
  PROVE  mtime[f] =< mtime'[f] /\ mtime'[f] =< now'
<1>1. mtime[f] \in Int /\ now \in Int /\ mtime[f] =< now
      BY CountTypes DEF CountInv, StampOK
<1> QED BY <1>1 DEF Stamped

\* What a request knows stays true, whatever happens to the directory.
LEMMA ScanStays ==
  ASSUME CountInv, NEW z \in Sessions, now' = now,
         Stamped(req[z].folder),
         pc'[z] = pc[z], req'[z] = req[z], t0'[z] = t0[z],
         tally'[z] = tally[z]
  PROVE  ScanOK(z)'
<1>0. PICK f \in Folders :
        /\ f = req[z].folder /\ now \in Int /\ mtime[f] \in Int
        /\ t0[z] \in Int /\ tally[z].began \in Int
      BY CountTypes DEF CountInv
<1>1. Stamped(f) /\ mtime[f] =< mtime'[f] BY <1>0, StampsRise
<1>2. ScanOK(z) BY DEF CountInv
<1> SUFFICES ASSUME pc[z] \in {"cread", "truncate", "write", "reread",
                                "restat", "reset"}
             PROVE  ScanOK(z)'
    BY DEF ScanOK
<1>3. t0[z] = tally[z].seen /\ t0[z] =< mtime[f] /\ tally[z].began =< now
      BY <1>0, <1>2 DEF ScanOK
<1>4. ASSUME pc[z] \in {"truncate", "write"}, t0[z] < tally[z].began,
             mtime'[f] = t0[z]
      PROVE  tally[z].count = CountOf(f)'
  <2>1. mtime'[f] # now BY <1>0, <1>3, <1>4
  <2>2. mtime'[f] = mtime[f] /\ CountOf(f)' = CountOf(f)
        BY <1>1, <2>1 DEF Stamped
  <2>3. tally[z].count = CountOf(f) BY <1>0, <1>2, <1>4, <2>2 DEF ScanOK
  <2> QED BY <2>2, <2>3
<1>5. mtime'[f] \in Int BY <1>0, <1>1 DEF Stamped
<1>6. t0[z] =< mtime'[f] BY <1>0, <1>1, <1>3, <1>5
<1>7. req'[z].folder = f BY <1>0
<1> QED BY <1>3, <1>4, <1>6, <1>7 DEF ScanOK

\* So do the counts that are on the disk, as long as their writer stands.
LEMMA CacheStays ==
  ASSUME CountInv, NEW f \in Folders, now' = now, Stamped(f),
         counts'[f] = counts[f],
         \A z \in Sessions : TakesBack(z, f) => TakesBack(z, f)'
  PROVE  CacheOK(f)'
<1> SUFFICES ASSUME counts[f] # None
             PROVE  CacheOK(f)'
    BY DEF CacheOK
<1>0. /\ now \in Int /\ counts[f].mtime \in Int /\ counts[f].mtime =< now
      BY CountTypes DEF CountInv, CacheOK
<1>1. ASSUME counts[f].seen < counts[f].began,
             Current(counts[f], mtime'[f]),
             counts[f].count # CountOf(f)'
      PROVE  \E s \in Sessions : TakesBack(s, f)'
  <2>1. mtime'[f] # now BY <1>0, <1>1 DEF Current
  <2>2. mtime'[f] = mtime[f] /\ CountOf(f)' = CountOf(f)
        BY <2>1 DEF Stamped
  <2>3. \E s \in Sessions : TakesBack(s, f)
        BY <1>1, <2>2 DEF CountInv, CacheOK
  <2> QED BY <2>3
<1> QED BY <1>0, <1>1 DEF CacheOK, Current

\* A step of s, by what it does to its own knowledge and to the counts.
LEMMA CountStep ==
  ASSUME CountInv, TypeInv', NEW s \in Sessions, SessionStep(s), now' = now,
         ScanOK(s)',
         \A f \in Folders :
           \/ /\ counts'[f] = counts[f]
              /\ TakesBack(s, f) => TakesBack(s, f)'
           \/ CacheOK(f)'
  PROVE  CountInv'
<1>0. TypeInv BY DEF CountInv
<1>1. \A f \in Folders : Stamped(f) BY <1>0, RequestStamps
<1>2. ASSUME NEW z \in Sessions \ {s}
      PROVE  /\ pc'[z] = pc[z] /\ req'[z] = req[z]
             /\ t0'[z] = t0[z] /\ tally'[z] = tally[z]
      BY <1>0, StepsApart, BuffersApart DEF OthersStay
<1>3. StampOK' BY <1>1, StampsRise DEF StampOK
<1>4. ASSUME NEW z \in Sessions PROVE ScanOK(z)'
  <2>1. CASE z = s BY <2>1
  <2>2. CASE z # s
    <3>1. req[z].folder \in Folders BY <1>0, CountTypes
    <3> QED BY <1>1, <1>2, <2>2, <3>1, ScanStays
  <2> QED BY <2>1, <2>2
<1>5. ASSUME NEW f \in Folders PROVE CacheOK(f)'
  <2>1. CASE CacheOK(f)' BY <2>1
  <2>2. CASE /\ counts'[f] = counts[f]
             /\ TakesBack(s, f) => TakesBack(s, f)'
    <3>1. mtime[f] =< mtime'[f] /\ mtime[f] \in Int /\ mtime'[f] \in Int
          BY <1>0, <1>1, StampsRise, CountTypes DEF Stamped
    <3>2. ASSUME NEW z \in Sessions, TakesBack(z, f) PROVE TakesBack(z, f)'
      <4>1. CASE z = s BY <2>2, <3>2, <4>1
      <4>2. CASE z # s
        <5>1. t0[z] \in Int BY <1>0, CountTypes
        <5> QED BY <1>2, <3>1, <3>2, <4>2, <5>1 DEF TakesBack, Rechecks
      <4> QED BY <4>1, <4>2
    <3> QED BY <1>1, <2>2, <3>2, CacheStays
  <2> QED BY <2>1, <2>2
<1> QED BY <1>3, <1>4, <1>5 DEF CountInv

\* A request that is not, and will not be, in dodirscan.
LEMMA OutsideScan ==
  ASSUME CountInv, TypeInv', NEW s \in Sessions, SessionStep(s), ~DirScan(s),
         ~Rechecks(s)
  PROVE  CountInv'
<1>0. TypeInv BY DEF CountInv
<1>1. counts' = counts /\ now' = now
  <2>1. CASE Start(s)
        BY <2>1 DEF Start, StartList, StartDelete, StartMove, StartRead,
                    StartEmpty, StartLogin, Begin
  <2>2. CASE CheckNew(s) \/ Crash(s)
        BY <2>2 DEF CheckNew, Pickup, ToCur, StatCur, SkipPurge, ScanMarked,
                    Purge, Purged, Crash, env
  <2>3. CASE Move(s) \/ Empty(s)
        BY <2>3 DEF Move, Find, Account, LinkDest, Mark, Empty, Gather, Wipe,
                    Age, ExpireName, env
  <2> QED BY <2>1, <2>2, <2>3 DEF SessionStep
<1>2. pc'[s] \notin {"cread", "truncate", "write", "reread", "restat", "reset"}
  <2>1. CASE Start(s)
    <3>1. PICK op \in AllOps, f \in Folders, dest \in Folders,
                names \in SUBSET Names, l \in {"pickup", "find", "gather"} :
            Begin(s, op, f, dest, names, l)
          BY <1>0, <2>1, StartShape
    <3> QED BY <1>0, <3>1 DEF Begin, Goto, TypeInv, TypeOK
  <2>2. CASE Finish(s) BY <1>0, <2>2, FinishType
  <2>3. CASE CheckNew(s) /\ ~Finish(s)
        BY <1>0, <2>3 DEF CheckNew, Pickup, ToCur, StatCur, SkipPurge,
                    ScanMarked, Purge, Purged, AfterCheck, Goto, TypeInv,
                    TypeOK
  <2>4. CASE Move(s) BY <1>0, <2>4, MoveTurns DEF Goes
  <2>5. CASE Empty(s) BY <1>0, <2>5, EmptyTurns
  <2> QED BY <2>1, <2>2, <2>3, <2>4, <2>5 DEF SessionStep, Crash
<1>3. ScanOK(s)' BY <1>2 DEF ScanOK
<1>4. \A f : ~TakesBack(s, f) BY DEF TakesBack
<1> QED BY <1>1, <1>3, <1>4, CountStep

\* dodirscan: stat, read, write, read again, stat again.
LEMMA DirScanCounts ==
  ASSUME CountInv, TypeInv', NEW s \in Sessions, DirScan(s)
  PROVE  CountInv'
<1>0. TypeInv /\ ScanOK(s) /\ SessionStep(s) BY DEF CountInv, SessionStep
<1>1. PICK g \in Folders :
        /\ g = req[s].folder /\ mtime[g] \in Int /\ mtime[g] =< now
        /\ now \in Int /\ t0[s] \in Int /\ tally[s] \in Caches
        /\ tally[s].seen \in Int /\ tally[s].began \in Int
      BY <1>0, CountTypes DEF CountInv, StampOK
<1>2. ASSUME pc[s] \in {"cstat", "cread", "truncate", "write"}
      PROVE  \A f : ~TakesBack(s, f)
      BY <1>2 DEF TakesBack, Rechecks
<1>3. ASSUME pc'[s] = "idle" PROVE ScanOK(s)'
      BY <1>3 DEF ScanOK
<1>4. CASE CountStat(s)
  <2>1. /\ pc[s] = "cstat" /\ pc'[s] = "cread" /\ req' = req
        /\ t0'[s] = mtime[g] /\ mtime' = mtime
        /\ tally'[s] = [NoCache EXCEPT !.began = now, !.seen = mtime[g]]
        /\ now' = now /\ counts' = counts
        BY <1>0, <1>1, <1>4
        DEF CountStat, Goto, TypeInv, TypeOK, disk, env
  <2>2. tally'[s].began = now /\ tally'[s].seen = mtime[g]
        BY <2>1 DEF NoCache
  <2>3. ScanOK(s)' BY <1>1, <2>1, <2>2 DEF ScanOK
  <2> QED BY <1>0, <1>2, <2>1, <2>3, CountStep
<1>5. CASE UseCache(s)
  <2>1. /\ pc[s] = "cread" /\ pc'[s] = "idle"
        /\ now' = now /\ counts' = counts
        BY <1>0, <1>5, FinishType DEF UseCache, env
  <2> QED BY <1>0, <1>2, <1>3, <2>1, CountStep
<1>6. CASE Tally(s)
  <2>1. /\ pc[s] = "cread" /\ pc'[s] = "truncate" /\ req' = req
        /\ t0' = t0 /\ entries' = entries /\ mtime' = mtime
        /\ tally'[s] = [tally[s] EXCEPT !.count = CountOf(g)]
        /\ now' = now /\ counts' = counts
        BY <1>0, <1>1, <1>6 DEF Tally, Goto, TypeInv, TypeOK, disk, env
  <2>2. /\ tally'[s].began = tally[s].began
        /\ tally'[s].seen = tally[s].seen
        /\ tally'[s].count = CountOf(g)
        BY <1>1, <2>1 DEF Caches
  <2>3. CountOf(g)' = CountOf(g)
    <3>1. In(g, "cur")' = In(g, "cur") BY <2>1 DEF In
    <3> QED BY <3>1, SameCount
  <2>4. req'[s].folder = g BY <1>1, <2>1
  <2>5. ScanOK(s)' BY <1>0, <1>1, <2>1, <2>2, <2>3, <2>4 DEF ScanOK
  <2> QED BY <1>0, <1>2, <2>1, <2>5, CountStep
<1>7. CASE TruncateCache(s)
  <2>1. /\ pc[s] = "truncate" /\ pc'[s] = "write" /\ UNCHANGED <<req, t0, tally>>
        /\ entries' = entries /\ mtime' = mtime /\ now' = now
        /\ counts' = [counts EXCEPT ![g] = None]
        BY <1>0, <1>1, <1>7
        DEF TruncateCache, Goto, Keep, TypeInv, TypeOK, disk
  <2>2. CountOf(g)' = CountOf(g)
    <3>1. In(g, "cur")' = In(g, "cur") BY <2>1 DEF In
    <3> QED BY <3>1, SameCount
  <2>3. ScanOK(s)' BY <1>0, <1>1, <2>1, <2>2 DEF ScanOK
  <2>4. CacheOK(g)' BY <1>0, <2>1 DEF CacheOK, TypeInv, TypeOK
  <2>5. \A f \in Folders : f # g => counts'[f] = counts[f]
        BY <1>0, <2>1 DEF TypeInv, TypeOK
  <2> QED BY <1>0, <1>2, <2>1, <2>3, <2>4, <2>5, CountStep
<1>8. CASE WriteCache(s)
  <2> DEFINE c == [tally[s] EXCEPT !.mtime = now]
  <2>1. /\ pc[s] = "write" /\ pc'[s] = "reread" /\ UNCHANGED <<req, t0, tally>>
        /\ entries' = entries /\ mtime' = mtime /\ now' = now
        /\ counts' = [counts EXCEPT ![g] = c]
        BY <1>0, <1>1, <1>8
        DEF WriteCache, Goto, Keep, TypeInv, TypeOK, disk
  <2>2. /\ c.mtime = now /\ c.began = tally[s].began
        /\ c.seen = tally[s].seen /\ c.count = tally[s].count
        BY <1>1 DEF Caches
  <2> HIDE DEF c
  <2>3. ScanOK(s)' BY <1>0, <2>1 DEF ScanOK
  <2>4. CacheOK(g)'
    <3>1. counts'[g] = c BY <1>0, <2>1 DEF TypeInv, TypeOK
    <3>2. CountOf(g)' = CountOf(g)
      <4>1. In(g, "cur")' = In(g, "cur") BY <2>1 DEF In
      <4> QED BY <4>1, SameCount
    <3>3. ASSUME c.seen < c.began, c.count # CountOf(g)
          PROVE  TakesBack(s, g)'
      <4>1. mtime[g] # t0[s]
            BY <1>0, <1>1, <2>1, <2>2, <3>3 DEF ScanOK
      <4>2. t0[s] < mtime[g] BY <1>0, <1>1, <2>1, <4>1 DEF ScanOK
      <4> QED BY <1>1, <2>1, <4>2 DEF TakesBack, Rechecks
    <3> QED BY <1>1, <2>1, <2>2, <3>1, <3>2, <3>3 DEF CacheOK
  <2>5. \A f \in Folders : f # g => counts'[f] = counts[f]
        BY <1>0, <2>1 DEF TypeInv, TypeOK
  <2> QED BY <1>0, <1>2, <2>1, <2>3, <2>4, <2>5, CountStep
<1>9. CASE RereadCache(s)
  <2>1. pc[s] = "reread" /\ mtime' = mtime /\ now' = now /\ counts' = counts
        BY <1>9 DEF RereadCache, disk, env
  <2>2. CASE counts[g] # None
    <3>1. /\ pc'[s] = "restat" /\ UNCHANGED <<req, t0>>
          /\ tally'[s] = [tally[s] EXCEPT !.mtime = counts[g].mtime]
          BY <1>0, <1>1, <1>9, <2>2 DEF RereadCache, Goto, TypeInv, TypeOK
    <3>2. tally'[s].began = tally[s].began /\ tally'[s].seen = tally[s].seen
          BY <1>1, <3>1 DEF Caches
    <3>3. ScanOK(s)' BY <1>0, <2>1, <3>1, <3>2 DEF ScanOK
    <3>4. \A f : TakesBack(s, f) => TakesBack(s, f)'
          BY <2>1, <3>1 DEF TakesBack, Rechecks
    <3> QED BY <1>0, <2>1, <3>3, <3>4, CountStep
  <2>3. CASE counts[g] = None
    <3>1. pc'[s] = "idle" BY <1>0, <1>1, <1>9, <2>3, FinishType DEF RereadCache
    <3>2. CacheOK(g)' BY <2>1, <2>3 DEF CacheOK
    <3>3. \A f \in Folders : f # g => ~TakesBack(s, f)
          BY <1>1 DEF TakesBack
    <3> QED BY <1>0, <1>3, <2>1, <3>1, <3>2, <3>3, CountStep
  <2> QED BY <2>2, <2>3
<1>10. CASE Restat(s)
  <2>1. /\ pc[s] = "restat" /\ mtime' = mtime /\ now' = now
        /\ counts' = counts
        BY <1>10 DEF Restat, disk, env
  <2>2. CASE Doubtful(s)
    <3>1. /\ pc'[s] = "reset" /\ UNCHANGED <<req, t0, tally>>
          BY <1>0, <1>10, <2>2 DEF Restat, Goto, Keep, TypeInv, TypeOK
    <3>2. ScanOK(s)' BY <1>0, <2>1, <3>1 DEF ScanOK
    <3>3. \A f : TakesBack(s, f) => TakesBack(s, f)'
          BY <3>1 DEF TakesBack, Rechecks
    <3> QED BY <1>0, <2>1, <3>2, <3>3, CountStep
  <2>3. CASE ~Doubtful(s)
    <3>1. pc'[s] = "idle" BY <1>0, <1>10, <2>3, FinishType DEF Restat
    <3>2. \A f : ~TakesBack(s, f)
          BY <1>1, <2>1, <2>3 DEF Doubtful, TakesBack
    <3> QED BY <1>0, <1>3, <2>1, <3>1, <3>2, CountStep
  <2> QED BY <2>2, <2>3
<1>11. CASE ResetCache(s)
  <2>1. pc[s] = "reset" /\ pc'[s] = "idle" /\ mtime' = mtime /\ now' = now
        BY <1>0, <1>11, FinishType DEF ResetCache, disk
  <2>2. \A f \in Folders : f # g => counts'[f] = counts[f] /\ ~TakesBack(s, f)
        BY <1>0, <1>1, <1>11 DEF ResetCache, TypeInv, TypeOK, TakesBack
  <2>3. CacheOK(g)'
    <3>1. CASE counts[g] # None
      <4> DEFINE c == [counts[g] EXCEPT !.mtime = t0[s] - 1]
      <4>1. counts[g] \in Caches BY <1>0, <1>1, <3>1, CountTypes
      <4>2. c.mtime = t0[s] - 1 BY <4>1 DEF Caches
      <4>3. counts' = [counts EXCEPT ![g] = c]
            BY <1>1, <1>11, <3>1 DEF ResetCache, RebuildStamp
      <4> HIDE DEF c
      <4>4. counts'[g] = c BY <1>0, <4>3 DEF TypeInv, TypeOK
      <4>5. t0[s] =< mtime[g] BY <1>0, <1>1, <2>1 DEF ScanOK
      <4>6. ~(c.mtime > mtime'[g]) /\ c.mtime =< now'
            BY <1>1, <2>1, <4>2, <4>5
      <4> QED BY <4>4, <4>6 DEF CacheOK, Current
    <3>2. CASE counts[g] = None
          BY <1>1, <1>11, <3>2 DEF ResetCache, CacheOK
    <3> QED BY <3>1, <3>2
  <2> QED BY <1>0, <1>3, <2>1, <2>2, <2>3, CountStep
<1> QED BY <1>4, <1>5, <1>6, <1>7, <1>8, <1>9, <1>10, <1>11 DEF DirScan

\* A message arrives in new, the clock ticks: no directory cur changes.
LEMMA WorldCounts ==
  ASSUME CountInv, TypeInv',
         (\E m \in Msgs : Deliver(m)) \/ Tick \/ UNCHANGED vars
  PROVE  CountInv'
<1>0. TypeInv BY DEF CountInv
<1>1. /\ UNCHANGED <<pc, req, t0, tally, mtime, counts>>
      /\ now' \in {now, now + 1}
      BY DEF Deliver, Tick, vars, disk, local
<1>2. now \in Int /\ now =< now' BY <1>0, <1>1, CountTypes
<1>3. ASSUME NEW f PROVE CountOf(f)' = CountOf(f)
  <2>1. CASE UNCHANGED entries
    <3>1. In(f, "cur")' = In(f, "cur") BY <2>1 DEF In
    <3> QED BY <3>1, SameCount
  <2>2. ASSUME NEW m \in Msgs, Deliver(m) PROVE CountOf(f)' = CountOf(f)
    <3>1. In(f, "cur")' = In(f, "cur") BY <2>2 DEF In, Deliver
    <3> QED BY <3>1, SameCount
  <2> QED BY <2>1, <2>2 DEF Tick, vars, disk
<1>4. StampOK'
  <2>1. \A f \in Folders : mtime[f] \in Int /\ mtime[f] =< now
        BY <1>0, CountTypes DEF CountInv, StampOK
  <2> QED BY <1>1, <1>2, <2>1 DEF StampOK
<1>5. ASSUME NEW z \in Sessions PROVE ScanOK(z)'
  <2>1. PICK f : f = req[z].folder OBVIOUS
  <2>2. ScanOK(z) /\ tally[z].began \in Int
        BY <1>0, CountTypes DEF CountInv
  <2>3. CountOf(f)' = CountOf(f) BY <1>3
  <2>4. req'[z].folder = f BY <1>1, <2>1
  <2> QED BY <1>1, <1>2, <2>1, <2>2, <2>3, <2>4 DEF ScanOK
<1>6. ASSUME NEW f \in Folders PROVE CacheOK(f)'
  <2>1. CacheOK(f) /\ (counts[f] # None => counts[f].mtime \in Int)
        BY <1>0, CountTypes DEF CountInv
  <2>2. CountOf(f)' = CountOf(f) BY <1>3
  <2>3. \A s \in Sessions : TakesBack(s, f)' <=> TakesBack(s, f)
        BY <1>1 DEF TakesBack, Rechecks
  <2> QED BY <1>1, <1>2, <2>1, <2>2, <2>3 DEF CacheOK, Current
<1> QED BY <1>4, <1>5, <1>6 DEF CountInv

\* In the empty maildir there are no counts.
LEMMA CountInit == Init => CountInv
<1> SUFFICES ASSUME Init PROVE CountInv
    OBVIOUS
<1>1. TypeInv BY InitType
<1>2. StampOK BY DEF Init, StampOK
<1>3. \A s \in Sessions : ScanOK(s) BY DEF Init, ScanOK
<1>4. \A f \in Folders : CacheOK(f) BY DEF Init, CacheOK
<1> QED BY <1>1, <1>2, <1>3, <1>4 DEF CountInv

\* Every step of a request that is not killed while it has yet to look again
\* keeps the invariant.
LEMMA CountNext == CountInv /\ [Rechecked]_vars => CountInv'
<1> SUFFICES ASSUME CountInv, [Rechecked]_vars PROVE CountInv'
    OBVIOUS
<1>1. [Next]_vars BY DEF Rechecked, Next
<1>2. TypeInv' BY <1>1, NextType DEF CountInv
<1>3. ASSUME NEW s \in Sessions,
             Start(s) \/ CheckNew(s) \/ Move(s) \/ Empty(s)
      PROVE  ~Rechecks(s)
  <2>1. CASE Start(s)
        BY <2>1 DEF Start, StartList, StartDelete, StartMove, StartRead,
                    StartEmpty, StartLogin, Begin, Rechecks
  <2>2. CASE CheckNew(s)
        BY <2>2 DEF CheckNew, Pickup, ToCur, StatCur, SkipPurge, ScanMarked,
                    Purge, Purged, Rechecks
  <2>3. CASE Move(s) \/ Empty(s)
        BY <2>3 DEF Move, Find, Account, LinkDest, Mark, Empty, Gather, Wipe,
                    Age, ExpireName, Rechecks
  <2> QED BY <1>3, <2>1, <2>2, <2>3
<1>4. ASSUME NEW s \in Sessions, SessionStep(s), DirScan(s) \/ ~Rechecks(s)
      PROVE  CountInv'
      BY <1>2, <1>4, DirScanCounts, OutsideScan
<1>5. ASSUME (\E m \in Msgs : Deliver(m)) \/ Tick \/ UNCHANGED vars
      PROVE  CountInv'
      BY <1>2, <1>5, WorldCounts
<1> QED BY <1>3, <1>4, <1>5 DEF Rechecked, Normal, SessionStep

\* Nobody is left who takes them back.
LEMMA CountInvIsExact == CountInv => SettledCountIsExact
<1> SUFFICES ASSUME CountInv, NEW f \in Folders,
                    counts[f] # None, ~Writing(f),
                    counts[f].seen < counts[f].began,
                    Current(counts[f], mtime[f])
             PROVE  counts[f].count = CountOf(f)
    BY DEF SettledCountIsExact, CacheIsExact
<1>1. \A s \in Sessions : ~TakesBack(s, f)
      BY DEF Writing, TakesBack, Rechecks
<1> QED BY <1>1 DEF CountInv, CacheOK

\* Whoever counts, moves, marks or purges at the same time: counts that are
\* taken for current, and were begun in a second in which the directory had
\* not changed yet, are what a scan would find, unless a request was killed
\* between writing counts and looking at the directory again (dodirscan).
THEOREM CountTheorem == RecheckedSpec => []SettledCountIsExact
<1>1. RecheckedSpec => []CountInv BY CountInit, CountNext, PTL DEF RecheckedSpec
<1> QED BY <1>1, CountInvIsExact, PTL
=============================================================================
