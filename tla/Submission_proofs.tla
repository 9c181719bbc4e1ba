------------------------- MODULE Submission_proofs -------------------------
(***************************************************************************)
(* Proofs about Submission: the types, that a page is sent once, that no   *)
(* stored draft is lost, that Sent tells what was sent, and that the       *)
(* account is kept.                                                        *)
(*                                                                         *)
(* That no page is sent twice does not follow from itself.  What the steps *)
(* preserve is that a page which has been sent is either the one that      *)
(* TOKENFILE names, or its request is still between sendit.sh and          *)
(* tokensave, and then it is the only request of that page that may go on. *)
(*                                                                         *)
(* That nothing is lost rests on the names: a number is used for a draft   *)
(* or a file by the request that has it and by no other, two names never   *)
(* share a file, and a request that is alone with its draft finds in tmp   *)
(* what it has written.                                                    *)
(*                                                                         *)
(* The account is the sum of the sizes after each step, since a request    *)
(* that rewrites a draft keeps the size it found, and no other changes it. *)
(* What a sum does when one term changes is proved of SumFunction: there   *)
(* is no least size of a set for which it would be wrong.                  *)
(***************************************************************************)
EXTENDS Submission, FiniteSetTheorems, TLAPS

-----------------------------------------------------------------------------
(* Type correctness.                                                       *)

\* A request under way has a number and is of a page.
ActiveOK ==
  \A p \in Requests :
    Active(p) => /\ req[p].op \in Ops
                 /\ req[p].n \in Numbers
                 /\ req[p].page \in 1..MaxPages

\* A request that rewrites a draft has its name and a file.
WritingOK ==
  \A p \in Requests :
    pc[p] \in {"write", "close"} => req[p].d \in Numbers /\ req[p].fd \in Numbers

TypeInv == TypeOK /\ ActiveOK /\ WritingOK

\* The values a request and a draft start from have their types.
LEMMA BlankTypes ==
  /\ Blank("none") \in Contents /\ Blank("empty") \in Contents
  /\ Blank("mixed") \in Contents
  /\ NoReq \in Records
<1>1. 0 \in Names /\ 0 \in 0..MaxPages
      BY SubmissionAssumption DEF Names
<1> QED BY <1>1 DEF Contents, NoReq, Records

\* A text of a page with its attachments.
LEMMA WholeType ==
  ASSUME NEW k \in 1..MaxPages, NEW a \in Nat
  PROVE  Whole(k, a) \in Contents
BY DEF Whole, Contents

\* A size is a number.
LEMMA BytesType ==
  ASSUME NEW c \in Contents
  PROVE  Bytes(c) \in Nat
<1>1. CASE c.state = "whole"
  <2>1. c \in [state : {"whole"}, text : 1..MaxPages, parts : Nat]
        BY <1>1 DEF Contents, Blank
  <2>2. c.text \in 1..MaxPages /\ c.parts \in Nat BY <2>1
  <2>3. Size[c.text] \in Nat BY <2>2, SubmissionAssumption
  <2> QED BY <1>1, <2>2, <2>3 DEF Bytes
<1>2. CASE c.state # "whole" BY <1>2 DEF Bytes
<1> QED BY <1>1, <1>2

\* Attachments are counted.
LEMMA PartsType ==
  ASSUME NEW c \in Contents
  PROVE  c.parts \in Nat
BY DEF Contents, Blank

\* A draft that exists is a file.
LEMMA FileType ==
  ASSUME TypeInv, NEW d \in Names, Exists(d)
  PROVE  d \in Numbers /\ cur[d] \in Numbers /\ File(d) \in Contents
BY SubmissionAssumption DEF TypeInv, TypeOK, Exists, File, Names, Numbers

\* The draft of a request has a name, if any.
LEMMA SubjectType ==
  ASSUME TypeInv, NEW p \in Requests, Active(p)
  PROVE  Subject(p) \in Names
BY DEF TypeInv, TypeOK, ActiveOK, Subject, Records

\* What a request writes.
LEMMA VersionType ==
  ASSUME TypeInv, NEW p \in Requests, Active(p)
  PROVE  Version(p) \in Contents
<1>1. req[p].page \in 1..MaxPages /\ req[p].base \in Contents
      BY DEF TypeInv, TypeOK, ActiveOK, Records
<1>2. req[p].base.parts \in Nat BY <1>1, PartsType
<1>3. req[p].base.state = "whole" => req[p].base.text \in 1..MaxPages
      BY <1>1 DEF Contents, Blank
<1>4. /\ Whole(req[p].page, req[p].base.parts) \in Contents
      /\ req[p].base.state = "whole" =>
           /\ Whole(req[p].base.text, req[p].base.parts + 1) \in Contents
           /\ Whole(req[p].base.text, 0) \in Contents
      BY <1>1, <1>2, <1>3, WholeType
<1> QED BY <1>4, BlankTypes DEF Version

LEMMA InitTypes == Init => TypeInv
BY BlankTypes, SubmissionAssumption
   DEF Init, TypeInv, TypeOK, ActiveOK, WritingOK, Active, Names, Numbers, Steps

LEMMA NewPageType == TypeInv /\ NewPage => TypeInv'
<1> SUFFICES ASSUME TypeInv, NewPage PROVE TypeInv' OBVIOUS
<1>1. issued' \in 0..MaxPages
      BY SubmissionAssumption DEF NewPage, TypeInv, TypeOK
<1>2. pages' \in [1..MaxPages -> Names] BY DEF NewPage, TypeInv, TypeOK
<1> QED BY <1>1, <1>2
        DEF NewPage, TypeInv, TypeOK, ActiveOK, WritingOK, Active, drafts, local,
            history

LEMMA StartType ==
  ASSUME TypeInv, NEW p \in Requests, NEW k \in 1..MaxPages, NEW o \in Ops,
         NEW fcc \in BOOLEAN, Start(p, k, o, fcc)
  PROVE  TypeInv'
<1>1. ops' \in Names /\ ops + 1 \in Numbers
      BY SubmissionAssumption DEF Start, TypeInv, TypeOK, Names, Numbers
<1> DEFINE r == [NoReq EXCEPT !.op = o, !.n = ops + 1, !.page = k, !.fcc = fcc]
<1>2. r \in Records
  <2>1. o \in Ops \cup {"none"} /\ k \in 0..MaxPages /\ ops + 1 \in Names
        BY <1>1 DEF Names, Numbers
  <2>2. NoReq \in Records BY BlankTypes
  <2> QED BY <2>1, <2>2 DEF Records
<1>3. r.op = o /\ r.n = ops + 1 /\ r.page = k BY DEF NoReq
<1>4. req' = [req EXCEPT ![p] = r] BY DEF Start
<1> HIDE DEF r
<1>5. pc' \in [Requests -> Steps] /\ pc'[p] \in {"open", "check"}
      /\ \A q \in Requests \ {p} : pc'[q] = pc[q]
      BY DEF Start, Goto, TypeInv, TypeOK, Steps
<1>6. req' \in [Requests -> Records] BY <1>2, <1>4 DEF TypeInv, TypeOK
<1>7. ActiveOK' BY <1>1, <1>3, <1>4, <1>5 DEF ActiveOK, Active, TypeInv, TypeOK
<1>8. WritingOK' /\ \A q \in Requests : pc'[q] \in {"write", "close"} => req'[q].fd # 0
      BY <1>4, <1>5 DEF WritingOK, TypeInv, TypeOK
<1>9. excused' \subseteq 1..MaxPages /\ calm' \in BOOLEAN
      BY DEF Start, TypeInv, TypeOK
<1> QED BY <1>1, <1>5, <1>6, <1>7, <1>8, <1>9 DEF Start, TypeInv, TypeOK, drafts

\* What is known of the processes.
LocalOK ==
  /\ pc \in [Requests -> Steps]
  /\ req \in [Requests -> Records]
  /\ \A p \in Requests : pc[p] \in {"write", "close"} => req[p].fd # 0
  /\ ActiveOK /\ WritingOK

\* A request that ends.
LEMMA FinishType ==
  ASSUME TypeInv, NEW p \in Requests, Finish(p)
  PROVE  LocalOK'
<1>1. /\ pc' = [pc EXCEPT ![p] = "idle"]
      /\ req' = [req EXCEPT ![p] = NoReq]
      BY DEF Finish, Goto
<1>2. pc' \in [Requests -> Steps] /\ req' \in [Requests -> Records]
      BY <1>1, BlankTypes DEF TypeInv, TypeOK, Steps
<1> QED BY <1>1, <1>2
        DEF LocalOK, TypeInv, TypeOK, ActiveOK, WritingOK, Active

\* A request that goes on, with what it has.
LEMMA GotoType ==
  ASSUME TypeInv, NEW p \in Requests, Active(p), NEW step \in Steps,
         step \in {"write", "close"} => pc[p] \in {"write", "close"},
         Goto(p, step), UNCHANGED req
  PROVE  LocalOK'
<1>1. pc' = [pc EXCEPT ![p] = step] BY DEF Goto
<1>2. pc' \in [Requests -> Steps] BY <1>1 DEF TypeInv, TypeOK
<1> QED BY <1>1, <1>2
        DEF LocalOK, TypeInv, TypeOK, ActiveOK, WritingOK, Active

LEMMA CheckType ==
  ASSUME TypeInv, NEW p \in Requests, Check(p)
  PROVE  TypeInv'
<1>1. LocalOK'
  <2>1. CASE Repeated(p) BY <2>1, FinishType DEF Check
  <2>2. CASE ~Repeated(p)
    <3>1. UNCHANGED req /\ Active(p) BY <2>2 DEF Check, Active
    <3>2. Goto(p, "copy") \/ Goto(p, "open") BY <2>2 DEF Check
    <3> QED BY <3>1, <3>2, GotoType DEF Steps
  <2> QED BY <2>1, <2>2
<1> QED BY <1>1 DEF Check, LocalOK, TypeInv, TypeOK, drafts, history

LEMMA OpenType ==
  ASSUME TypeInv, NEW p \in Requests, Open(p)
  PROVE  TypeInv'
<1> DEFINE k == req[p].page
           d == Draft(p)
           i == Scratch(p, d)
<1>1. Active(p) /\ req[p].n \in Numbers /\ k \in 1..MaxPages
      BY DEF Open, Active, TypeInv, ActiveOK
<1>2. pages[k] \in Names BY <1>1 DEF TypeInv, TypeOK
<1>3. d \in Numbers BY <1>1, <1>2, FileType DEF Draft
<1>4. i \in Numbers
      BY <1>1, <1>3, SubmissionAssumption DEF Scratch, TypeInv, TypeOK, Names, Numbers
<1>5. Found(p) \in Contents BY <1>2, FileType, BlankTypes DEF Found
<1>6. Bytes(Found(p)) \in Nat BY <1>5, BytesType
<1> DEFINE r == [req[p] EXCEPT !.d = d, !.fd = i, !.base = Found(p),
                               !.prev = Bytes(Found(p))]
<1>7. /\ tmp' = [tmp EXCEPT ![d] = i]
      /\ data' = [data EXCEPT ![i] = Blank("empty")]
      /\ req' = [req EXCEPT ![p] = r]
      /\ pc' = [pc EXCEPT ![p] = "write"]
      BY DEF Open, Goto
<1> HIDE DEF k, d, i
<1>8. r \in Records /\ r.d = d /\ r.fd = i /\ r.page = req[p].page
      /\ r.n = req[p].n /\ r.op = req[p].op
  <2>1. d \in Names /\ i \in Names /\ i # 0
        BY <1>3, <1>4 DEF Names, Numbers
  <2>2. req[p] \in Records BY DEF TypeInv, TypeOK
  <2> QED BY <1>5, <1>6, <2>1, <2>2 DEF Records
<1> HIDE DEF r
<1>9. LocalOK'
  <2>1. pc' \in [Requests -> Steps] /\ req' \in [Requests -> Records]
        BY <1>7, <1>8 DEF TypeInv, TypeOK, Steps
  <2>2. i # 0 BY <1>4 DEF Numbers
  <2> QED BY <1>1, <1>3, <1>4, <1>7, <1>8, <2>1, <2>2
          DEF LocalOK, TypeInv, TypeOK, ActiveOK, WritingOK, Active
<1>10. tmp' \in [Numbers -> Names] /\ data' \in [Numbers -> Contents]
  <2>1. i \in Names BY <1>4 DEF Names, Numbers
  <2> QED BY <1>3, <1>4, <1>7, <2>1, BlankTypes DEF TypeInv, TypeOK
<1> QED BY <1>9, <1>10 DEF Open, LocalOK, TypeInv, TypeOK, history

\* Steps at "open" that leave the draft alone.
LEMMA NotOpenedType ==
  ASSUME TypeInv, NEW p \in Requests, OpenFails(p) \/ NoChange(p)
  PROVE  TypeInv'
<1>1. LocalOK'
  <2>1. CASE OpenFails(p) BY <2>1, FinishType DEF OpenFails
  <2>2. CASE NoChange(p)
        BY <2>2, GotoType DEF NoChange, Active, Steps
  <2> QED BY <2>1, <2>2
<1> QED BY <1>1
        DEF OpenFails, NoChange, LocalOK, TypeInv, TypeOK, drafts, history

LEMMA WriteType ==
  ASSUME TypeInv, NEW p \in Requests, Write(p)
  PROVE  TypeInv'
<1>1. Active(p) /\ pc[p] = "write" BY DEF Write, Active
<1>2. LocalOK' BY <1>1, GotoType DEF Write, Steps
<1>3. data' \in [Numbers -> Contents]
      BY <1>1, VersionType, BlankTypes DEF Write, TypeInv, TypeOK, WritingOK
<1> QED BY <1>2, <1>3 DEF Write, LocalOK, TypeInv, TypeOK, history

\* The file in tmp is given up.
LEMMA DiscardType ==
  ASSUME TypeInv, NEW p \in Requests, WriteFails(p) \/ CloseRefused(p)
  PROVE  TypeInv'
<1>1. Active(p) BY DEF WriteFails, CloseRefused, Active
<1>2. LocalOK'
  <2>1. CASE WriteFails(p) BY <2>1, FinishType DEF WriteFails
  <2>2. CASE CloseRefused(p)
        BY <1>1, <2>2, FinishType, GotoType DEF CloseRefused, Steps
  <2> QED BY <2>1, <2>2
<1>3. tmp' \in [Numbers -> Names]
  <2>1. 0 \in Names BY SubmissionAssumption DEF Names
  <2> QED BY <2>1 DEF WriteFails, CloseRefused, TypeInv, TypeOK
<1> QED BY <1>2, <1>3
        DEF WriteFails, CloseRefused, LocalOK, TypeInv, TypeOK, history

LEMMA CloseType ==
  ASSUME TypeInv, NEW p \in Requests, Close(p)
  PROVE  TypeInv'
<1> DEFINE d == req[p].d
<1>1. Active(p) /\ d \in Numbers /\ req[p].fd \in Numbers
      BY DEF Close, Active, TypeInv, WritingOK
<1>2. LocalOK'
      BY <1>1, FinishType, GotoType DEF Close, AfterDraft, Steps
<1>3. /\ tmp' \in [Numbers -> Names] /\ cur' \in [Numbers -> Names]
      /\ stored' \in [Numbers -> Contents]
  <2>1. 0 \in Names BY SubmissionAssumption DEF Names
  <2> QED BY <1>1, <2>1, VersionType DEF Close, TypeInv, TypeOK
<1>4. account' \in Int
  <2>1. Bytes(data[req[p].fd]) \in Nat BY <1>1, BytesType DEF TypeInv, TypeOK
  <2>2. req[p].prev \in Nat BY DEF TypeInv, TypeOK, Records
  <2>3. Growth(p) \in Int BY <2>1, <2>2 DEF Growth
  <2> QED BY <2>3 DEF Close, TypeInv, TypeOK
<1> QED BY <1>2, <1>3, <1>4 DEF Close, LocalOK, TypeInv, TypeOK

LEMMA CopyType ==
  ASSUME TypeInv, NEW p \in Requests, Copy(p)
  PROVE  TypeInv'
<1>1. Active(p) /\ req[p].n \in Numbers
      BY DEF Copy, Active, TypeInv, ActiveOK
<1>2. File(Subject(p)) \in Contents
      BY <1>1, SubjectType, FileType DEF Copy
<1>3. LocalOK' BY <1>1, GotoType DEF Copy, Steps
<1>4. sent' \in [Numbers -> Contents] BY <1>1, <1>2 DEF Copy, TypeInv, TypeOK
<1>5. account' \in Int BY <1>2, BytesType DEF Copy, TypeInv, TypeOK
<1> QED BY <1>3, <1>4, <1>5 DEF Copy, LocalOK, TypeInv, TypeOK, drafts, history

LEMMA CopyRefusedType ==
  ASSUME TypeInv, NEW p \in Requests, CopyRefused(p)
  PROVE  TypeInv'
BY FinishType DEF CopyRefused, LocalOK, TypeInv, TypeOK, drafts, history

LEMMA ForkType ==
  ASSUME TypeInv, NEW p \in Requests, Fork(p)
  PROVE  TypeInv'
<1>1. LocalOK' BY GotoType DEF Fork, Active, Steps
<1> QED BY <1>1 DEF Fork, LocalOK, TypeInv, TypeOK, drafts, history

\* What sendit.sh is given.
LEMMA SendingType ==
  ASSUME TypeInv, NEW p \in Requests, Active(p)
  PROVE  Sending(p) \in Messages
<1>1. /\ req[p].op \in Ops /\ req[p].n \in Numbers
      /\ req[p].page \in 1..MaxPages /\ req[p].fcc \in BOOLEAN
      BY DEF TypeInv, TypeOK, ActiveOK, Records
<1>2. sent[req[p].n] \in Contents BY <1>1 DEF TypeInv, TypeOK
<1> QED BY <1>1, <1>2 DEF Sending, Messages

LEMMA DeliverType ==
  ASSUME TypeInv, NEW p \in Requests, Deliver(p)
  PROVE  TypeInv'
<1>1. Active(p) BY DEF Deliver, Active
<1>2. LocalOK' BY <1>1, GotoType DEF Deliver, Steps
<1>3. log' \subseteq Messages
      BY <1>1, SendingType DEF Deliver, TypeInv, TypeOK
<1> QED BY <1>2, <1>3 DEF Deliver, LocalOK, TypeInv, TypeOK, drafts, history

\* The copy in Sent goes.
LEMMA UnsendType ==
  ASSUME TypeInv, NEW p \in Requests, Purge(p) \/ Unfile(p)
  PROVE  TypeInv'
<1>1. Active(p) /\ Unsend(p) BY DEF Purge, Unfile, Active
<1>2. req[p].n \in Numbers BY <1>1 DEF TypeInv, ActiveOK
<1>3. Bytes(sent[req[p].n]) \in Nat BY <1>2, BytesType DEF TypeInv, TypeOK
<1>4. sent' \in [Numbers -> Contents] /\ account' \in Int
  <2>1. sent' \in [Numbers -> Contents]
        BY <1>1, BlankTypes DEF Unsend, TypeInv, TypeOK
  <2>2. account' = account - Bytes(sent[req[p].n]) BY <1>1 DEF Unsend
  <2>3. account \in Int BY DEF TypeInv, TypeOK
  <2> QED BY <1>3, <2>1, <2>2, <2>3
<1>5. LocalOK' BY FinishType DEF Purge, Unfile
<1> QED BY <1>4, <1>5
        DEF Purge, Unfile, LocalOK, TypeInv, TypeOK, drafts, history

LEMMA DropType ==
  ASSUME TypeInv, NEW p \in Requests, Drop(p)
  PROVE  TypeInv'
<1>1. Active(p) BY DEF Drop, Active
<1>2. LocalOK' BY <1>1, GotoType DEF Drop, Steps
<1>3. account' \in Int /\ cur' \in [Numbers -> Names]
  <2>1. CASE Exists(Subject(p))
    <3>1. Bytes(File(Subject(p))) \in Nat
          BY <1>1, <2>1, SubjectType, FileType, BytesType
    <3>2. 0 \in Names BY SubmissionAssumption DEF Names
    <3> QED BY <2>1, <3>1, <3>2 DEF Drop, TypeInv, TypeOK
  <2>2. CASE ~Exists(Subject(p)) BY <2>2 DEF Drop, TypeInv, TypeOK
  <2> QED BY <2>1, <2>2
<1> QED BY <1>2, <1>3 DEF Drop, LocalOK, TypeInv, TypeOK, history

LEMMA SaveTokenType ==
  ASSUME TypeInv, NEW p \in Requests, SaveToken(p)
  PROVE  TypeInv'
<1>1. Active(p) BY DEF SaveToken, Active
<1>2. LocalOK' BY <1>1, FinishType, GotoType DEF SaveToken, Steps
<1>3. savedtoken' \in 0..MaxPages BY DEF SaveToken, TypeInv, TypeOK, Records
<1>4. excused' \subseteq 1..MaxPages
      BY DEF SaveToken, TypeInv, TypeOK, Messages
<1> QED BY <1>2, <1>3, <1>4 DEF SaveToken, LocalOK, TypeInv, TypeOK, drafts

LEMMA CrashType ==
  ASSUME TypeInv, NEW p \in Requests, Crash(p)
  PROVE  TypeInv'
<1>1. Active(p) BY DEF Crash
<1>2. LocalOK' BY FinishType DEF Crash
<1>3. log' \subseteq Messages
      BY <1>1, SendingType DEF Crash, TypeInv, TypeOK
<1>4. excused' \subseteq 1..MaxPages
      BY <1>1 DEF Crash, TypeInv, TypeOK, ActiveOK
<1> QED BY <1>2, <1>3, <1>4 DEF Crash, LocalOK, TypeInv, TypeOK, drafts

LEMMA NextType == TypeInv /\ [Next]_vars => TypeInv'
<1> SUFFICES ASSUME TypeInv, [Next]_vars PROVE TypeInv' OBVIOUS
<1>1. CASE NewPage BY <1>1, NewPageType
<1>2. ASSUME NEW p \in Requests, NEW k \in 1..MaxPages, NEW o \in Ops,
             NEW fcc \in BOOLEAN, Start(p, k, o, fcc)
      PROVE  TypeInv'
      BY <1>2, StartType
<1>3. ASSUME NEW p \in Requests, Check(p) \/ Edit(p) \/ Send(p) \/ Crash(p)
      PROVE  TypeInv'
      BY <1>3, CheckType, OpenType, NotOpenedType, WriteType, DiscardType,
         CloseType, CopyType, CopyRefusedType, ForkType, DeliverType, UnsendType,
         DropType, SaveTokenType, CrashType
         DEF Edit, Send
<1>4. CASE UNCHANGED vars
      BY <1>4 DEF vars, drafts, local, history, TypeInv, TypeOK, ActiveOK,
                  WritingOK, Active
<1> QED BY <1>1, <1>2, <1>3, <1>4 DEF Next

\* Every reachable state is of its type, for any number of requests and pages.
\* (dosendmsg, doattach)
THEOREM SubmissionTypeCorrect == Spec => []TypeOK
<1>1. Init => TypeInv BY InitTypes
<1>2. TypeInv /\ [Next]_vars => TypeInv' BY NextType
<1>3. TypeInv => TypeOK BY DEF TypeInv
<1> QED BY <1>1, <1>2, <1>3, PTL DEF Spec

-----------------------------------------------------------------------------
(* A page is sent once.                                                    *)

\* Between sendit.sh and tokensave, and until the copy in Sent is dealt with.
Telling == {"drop", "token"}
Delivered(p) == pc[p] \in Telling \cup {"unfile"}

\* Requests of a page that overlap excuse it.
AloneOnPage ==
  \A p, q \in Requests :
    Active(p) /\ Active(q) /\ p # q /\ req[p].page = req[q].page =>
      req[p].page \in excused

\* A request to save ends with the draft.
SaveEnds ==
  \A p \in Requests :
    Active(p) /\ req[p].op = "save" => pc[p] \in {"open", "write", "close"}

\* A request of a page that has been sent has sent it itself, or will find the
\* token, or does not send.
OthersStop ==
  \A l \in log, q \in Requests :
    Active(q) /\ req[q].page = l.page /\ l.page \notin excused =>
      \/ pc[q] = "check" /\ savedtoken = l.page
      \/ req[q].op = "save"
      \/ Delivered(q)

\* The token of a page that has been sent is in TOKENFILE, or about to be.
TokenTells ==
  \A l \in log :
    l.page \notin excused =>
      \/ savedtoken = l.page
      \/ \E q \in Requests : req[q].page = l.page /\ pc[q] \in Telling

TokenInv == AloneOnPage /\ SaveEnds /\ OthersStop /\ TokenTells
            /\ RepeatIsRecognised

\* A request ends that is not about to write its token.
LEMMA FinishKeeps ==
  ASSUME TypeInv, TokenInv, NEW p \in Requests, Finish(p),
         pc[p] \notin Telling, UNCHANGED <<log, savedtoken, excused>>
  PROVE  TokenInv'
<1>1. /\ pc' = [pc EXCEPT ![p] = "idle"]
      /\ req' = [req EXCEPT ![p] = NoReq]
      BY DEF Finish, Goto
<1>2. /\ pc'[p] = "idle"
      /\ \A q \in Requests \ {p} : pc'[q] = pc[q] /\ req'[q] = req[q]
      BY <1>1 DEF TypeInv, TypeOK
<1>3. AloneOnPage' BY <1>2 DEF TokenInv, AloneOnPage, Active
<1>4. SaveEnds' BY <1>2 DEF TokenInv, SaveEnds, Active
<1>5. OthersStop' BY <1>2 DEF TokenInv, OthersStop, Active, Delivered
<1>6. TokenTells' BY <1>2 DEF TokenInv, TokenTells
<1>7. RepeatIsRecognised' BY DEF TokenInv, RepeatIsRecognised
<1> QED BY <1>3, <1>4, <1>5, <1>6, <1>7 DEF TokenInv

\* A request goes on that is not about to send, and stops at no token.
LEMMA GotoKeeps ==
  ASSUME TypeInv, TokenInv, NEW p \in Requests, Active(p),
         NEW step \in Steps \ {"idle"},
         pc' = [pc EXCEPT ![p] = step],
         \A q \in Requests : req'[q].page = req[q].page /\ req'[q].op = req[q].op,
         req[p].op = "save" => step \in {"open", "write", "close"},
         pc[p] = "check" => savedtoken # req[p].page,
         pc[p] \in Telling => step \in Telling,
         pc[p] # "unfile",
         UNCHANGED <<log, savedtoken, excused>>
  PROVE  TokenInv'
<1>2. /\ pc'[p] = step /\ step # "idle" /\ pc[p] # "idle"
      /\ \A q \in Requests \ {p} : pc'[q] = pc[q]
      BY DEF TypeInv, TypeOK, Active
<1>3. AloneOnPage' BY <1>2 DEF TokenInv, AloneOnPage, Active
<1>4. SaveEnds' BY <1>2 DEF TokenInv, SaveEnds, Active
<1>5. OthersStop'
  <2> SUFFICES ASSUME NEW l \in log, NEW q \in Requests, Active(q)',
                      req[q].page = l.page, l.page \notin excused
               PROVE  \/ pc'[q] = "check" /\ savedtoken = l.page
                      \/ req[q].op = "save"
                      \/ Delivered(q)'
      BY DEF OthersStop
  <2>1. Active(q) BY <1>2 DEF Active
  <2>2. \/ pc[q] = "check" /\ savedtoken = l.page
        \/ req[q].op = "save"
        \/ Delivered(q)
        BY <2>1 DEF TokenInv, OthersStop
  <2> QED BY <1>2, <2>2 DEF Delivered, Telling
<1>6. TokenTells' BY <1>2 DEF TokenInv, TokenTells
<1>7. RepeatIsRecognised' BY DEF TokenInv, RepeatIsRecognised
<1> QED BY <1>3, <1>4, <1>5, <1>6, <1>7 DEF TokenInv

LEMMA StartKeeps ==
  ASSUME TypeInv, TokenInv, NEW p \in Requests, NEW k \in 1..MaxPages,
         NEW o \in Ops, NEW fcc \in BOOLEAN, Start(p, k, o, fcc)
  PROVE  TokenInv'
<1>1. /\ pc[p] = "idle"
      /\ pc'[p] = IF o = "save" THEN "open" ELSE "check"
      /\ \A q \in Requests \ {p} : pc'[q] = pc[q] /\ req'[q] = req[q]
      /\ req'[p].page = k /\ req'[p].op = o
      BY DEF Start, Active, Goto, TypeInv, TypeOK, NoReq
<1>2. /\ UNCHANGED <<log, savedtoken>>
      /\ excused' = IF SamePage(k) THEN excused \cup {k} ELSE excused
      BY DEF Start
<1>3. \A q \in Requests \ {p} : Active(q)' /\ req'[q].page = k => k \in excused'
      BY <1>1, <1>2 DEF SamePage, Active
<1>4. AloneOnPage'
      BY <1>1, <1>2, <1>3 DEF TokenInv, AloneOnPage, Active
<1>5. SaveEnds' BY <1>1 DEF TokenInv, SaveEnds, Active
<1>6. TokenTells'
      BY <1>1, <1>2 DEF TokenInv, TokenTells, Telling
<1>7. OthersStop'
  <2> SUFFICES ASSUME NEW l \in log, NEW q \in Requests, Active(q)',
                      req'[q].page = l.page, l.page \notin excused'
               PROVE  \/ pc'[q] = "check" /\ savedtoken = l.page
                      \/ req'[q].op = "save"
                      \/ Delivered(q)'
      BY <1>2 DEF OthersStop
  <2>1. CASE q = p
    <3>1. \A r \in Requests : ~(Active(r) /\ req[r].page = k)
          BY <1>1, <1>2, <2>1 DEF SamePage
    <3>2. savedtoken = l.page
          BY <1>1, <1>2, <2>1, <3>1 DEF TokenInv, TokenTells, Telling, Active
    <3> QED BY <1>1, <2>1, <3>2
  <2>2. CASE q # p
        BY <1>1, <1>2, <2>2 DEF TokenInv, OthersStop, Active, Delivered
  <2> QED BY <2>1, <2>2
<1>8. RepeatIsRecognised'
      BY <1>2 DEF TokenInv, RepeatIsRecognised
<1> QED BY <1>4, <1>5, <1>6, <1>7, <1>8 DEF TokenInv

LEMMA CheckKeeps ==
  ASSUME TypeInv, TokenInv, NEW p \in Requests, Check(p)
  PROVE  TokenInv'
<1>1. pc[p] = "check" /\ Active(p) /\ UNCHANGED <<log, savedtoken, excused>>
      BY DEF Check, Active, history
<1>2. CASE Repeated(p) BY <1>1, <1>2, FinishKeeps DEF Check, Telling
<1>3. CASE ~Repeated(p)
  <2>1. req[p].op # "save" BY <1>1 DEF TokenInv, SaveEnds
  <2> DEFINE step == IF req[p].op = "post" THEN "copy" ELSE "open"
  <2>2. pc' = [pc EXCEPT ![p] = step] /\ UNCHANGED req /\ step \in Steps \ {"idle"}
        BY <1>3 DEF Check, Goto, Steps
  <2> HIDE DEF step
  <2> QED BY <1>1, <1>3, <2>1, <2>2, GotoKeeps DEF Repeated, Telling
<1> QED BY <1>2, <1>3

LEMMA EditKeeps ==
  ASSUME TypeInv, TokenInv, NEW p \in Requests, Edit(p)
  PROVE  TokenInv'
<1>1. /\ Active(p) /\ pc[p] \in {"open", "write", "close"}
      /\ UNCHANGED <<log, savedtoken, excused>>
      BY DEF Edit, Open, OpenFails, NoChange, Write, WriteFails, Close,
             CloseRefused, Active, history
<1>2. CASE Open(p)
  <2>1. pc' = [pc EXCEPT ![p] = "write"] BY <1>2 DEF Open, Goto
  <2>2. \A q \in Requests :
          req'[q].page = req[q].page /\ req'[q].op = req[q].op
        BY <1>2 DEF Open, TypeInv, TypeOK, Records
  <2> QED BY <1>1, <2>1, <2>2, GotoKeeps DEF Telling, Steps
<1>3. CASE OpenFails(p) \/ WriteFails(p)
      BY <1>1, <1>3, FinishKeeps DEF OpenFails, WriteFails, Telling
<1>4. CASE NoChange(p)
      BY <1>1, <1>4, GotoKeeps DEF NoChange, Goto, Telling, Steps
<1>5. CASE Write(p)
      BY <1>1, <1>5, GotoKeeps DEF Write, Goto, Telling, Steps
<1>6. CASE Close(p)
  <2>1. CASE req[p].op = "save"
        BY <1>1, <1>6, <2>1, FinishKeeps DEF Close, AfterDraft, Telling
  <2>2. CASE req[p].op # "save"
    <3> DEFINE step == IF req[p].op = "send" THEN "copy" ELSE "token"
    <3>1. pc' = [pc EXCEPT ![p] = step] /\ UNCHANGED req
          /\ step \in Steps \ {"idle"}
          BY <1>6, <2>2 DEF Close, AfterDraft, Goto, Steps
    <3> HIDE DEF step
    <3> QED BY <1>1, <2>2, <3>1, GotoKeeps DEF Telling
  <2> QED BY <2>1, <2>2
<1>7. CASE CloseRefused(p)
  <2>1. CASE req[p].op = "attach"
        BY <1>1, <1>7, <2>1, GotoKeeps DEF CloseRefused, Goto, Telling, Steps
  <2>2. CASE req[p].op # "attach"
        BY <1>1, <1>7, <2>2, FinishKeeps DEF CloseRefused, Telling
  <2> QED BY <2>1, <2>2
<1> QED BY <1>2, <1>3, <1>4, <1>5, <1>6, <1>7 DEF Edit

\* sendit.sh takes the message: nobody has sent the page before.
LEMMA DeliverKeeps ==
  ASSUME TypeInv, TokenInv, NEW p \in Requests, Deliver(p)
  PROVE  TokenInv'
<1> DEFINE k == req[p].page
<1>1. /\ Active(p) /\ pc[p] = "deliver" /\ req[p].op # "save"
      /\ UNCHANGED <<req, savedtoken, excused>>
      BY DEF Deliver, Active, TokenInv, SaveEnds, history
<1>2. CASE UNCHANGED log /\ Goto(p, "purge")
      BY <1>1, <1>2, GotoKeeps DEF Goto, Telling, Steps
<1>3. CASE log' = log \cup {Sending(p)} /\ Goto(p, "drop")
  <2>1. \A l \in log : l.page = k => k \in excused
        BY <1>1 DEF TokenInv, OthersStop, Delivered, Telling
  <2>2. Sending(p).page = k /\ Sending(p).n = req[p].n BY DEF Sending
  <2>3. /\ pc'[p] = "drop"
        /\ \A q \in Requests \ {p} : pc'[q] = pc[q]
        BY <1>3 DEF Goto, TypeInv, TypeOK
  <2> HIDE DEF k
  <2>4. AloneOnPage' BY <1>1, <2>3 DEF TokenInv, AloneOnPage, Active
  <2>5. SaveEnds' BY <1>1, <2>3 DEF TokenInv, SaveEnds, Active
  <2>6. OthersStop'
    <3> SUFFICES ASSUME NEW l \in log', NEW q \in Requests, Active(q)',
                        req[q].page = l.page, l.page \notin excused
                 PROVE  \/ pc'[q] = "check" /\ savedtoken = l.page
                        \/ req[q].op = "save"
                        \/ Delivered(q)'
        BY <1>1 DEF OthersStop
    <3>1. CASE q = p BY <2>3, <3>1 DEF Delivered, Telling
    <3>2. CASE q # p /\ l \in log
          BY <2>3, <3>2 DEF TokenInv, OthersStop, Active, Delivered
    <3>3. CASE q # p /\ l = Sending(p)
          BY <1>1, <2>2, <2>3, <3>3 DEF TokenInv, AloneOnPage, Active, k
    <3> QED BY <1>3, <3>1, <3>2, <3>3
  <2>7. TokenTells'
    <3> SUFFICES ASSUME NEW l \in log', l.page \notin excused
                 PROVE  \/ savedtoken = l.page
                        \/ \E q \in Requests :
                             req[q].page = l.page /\ pc'[q] \in Telling
        BY <1>1 DEF TokenTells
    <3>1. CASE l \in log
          BY <1>1, <2>3, <3>1 DEF TokenInv, TokenTells, Telling
    <3>2. CASE l = Sending(p) BY <2>2, <2>3, <3>2 DEF Telling, k
    <3> QED BY <1>3, <3>1, <3>2
  <2>8. RepeatIsRecognised'
        BY <1>1, <1>3, <2>1, <2>2 DEF TokenInv, RepeatIsRecognised
  <2> QED BY <2>4, <2>5, <2>6, <2>7, <2>8 DEF TokenInv
<1> QED BY <1>2, <1>3 DEF Deliver

\* tokensave: of the pages that have been sent only this one stays known.
LEMMA SaveTokenKeeps ==
  ASSUME TypeInv, TokenInv, NEW p \in Requests, SaveToken(p)
  PROVE  TokenInv'
<1> DEFINE k == req[p].page
<1>1. /\ pc[p] = "token" /\ savedtoken' = k /\ UNCHANGED log
      /\ excused' = excused \cup ({l.page : l \in log} \ {k})
      BY DEF SaveToken
<1>2. \A l \in log : l.page \notin excused' => l.page = k /\ k \notin excused
      BY <1>1
<1>3. /\ \A q \in Requests \ {p} : pc'[q] = pc[q] /\ req'[q] = req[q]
      /\ \/ pc'[p] = "idle"
         \/ pc'[p] = "unfile" /\ req'[p] = req[p]
      BY DEF SaveToken, Finish, Goto, TypeInv, TypeOK
<1>4. req[p].op # "save" BY <1>1 DEF TokenInv, SaveEnds, Active
<1> HIDE DEF k
<1>5. AloneOnPage'
      BY <1>1, <1>3 DEF TokenInv, AloneOnPage, Active
<1>6. SaveEnds' BY <1>3, <1>4 DEF TokenInv, SaveEnds, Active
<1>7. OthersStop'
      BY <1>1, <1>2, <1>3 DEF TokenInv, OthersStop, Active, Delivered
<1>8. TokenTells' BY <1>1, <1>2 DEF TokenTells
<1>9. RepeatIsRecognised' BY <1>1 DEF TokenInv, RepeatIsRecognised
<1> QED BY <1>5, <1>6, <1>7, <1>8, <1>9 DEF TokenInv

LEMMA SendKeeps ==
  ASSUME TypeInv, TokenInv, NEW p \in Requests, Send(p)
  PROVE  TokenInv'
<1>1. CASE Copy(p)
  <2>1. Active(p) /\ req[p].op # "save" BY <1>1 DEF Copy, Active, TokenInv, SaveEnds
  <2> QED BY <1>1, <2>1, GotoKeeps DEF Copy, Goto, Telling, Steps, history
<1>2. CASE CopyRefused(p) \/ Purge(p) \/ Unfile(p)
      BY <1>2, FinishKeeps DEF CopyRefused, Purge, Unfile, Telling, history
<1>3. CASE Fork(p)
  <2>1. Active(p) /\ req[p].op # "save" BY <1>3 DEF Fork, Active, TokenInv, SaveEnds
  <2> QED BY <1>3, <2>1, GotoKeeps DEF Fork, Goto, Telling, Steps, history
<1>4. CASE Deliver(p) BY <1>4, DeliverKeeps
<1>5. CASE Drop(p)
  <2>1. Active(p) /\ req[p].op # "save" BY <1>5 DEF Drop, Active, TokenInv, SaveEnds
  <2> QED BY <1>5, <2>1, GotoKeeps DEF Drop, Goto, Telling, Steps, history
<1>6. CASE SaveToken(p) BY <1>6, SaveTokenKeeps
<1> QED BY <1>1, <1>2, <1>3, <1>4, <1>5, <1>6 DEF Send

\* A request is killed; where that hides what it sent, its page is excused.
LEMMA CrashKeeps ==
  ASSUME TypeInv, TokenInv, NEW p \in Requests, Crash(p)
  PROVE  TokenInv'
<1> DEFINE k == req[p].page
<1>1. /\ pc'[p] = "idle"
      /\ \A q \in Requests \ {p} : pc'[q] = pc[q] /\ req'[q] = req[q]
      /\ UNCHANGED savedtoken
      BY DEF Crash, Finish, Goto, TypeInv, TypeOK
<1>2. /\ excused \subseteq excused'
      /\ pc[p] \in {"deliver", "drop", "token"} => k \in excused'
      BY DEF Crash
<1>3. \A l \in log' : l \in log \/ (l.page = k /\ k \in excused')
      BY DEF Crash, Sending
<1> HIDE DEF k
<1>4. AloneOnPage' BY <1>1, <1>2 DEF TokenInv, AloneOnPage, Active
<1>5. SaveEnds' BY <1>1 DEF TokenInv, SaveEnds, Active
<1>6. OthersStop'
      BY <1>1, <1>2, <1>3 DEF TokenInv, OthersStop, Active, Delivered
<1>7. TokenTells'
  <2> SUFFICES ASSUME NEW l \in log', l.page \notin excused'
               PROVE  \/ savedtoken = l.page
                      \/ \E q \in Requests :
                           req'[q].page = l.page /\ pc'[q] \in Telling
      BY <1>1 DEF TokenTells
  <2>1. l \in log /\ l.page \notin excused BY <1>2, <1>3
  <2>2. \/ savedtoken = l.page
        \/ \E q \in Requests : req[q].page = l.page /\ pc[q] \in Telling
        BY <2>1 DEF TokenInv, TokenTells
  <2> QED BY <1>1, <1>2, <2>2 DEF Telling, k
<1>8. RepeatIsRecognised'
      BY <1>2, <1>3 DEF TokenInv, RepeatIsRecognised
<1> QED BY <1>4, <1>5, <1>6, <1>7, <1>8 DEF TokenInv

\* A page whose requests do not overlap, are not killed on the way from
\* sendit.sh to TOKENFILE, and are not separated by the submission of another
\* page, is sent once, for any number of requests and pages. (tokencheck,
\* tokensave)
THEOREM RepeatTheorem == Spec => []RepeatIsRecognised
<1>1. Init => TokenInv
      BY DEF Init, TokenInv, AloneOnPage, SaveEnds, OthersStop, TokenTells,
             RepeatIsRecognised, Active
<1>2. TypeInv /\ TokenInv /\ [Next]_vars => TokenInv'
  <2> SUFFICES ASSUME TypeInv, TokenInv, [Next]_vars PROVE TokenInv' OBVIOUS
  <2>1. CASE NewPage
        BY <2>1 DEF NewPage, local, history, TokenInv, AloneOnPage, SaveEnds,
                    OthersStop, TokenTells, RepeatIsRecognised, Active, Delivered
  <2>2. ASSUME NEW p \in Requests, NEW k \in 1..MaxPages, NEW o \in Ops,
               NEW fcc \in BOOLEAN, Start(p, k, o, fcc)
        PROVE  TokenInv'
        BY <2>2, StartKeeps
  <2>3. ASSUME NEW p \in Requests, Check(p) \/ Edit(p) \/ Send(p) \/ Crash(p)
        PROVE  TokenInv'
        BY <2>3, CheckKeeps, EditKeeps, SendKeeps, CrashKeeps
  <2>4. CASE UNCHANGED vars
        BY <2>4 DEF vars, local, history, TokenInv, AloneOnPage, SaveEnds,
                    OthersStop, TokenTells, RepeatIsRecognised, Active, Delivered
  <2> QED BY <2>1, <2>2, <2>3, <2>4 DEF Next
<1>3. Init => TypeInv BY InitTypes
<1>4. TypeInv /\ [Next]_vars => TypeInv' BY NextType
<1>5. TokenInv => RepeatIsRecognised BY DEF TokenInv
<1> QED BY <1>1, <1>2, <1>3, <1>4, <1>5, PTL DEF Spec

-----------------------------------------------------------------------------
(* What the other theorems rest on.                                        *)

\* Requests under way have numbers and pages that were given out, each its own.
Numbered ==
  /\ \A p \in Requests : Active(p) => req[p].n <= ops /\ req[p].page <= issued
  /\ \A p, q \in Requests :
       Active(p) /\ Active(q) /\ req[p].n = req[q].n => p = q

\* A request that has not opened a file yet has no draft of its own, and one
\* that rewrites a draft is not there to post it.
Before(p) == pc[p] \in {"check", "open"}

OpsFit ==
  \A p \in Requests :
    /\ Before(p) => req[p].d = 0
    /\ pc[p] \in {"copy", "fork", "deliver", "purge", "drop", "unfile"}
         => req[p].op \in {"send", "post"}
    /\ pc[p] = "unfile" => ~req[p].fcc
    /\ pc[p] \in {"open", "write", "close"} => req[p].op # "post"
    /\ Active(p) /\ req[p].op = "save" => pc[p] \in {"open", "write", "close"}

\* A number that no name and no file has.
Unused(i) ==
  /\ tmp[i] = 0 /\ cur[i] = 0
  /\ \A d \in Numbers : tmp[d] # i /\ cur[d] # i
  /\ \A k \in 1..MaxPages : pages[k] # i
  /\ \A q \in Requests : req[q].d # i

FreshNumbers ==
  \A i \in Numbers :
    i > ops \/ (\E p \in Requests : Before(p) /\ req[p].n = i) => Unused(i)

FilesApart ==
  \A d, e \in Numbers :
    /\ tmp[d] # 0 => (tmp[d] = tmp[e] => d = e) /\ tmp[d] # cur[e]
    /\ cur[d] # 0 => (cur[d] = cur[e] => d = e)

FilesThere ==
  \A d \in Numbers :
    /\ tmp[d] # 0 => data[tmp[d]].state # "none"
    /\ cur[d] # 0 => data[cur[d]].state # "none"

BookInv == Numbered /\ OpsFit /\ FreshNumbers /\ FilesApart /\ FilesThere

\* Two requests under way are about different drafts.
OneRequestADraft ==
  \A p, q \in Requests :
    Active(p) /\ Active(q) /\ p # q => Subject(p) # Subject(q) \/ Subject(p) = 0

\* The bytes of a draft.
Weight(d) == IF cur[d] = 0 THEN 0 ELSE Bytes(File(d))

\* The file in tmp is the one the request has open, with what it has written;
\* the draft weighs what it did when the request found it.
Holds(p) ==
  pc[p] \in {"write", "close"} =>
    /\ tmp[req[p].d] = req[p].fd
    /\ data[req[p].fd] = IF pc[p] = "write" THEN Blank("empty") ELSE Version(p)
    /\ req[p].prev = Weight(req[p].d)

\* What was stored of a draft has been sent, or is there.
SentOff(d) == \E l \in log : l.msg = stored[d]

Kept(d) ==
  stored[d].state = "whole" => (cur[d] # 0 /\ File(d) = stored[d]) \/ SentOff(d)

\* The copy in Sent is what was stored of the draft, until sendit.sh has it.
CopyIsTheDraft(p) ==
  pc[p] \in {"fork", "deliver", "drop"} =>
    /\ Subject(p) # 0
    /\ stored[Subject(p)].state = "whole" =>
         \/ pc[p] # "drop" /\ sent[req[p].n] = stored[Subject(p)]
         \/ SentOff(Subject(p))

\* A request to send has stored the text of its page, and copied it.
TextIsThePage(p) ==
  req[p].op = "send" =>
    /\ pc[p] = "copy" /\ Exists(Subject(p)) => File(Subject(p)).text = req[p].page
    /\ pc[p] \in {"fork", "deliver"} => sent[req[p].n].text = req[p].page

LogIsThePage == \A l \in log : l.op = "send" => l.msg.text = l.page

DraftOK(p) == Holds(p) /\ CopyIsTheDraft(p) /\ TextIsThePage(p)

DraftInv ==
  calm => /\ OneRequestADraft
          /\ \A p \in Requests : DraftOK(p)
          /\ \A d \in Numbers : Kept(d)
          /\ LogIsThePage

\* Where a request is with its copy in Sent: made, taken by sendit.sh, neither.
Midway(p) == pc[p] \in {"fork", "deliver", "purge"}
Taken(p) == \/ pc[p] \in {"drop", "unfile"}
            \/ pc[p] = "token" /\ req[p].op \in {"send", "post"}
Early(p) == Active(p) /\ ~Midway(p) /\ ~Taken(p)

\* The copy in Sent and the log agree with where the request is.
CopyFits(p) ==
  LET n == req[p].n IN
  /\ Early(p) => sent[n].state = "none"
  /\ Midway(p) => sent[n].state # "none"
  /\ Early(p) \/ Midway(p) => \A l \in log : l.n # n
  /\ Taken(p) => /\ sent[n].state # "none"
                 /\ \E l \in log : l.n = n
                 /\ \A l \in log : l.n = n => l.fcc = req[p].fcc

\* What a request that has ended leaves.
Settled(i) ==
  (\A p \in Requests : Active(p) => req[p].n # i) =>
    (sent[i].state # "none" <=> \E l \in log : l.n = i /\ l.fcc)

LogNumbers == \A l \in log : l.n <= ops

CopiesKept == \A l \in log : l.fcc => sent[l.n] = l.msg

SentInv ==
  /\ LogNumbers
  /\ unharmed => /\ \A p \in Requests : CopyFits(p)
                 /\ \A i \in Numbers : Settled(i)
                 /\ CopiesKept

-----------------------------------------------------------------------------
(* Names, files and numbers.                                               *)

LEMMA InitBook == Init => BookInv
BY SubmissionAssumption
   DEF Init, BookInv, Numbered, OpsFit, FreshNumbers, FilesApart, FilesThere,
       Unused, Before, Active, NoReq, Numbers, Names

\* What a step of a request does to the requests, when it neither starts one
\* nor opens a file: this one ends, or goes on with what it has.
LocalStep(p) ==
  /\ Active(p)
  /\ \A q \in Requests \ {p} : pc'[q] = pc[q] /\ req'[q] = req[q]
  /\ \/ pc'[p] = "idle" /\ req'[p] = NoReq
     \/ pc'[p] # "idle" /\ req'[p] = req[p] /\ (Before(p)' => Before(p))

LEMMA FinishIsLocal ==
  ASSUME TypeInv, OpsFit, NEW p \in Requests, Active(p), Finish(p)
  PROVE  LocalStep(p) /\ OpsFit'
<1>1. /\ pc' = [pc EXCEPT ![p] = "idle"]
      /\ req' = [req EXCEPT ![p] = NoReq]
      BY DEF Finish, Goto
<1>2. /\ pc'[p] = "idle" /\ req'[p] = NoReq
      /\ \A q \in Requests \ {p} : pc'[q] = pc[q] /\ req'[q] = req[q]
      BY <1>1 DEF TypeInv, TypeOK
<1> QED BY <1>2 DEF LocalStep, OpsFit, Before, Active

LEMMA GotoIsLocal ==
  ASSUME TypeInv, OpsFit, NEW p \in Requests, Active(p),
         NEW step \in Steps \ {"idle"}, Goto(p, step), UNCHANGED req,
         step \in {"check", "open"} => Before(p),
         step \in {"copy", "fork", "deliver", "purge", "drop", "unfile"}
           => req[p].op \in {"send", "post"},
         step = "unfile" => ~req[p].fcc,
         step \in {"open", "write", "close"} => req[p].op # "post",
         req[p].op = "save" => step \in {"open", "write", "close"}
  PROVE  LocalStep(p) /\ OpsFit'
<1>1. /\ pc'[p] = step
      /\ \A q \in Requests \ {p} : pc'[q] = pc[q]
      BY DEF Goto, TypeInv, TypeOK
<1>2. LocalStep(p) BY <1>1 DEF LocalStep, Before
<1>3. OpsFit' BY <1>1 DEF OpsFit, Before, Active
<1> QED BY <1>2, <1>3

LEMMA CheckIsLocal ==
  ASSUME TypeInv, OpsFit, NEW p \in Requests, Check(p)
  PROVE  LocalStep(p) /\ OpsFit'
<1>1. Active(p) /\ Before(p) /\ req[p].op \in Ops /\ req[p].op # "save"
      BY DEF Check, Active, Before, OpsFit, TypeInv, ActiveOK
<1>2. CASE Repeated(p) BY <1>1, <1>2, FinishIsLocal DEF Check
<1>3. CASE ~Repeated(p) /\ req[p].op = "post"
      BY <1>1, <1>3, GotoIsLocal DEF Check, Steps
<1>4. CASE ~Repeated(p) /\ req[p].op # "post"
      BY <1>1, <1>4, GotoIsLocal DEF Check, Steps
<1> QED BY <1>2, <1>3, <1>4

LEMMA EditIsLocal ==
  ASSUME TypeInv, OpsFit, NEW p \in Requests, Edit(p), ~Open(p)
  PROVE  LocalStep(p) /\ OpsFit'
<1>1. /\ Active(p) /\ req[p].op \in Ops \ {"post"}
      /\ pc[p] \in {"open", "write", "close"}
      BY DEF Edit, OpenFails, NoChange, Write, WriteFails, Close, CloseRefused,
             Active, OpsFit, TypeInv, ActiveOK
<1>2. CASE OpenFails(p) \/ WriteFails(p)
      BY <1>1, <1>2, FinishIsLocal DEF OpenFails, WriteFails
<1>3. CASE NoChange(p) BY <1>1, <1>3, GotoIsLocal DEF NoChange, Steps
<1>4. CASE Write(p) BY <1>1, <1>4, GotoIsLocal DEF Write, Steps
<1>5. CASE Close(p)
  <2>1. CASE req[p].op = "save"
        BY <1>1, <1>5, <2>1, FinishIsLocal DEF Close, AfterDraft
  <2>2. CASE req[p].op = "send"
        BY <1>1, <1>5, <2>2, GotoIsLocal DEF Close, AfterDraft, Steps
  <2>3. CASE req[p].op \in {"attach", "detach"}
        BY <1>1, <1>5, <2>3, GotoIsLocal DEF Close, AfterDraft, Steps
  <2> QED BY <1>1, <2>1, <2>2, <2>3 DEF Ops
<1>6. CASE CloseRefused(p)
  <2>1. CASE req[p].op = "attach"
        BY <1>1, <1>6, <2>1, GotoIsLocal DEF CloseRefused, Steps
  <2>2. CASE req[p].op # "attach"
        BY <1>1, <1>6, <2>2, FinishIsLocal DEF CloseRefused
  <2> QED BY <2>1, <2>2
<1> QED BY <1>2, <1>3, <1>4, <1>5, <1>6 DEF Edit

LEMMA SendIsLocal ==
  ASSUME TypeInv, OpsFit, NEW p \in Requests, Send(p)
  PROVE  LocalStep(p) /\ OpsFit'
<1>1. Active(p) /\ req[p].op # "save"
      BY DEF Send, Copy, CopyRefused, Fork, Deliver, Purge, Drop, SaveToken, Unfile,
             Active, OpsFit
<1>2. CASE CopyRefused(p) \/ Purge(p) \/ Unfile(p)
      BY <1>1, <1>2, FinishIsLocal DEF CopyRefused, Purge, Unfile
<1>3. CASE Copy(p) BY <1>1, <1>3, GotoIsLocal DEF Copy, Steps, OpsFit
<1>4. CASE Fork(p) BY <1>1, <1>4, GotoIsLocal DEF Fork, Steps, OpsFit
<1>5. CASE Deliver(p) BY <1>1, <1>5, GotoIsLocal DEF Deliver, Steps, OpsFit
<1>6. CASE Drop(p) BY <1>1, <1>6, GotoIsLocal DEF Drop, Steps, OpsFit
<1>7. CASE SaveToken(p)
  <2>1. CASE Filed(p) BY <1>1, <1>7, <2>1, FinishIsLocal DEF SaveToken
  <2>2. CASE ~Filed(p)
    <3>1. req[p].op \in {"send", "post"} /\ ~req[p].fcc
          BY <1>1, <2>2 DEF Filed, TypeInv, ActiveOK, Ops
    <3> QED BY <1>1, <1>7, <2>2, <3>1, GotoIsLocal DEF SaveToken, Steps
  <2> QED BY <2>1, <2>2
<1> QED BY <1>2, <1>3, <1>4, <1>5, <1>6, <1>7 DEF Send

LEMMA CrashIsLocal ==
  ASSUME TypeInv, OpsFit, NEW p \in Requests, Crash(p)
  PROVE  LocalStep(p) /\ OpsFit'
BY FinishIsLocal DEF Crash

\* Nothing is done to the numbers by such a step, if it uses none for a file.
LEMMA LocalNumbers ==
  ASSUME TypeInv, BookInv, NEW p \in Requests, LocalStep(p),
         UNCHANGED <<pages, issued, ops>>,
         \A i \in Numbers : Unused(i) =>
           /\ tmp'[i] = 0 /\ cur'[i] = 0
           /\ \A d \in Numbers : tmp'[d] # i /\ cur'[d] # i
  PROVE  Numbered' /\ FreshNumbers'
<1>1. \A q \in Requests :
        /\ Active(q)' => Active(q) /\ req'[q] = req[q]
        /\ Before(q)' => Before(q)
        /\ req'[q].d \in {0, req[q].d}
      BY DEF LocalStep, Active, Before, NoReq
<1>2. \A q \in Requests : Before(q)' => Active(q)' BY DEF Before, Active
<1>3. Numbered' BY <1>1 DEF BookInv, Numbered
<1>4. FreshNumbers'
  <2> SUFFICES ASSUME NEW i \in Numbers,
                      i > ops \/ \E q \in Requests : Before(q)' /\ req'[q].n = i
               PROVE  Unused(i)'
      BY DEF FreshNumbers
  <2>1. Unused(i) BY <1>1, <1>2 DEF BookInv, FreshNumbers
  <2>2. i # 0 BY DEF Numbers
  <2> QED BY <1>1, <2>1, <2>2 DEF Unused
<1> QED BY <1>3, <1>4

\* A step that leaves the files alone.
LEMMA LocalBook ==
  ASSUME TypeInv, BookInv, NEW p \in Requests, LocalStep(p), OpsFit',
         UNCHANGED <<pages, issued, ops, drafts>>
  PROVE  BookInv'
<1>1. UNCHANGED <<tmp, cur, data>> BY DEF drafts
<1>2. Numbered' /\ FreshNumbers' BY <1>1, LocalNumbers DEF Unused
<1>3. FilesApart' BY <1>1 DEF BookInv, FilesApart
<1>4. FilesThere' BY <1>1 DEF BookInv, FilesThere
<1> QED BY <1>2, <1>3, <1>4 DEF BookInv

LEMMA NewPageBook ==
  ASSUME TypeInv, BookInv, NewPage
  PROVE  BookInv'
<1>1. /\ UNCHANGED <<ops, tmp, cur, data, pc, req>>
      /\ issued' = issued + 1 /\ issued \in Nat
      BY DEF NewPage, drafts, local, TypeInv, TypeOK
<1>2. \A k \in 1..MaxPages : pages'[k] = pages[k] \/ pages'[k] = 0
                             \/ cur[pages'[k]] # 0
      BY DEF NewPage, TypeInv, TypeOK, Exists
<1>3. Numbered'
      BY <1>1 DEF BookInv, Numbered, Active, TypeInv, TypeOK, Records
<1>4. FreshNumbers'
  <2> SUFFICES ASSUME NEW i \in Numbers, Unused(i) PROVE Unused(i)'
      BY <1>1 DEF BookInv, FreshNumbers, Before
  <2> QED BY <1>1, <1>2 DEF Unused, Numbers
<1> QED BY <1>1, <1>3, <1>4
        DEF BookInv, OpsFit, Before, Active, FilesApart, FilesThere

LEMMA StartBook ==
  ASSUME TypeInv, BookInv, NEW p \in Requests, NEW k \in 1..MaxPages, NEW o \in Ops,
         NEW fcc \in BOOLEAN, Start(p, k, o, fcc)
  PROVE  BookInv'
<1>1. /\ UNCHANGED <<pages, issued, tmp, cur, data>>
      /\ ops' = ops + 1 /\ ops \in Nat /\ k <= issued
      BY DEF Start, drafts, TypeInv, TypeOK, Names
<1>2. /\ pc[p] = "idle"
      /\ pc'[p] = IF o = "save" THEN "open" ELSE "check"
      /\ req'[p].n = ops + 1 /\ req'[p].page = k /\ req'[p].op = o
      /\ req'[p].d = 0 /\ req'[p].fcc = fcc
      /\ \A q \in Requests \ {p} : pc'[q] = pc[q] /\ req'[q] = req[q]
      BY DEF Start, Active, Goto, TypeInv, TypeOK, NoReq
<1>3. \A q \in Requests : Active(q) => req[q].n \in Nat /\ req[q].n <= ops
      BY DEF BookInv, Numbered, TypeInv, ActiveOK, Numbers
<1>4. Numbered'
      BY <1>1, <1>2, <1>3 DEF BookInv, Numbered, Active
<1>5. OpsFit' BY <1>2 DEF BookInv, OpsFit, Before, Active
<1>6. FreshNumbers'
  <2> SUFFICES ASSUME NEW i \in Numbers,
                      i > ops' \/ \E q \in Requests : Before(q)' /\ req'[q].n = i
               PROVE  Unused(i)'
      BY DEF FreshNumbers
  <2>1. i > ops \/ \E q \in Requests : Before(q) /\ req[q].n = i
    <3>1. CASE i > ops' BY <1>1, <3>1 DEF Numbers
    <3>2. ASSUME NEW q \in Requests, Before(q)', req'[q].n = i
          PROVE  i > ops \/ \E s \in Requests : Before(s) /\ req[s].n = i
          BY <1>1, <1>2, <3>2 DEF Before
    <3> QED BY <3>1, <3>2
  <2>2. Unused(i) BY <2>1 DEF BookInv, FreshNumbers
  <2> QED BY <1>1, <1>2, <2>2 DEF Unused, Numbers
<1> QED BY <1>1, <1>4, <1>5, <1>6 DEF BookInv, FilesApart, FilesThere

\* The draft and the file that a request opens.
LEMMA OpenedDraft ==
  ASSUME TypeInv, BookInv, NEW p \in Requests, Open(p)
  PROVE  /\ Draft(p) \in Numbers /\ Scratch(p, Draft(p)) \in Numbers
         /\ req[p].n \in Numbers /\ req[p].page \in 1..MaxPages
         /\ Active(p) /\ Before(p) /\ Unused(req[p].n)
         /\ \/ Draft(p) = pages[req[p].page] /\ cur[Draft(p)] # 0
            \/ Draft(p) = req[p].n
         /\ \/ Scratch(p, Draft(p)) = req[p].n
            \/ tmp[Draft(p)] # 0 /\ Scratch(p, Draft(p)) = tmp[Draft(p)]
<1>1. /\ Active(p) /\ Before(p) /\ req[p].n \in Numbers
      /\ req[p].page \in 1..MaxPages
      BY DEF Open, Active, Before, TypeInv, ActiveOK
<1>2. pages[req[p].page] \in Names BY <1>1 DEF TypeInv, TypeOK
<1>3. Draft(p) \in Numbers BY <1>1, <1>2, FileType DEF Draft
<1>4. Unused(req[p].n) BY <1>1 DEF BookInv, FreshNumbers
<1>5. Scratch(p, Draft(p)) \in Numbers
      BY <1>1, <1>3, SubmissionAssumption
         DEF Scratch, TypeInv, TypeOK, Names, Numbers
<1>6. \/ Draft(p) = pages[req[p].page] /\ cur[Draft(p)] # 0
      \/ Draft(p) = req[p].n
      BY DEF Draft, Exists
<1> QED BY <1>1, <1>3, <1>4, <1>5, <1>6 DEF Scratch

LEMMA OpenEffect ==
  ASSUME TypeInv, BookInv, NEW p \in Requests, Open(p)
  PROVE  LET d == Draft(p)
             i == Scratch(p, d)
         IN  /\ UNCHANGED <<pages, issued, ops, cur, sent, stored, log, calm, unharmed>>
             /\ tmp'[d] = i
             /\ \A e \in Numbers \ {d} : tmp'[e] = tmp[e]
             /\ data'[i] = Blank("empty")
             /\ \A e \in Numbers \ {i} : data'[e] = data[e]
             /\ \A q \in Requests \ {p} : pc'[q] = pc[q] /\ req'[q] = req[q]
             /\ pc'[p] = "write"
             /\ req'[p] = [req[p] EXCEPT !.d = d, !.fd = i, !.base = Found(p),
                                         !.prev = Bytes(Found(p))]
             /\ req'[p].d = d /\ req'[p].fd = i
             /\ req'[p].prev = Bytes(Found(p))
             /\ req'[p].n = req[p].n /\ req'[p].page = req[p].page
             /\ req'[p].op = req[p].op /\ req'[p].fcc = req[p].fcc
<1> DEFINE d == Draft(p)
           i == Scratch(p, d)
           r == [req[p] EXCEPT !.d = d, !.fd = i, !.base = Found(p),
                               !.prev = Bytes(Found(p))]
<1>1. /\ tmp' = [tmp EXCEPT ![d] = i]
      /\ data' = [data EXCEPT ![i] = Blank("empty")]
      /\ req' = [req EXCEPT ![p] = r]
      /\ pc' = [pc EXCEPT ![p] = "write"]
      /\ UNCHANGED <<pages, issued, ops, cur, sent, stored, log, calm, unharmed>>
      BY DEF Open, Goto, history
<1>2. d \in Numbers /\ i \in Numbers BY OpenedDraft
<1>3. /\ r.d = d /\ r.fd = i /\ r.n = req[p].n /\ r.page = req[p].page
      /\ r.op = req[p].op /\ r.fcc = req[p].fcc /\ r.prev = Bytes(Found(p))
      BY DEF TypeInv, TypeOK, Records
<1> HIDE DEF d, i, r
<1>4. /\ tmp'[d] = i
      /\ \A e \in Numbers \ {d} : tmp'[e] = tmp[e]
      /\ data'[i] = Blank("empty")
      /\ \A e \in Numbers \ {i} : data'[e] = data[e]
      /\ \A q \in Requests \ {p} : pc'[q] = pc[q] /\ req'[q] = req[q]
      /\ pc'[p] = "write" /\ req'[p] = r
      BY <1>1, <1>2 DEF TypeInv, TypeOK
<1> QED BY <1>1, <1>3, <1>4 DEF d, i, r

LEMMA OpenBook ==
  ASSUME TypeInv, BookInv, NEW p \in Requests, Open(p)
  PROVE  BookInv'
<1> DEFINE d == Draft(p)
           i == Scratch(p, d)
           n == req[p].n
<1>1. /\ d \in Numbers /\ i \in Numbers /\ n \in Numbers
      /\ Active(p) /\ Before(p) /\ Unused(n)
      /\ d = n \/ cur[d] # 0
      /\ i = n \/ (tmp[d] # 0 /\ i = tmp[d])
      BY OpenedDraft
<1>2. /\ UNCHANGED <<pages, issued, ops, cur>>
      /\ tmp'[d] = i
      /\ \A e \in Numbers \ {d} : tmp'[e] = tmp[e]
      /\ data'[i] = Blank("empty")
      /\ \A e \in Numbers \ {i} : data'[e] = data[e]
      /\ \A q \in Requests \ {p} : pc'[q] = pc[q] /\ req'[q] = req[q]
      /\ pc'[p] = "write" /\ req'[p].d = d
      /\ req'[p].n = n /\ req'[p].page = req[p].page
      /\ req'[p].op = req[p].op /\ req'[p].fcc = req[p].fcc
      BY OpenEffect
<1>3. pc[p] = "open" BY DEF Open
<1> HIDE DEF d, i, n
<1>4. Numbered' BY <1>1, <1>2, <1>3 DEF BookInv, Numbered, Active, n
<1>5. OpsFit' BY <1>2, <1>3 DEF BookInv, OpsFit, Before, Active
<1>6. FreshNumbers'
  <2> SUFFICES ASSUME NEW j \in Numbers,
                      j > ops \/ \E q \in Requests : Before(q)' /\ req'[q].n = j
               PROVE  Unused(j)'
      BY <1>2 DEF FreshNumbers
  <2>1. j > ops \/ \E q \in Requests \ {p} : Before(q) /\ req[q].n = j
        BY <1>2 DEF Before
  <2>2. Unused(j) BY <2>1 DEF BookInv, FreshNumbers
  <2>3. j # n
    <3>1. n \in Nat /\ n <= ops /\ ops \in Nat
          BY <1>1 DEF BookInv, Numbered, n, Numbers, TypeInv, TypeOK, Names
    <3>2. \A q \in Requests \ {p} : Before(q) => req[q].n # n
          BY <1>1 DEF BookInv, Numbered, n, Before, Active
    <3> QED BY <2>1, <3>1, <3>2 DEF Numbers
  <2>4. j # d /\ j # i BY <1>1, <2>2, <2>3 DEF Unused
  <2>5. tmp'[j] = 0 /\ \A e \in Numbers : tmp'[e] # j
        BY <1>2, <2>2, <2>4 DEF Unused
  <2> QED BY <1>2, <2>2, <2>4, <2>5 DEF Unused
<1>7. FilesApart'
  <2>1. \A e \in Numbers : cur[e] # i /\ (e # d => tmp[e] # i)
        BY <1>1 DEF BookInv, FilesApart, Unused
  <2> QED BY <1>1, <1>2, <2>1 DEF BookInv, FilesApart, Numbers
<1>8. FilesThere'
  <2> SUFFICES ASSUME NEW e \in Numbers
               PROVE  /\ tmp'[e] # 0 => data'[tmp'[e]].state # "none"
                      /\ cur[e] # 0 => data'[cur[e]].state # "none"
      BY <1>2 DEF FilesThere
  <2>1. \A f \in Numbers : data[f].state # "none" => data'[f].state # "none"
        BY <1>2 DEF Blank
  <2>2. cur[e] \in Names /\ tmp[e] \in Names BY DEF TypeInv, TypeOK
  <2> QED BY <1>1, <1>2, <2>1, <2>2 DEF BookInv, FilesThere, Names, Numbers, Blank
<1> QED BY <1>4, <1>5, <1>6, <1>7, <1>8 DEF BookInv

LEMMA EditBook ==
  ASSUME TypeInv, BookInv, NEW p \in Requests, Edit(p)
  PROVE  BookInv'
<1>1. CASE Open(p) BY <1>1, OpenBook
<1>2. CASE ~Open(p)
  <2>1. LocalStep(p) /\ OpsFit' BY <1>2, EditIsLocal DEF BookInv
  <2>2. UNCHANGED <<pages, issued, ops>>
        BY <1>2 DEF Edit, OpenFails, NoChange, Write, WriteFails, Close, CloseRefused
  <2>3. CASE OpenFails(p) \/ NoChange(p)
        BY <2>1, <2>2, <2>3, LocalBook DEF OpenFails, NoChange
  <2>4. CASE Write(p)
    <3>1. /\ UNCHANGED <<tmp, cur>> /\ Active(p)
          /\ \A j \in Numbers : data[j].state # "none" => data'[j].state # "none"
      <4>1. Version(p).state # "none" BY DEF Version, Whole, Blank
      <4>2. data' = [data EXCEPT ![req[p].fd] =
              IF @.state = "empty" \/ @ = Version(p) THEN Version(p) ELSE Blank("mixed")]
            BY <2>4 DEF Write
      <4>3. \A j \in Numbers :
              data'[j] \in {data[j], Version(p), Blank("mixed")}
            BY <4>2 DEF TypeInv, TypeOK
      <4> QED BY <2>4, <4>1, <4>3 DEF Write, Active, Blank
    <3>2. Numbered' /\ FreshNumbers'
          BY <2>1, <2>2, <3>1, LocalNumbers DEF Unused
    <3>3. FilesApart' BY <3>1 DEF BookInv, FilesApart
    <3>4. FilesThere'
      <4>1. \A e \in Numbers : /\ tmp[e] # 0 => tmp[e] \in Numbers
                               /\ cur[e] # 0 => cur[e] \in Numbers
            BY DEF TypeInv, TypeOK, Names, Numbers
      <4> QED BY <3>1, <4>1 DEF BookInv, FilesThere
    <3> QED BY <2>1, <3>2, <3>3, <3>4 DEF BookInv
  <2>5. CASE WriteFails(p) \/ CloseRefused(p)
    <3>1. UNCHANGED <<cur, data>> /\ tmp' = [tmp EXCEPT ![req[p].d] = 0]
          BY <2>5 DEF WriteFails, CloseRefused
    <3>2. \A e \in Numbers : tmp'[e] \in {0, tmp[e]}
          BY <3>1 DEF TypeInv, TypeOK
    <3>3. Numbered' /\ FreshNumbers'
          BY <2>1, <2>2, <3>1, <3>2, LocalNumbers DEF Unused, Numbers
    <3>4. FilesApart' BY <3>1, <3>2 DEF BookInv, FilesApart
    <3>5. FilesThere' BY <3>1, <3>2 DEF BookInv, FilesThere
    <3> QED BY <2>1, <3>3, <3>4, <3>5 DEF BookInv
  <2>6. CASE Close(p)
    <3> DEFINE d == req[p].d
    <3>1. /\ UNCHANGED data /\ d \in Numbers
          /\ tmp' = [tmp EXCEPT ![d] = 0]
          /\ cur' = IF tmp[d] # 0 THEN [cur EXCEPT ![d] = tmp[d]] ELSE cur
          BY <2>6 DEF Close, TypeInv, WritingOK
    <3>2. /\ \A e \in Numbers \ {d} : tmp'[e] = tmp[e] /\ cur'[e] = cur[e]
          /\ tmp'[d] = 0
          /\ cur'[d] = IF tmp[d] # 0 THEN tmp[d] ELSE cur[d]
          BY <3>1 DEF TypeInv, TypeOK
    <3> HIDE DEF d
    <3>3. \A i \in Numbers : Unused(i) =>
            /\ tmp'[i] = 0 /\ cur'[i] = 0
            /\ \A e \in Numbers : tmp'[e] # i /\ cur'[e] # i
      <4> SUFFICES ASSUME NEW i \in Numbers, Unused(i)
                   PROVE  /\ tmp'[i] = 0 /\ cur'[i] = 0
                          /\ \A e \in Numbers : tmp'[e] # i /\ cur'[e] # i
          OBVIOUS
      <4>1. i # d /\ i # 0 BY DEF Unused, d, Numbers
      <4> QED BY <3>2, <4>1 DEF Unused
    <3>4. Numbered' /\ FreshNumbers' BY <2>1, <2>2, <3>3, LocalNumbers
    <3>5. FilesApart' BY <3>1, <3>2 DEF BookInv, FilesApart
    <3>6. FilesThere' BY <3>1, <3>2 DEF BookInv, FilesThere
    <3> QED BY <2>1, <3>4, <3>5, <3>6 DEF BookInv
  <2> QED BY <1>2, <2>3, <2>4, <2>5, <2>6 DEF Edit
<1> QED BY <1>1, <1>2

LEMMA SendBook ==
  ASSUME TypeInv, BookInv, NEW p \in Requests, Send(p)
  PROVE  BookInv'
<1>1. LocalStep(p) /\ OpsFit' BY SendIsLocal DEF BookInv
<1>2. UNCHANGED <<pages, issued, ops>>
      BY DEF Send, Copy, CopyRefused, Fork, Deliver, Purge, Drop, SaveToken, Unfile
<1>3. CASE UNCHANGED drafts BY <1>1, <1>2, <1>3, LocalBook
<1>4. CASE Drop(p)
  <2>1. /\ UNCHANGED <<tmp, data>>
        /\ \A e \in Numbers : cur'[e] \in {0, cur[e]}
        BY <1>4 DEF Drop, TypeInv, TypeOK
  <2>2. Numbered' /\ FreshNumbers'
        BY <1>1, <1>2, <2>1, LocalNumbers DEF Unused, Numbers
  <2>3. FilesApart' BY <2>1 DEF BookInv, FilesApart
  <2>4. FilesThere' BY <2>1 DEF BookInv, FilesThere
  <2> QED BY <1>1, <2>2, <2>3, <2>4 DEF BookInv
<1> QED BY <1>3, <1>4
        DEF Send, Copy, CopyRefused, Fork, Deliver, Purge, SaveToken, Unfile

-----------------------------------------------------------------------------
(* The drafts.                                                             *)

LEMMA InitDraft == Init => DraftInv
BY SubmissionAssumption
   DEF Init, DraftInv, OneRequestADraft, DraftOK, Holds, CopyIsTheDraft,
       TextIsThePage, Kept, LogIsThePage, Active, NoReq, Numbers, Names, Blank

\* A step of p that touches at most the draft D, the file i and the copy of p
\* leaves the other requests and the other drafts as they are.
Touches(p, D, i) ==
  /\ UNCHANGED pages
  /\ \A q \in Requests \ {p} : pc'[q] = pc[q] /\ req'[q] = req[q]
  /\ \A e \in Numbers \ {D} :
       tmp'[e] = tmp[e] /\ cur'[e] = cur[e] /\ stored'[e] = stored[e]
  /\ \A j \in Numbers \ {i} : data'[j] = data[j]
  /\ \A j \in Numbers \ {req[p].n} : sent'[j] = sent[j]
  /\ log \subseteq log'

LEMMA OthersKeep ==
  ASSUME TypeInv, BookInv, DraftInv, calm, NEW p \in Requests, Active(p),
         NEW D \in Names, NEW i \in Names, Touches(p, D, i),
         \A e \in Numbers \ {D} : i # 0 => tmp[e] # i /\ cur[e] # i,
         \A q \in Requests \ {p} : Active(q) => Subject(q) # D \/ D = 0
  PROVE  /\ \A q \in Requests \ {p} : Subject(q)' = Subject(q) /\ DraftOK(q)'
         /\ \A e \in Numbers \ {D} : Kept(e)'
<1>1. \A q \in Requests \ {p} : Subject(q)' = Subject(q) /\ Version(q)' = Version(q)
      BY DEF Touches, Subject, Version
<1>2. \A e \in Numbers \ {D} : /\ cur'[e] = cur[e]
                               /\ cur[e] # 0 => File(e)' = File(e)
      BY DEF Touches, File, TypeInv, TypeOK, Names, Numbers
<1>3. \A e \in Numbers \ {D} : SentOff(e) => SentOff(e)'
      BY DEF Touches, SentOff
<1>4. \A e \in Numbers \ {D} : Kept(e)'
      BY <1>2, <1>3 DEF Touches, DraftInv, Kept
<1>5. ASSUME NEW q \in Requests \ {p}
      PROVE  DraftOK(q)'
  <2>1. /\ DraftOK(q) /\ pc'[q] = pc[q] /\ req'[q] = req[q]
        BY DEF DraftInv, Touches
  <2>2. CASE ~Active(q)
        BY <2>1, <2>2, BlankTypes
           DEF Active, DraftOK, Holds, CopyIsTheDraft, TextIsThePage
  <2>3. CASE Active(q)
    <3>1. /\ Subject(q) \in Names /\ (Subject(q) # D \/ D = 0)
          /\ req[q].n \in Numbers /\ sent'[req[q].n] = sent[req[q].n]
          BY <2>3, SubjectType DEF Touches, TypeInv, ActiveOK, BookInv, Numbered
    <3>2. Subject(q) # 0 => /\ Subject(q) \in Numbers \ {D}
          BY <3>1 DEF Names, Numbers
    <3>3. Holds(q)'
      <4> SUFFICES ASSUME pc[q] \in {"write", "close"}
                   PROVE  /\ tmp'[req[q].d] = req[q].fd
                          /\ data'[req[q].fd] =
                               IF pc[q] = "write" THEN Blank("empty") ELSE Version(q)
                          /\ Weight(req[q].d)' = req[q].prev
          BY <1>1, <2>1 DEF Holds
      <4>1. req[q].d \in Numbers /\ req[q].fd \in Numbers
            BY DEF TypeInv, WritingOK
      <4>2. req[q].d = Subject(q) /\ req[q].d # D
            BY <3>1, <4>1 DEF Subject, Numbers
      <4>3. tmp[req[q].d] = req[q].fd BY <2>1 DEF DraftOK, Holds
      <4>4. req[q].fd # i BY <4>1, <4>2, <4>3 DEF Numbers
      <4>5. Weight(req[q].d)' = Weight(req[q].d)
        <5>1. req'[q].d = req[q].d BY <2>1
        <5> QED BY <1>2, <4>1, <4>2, <5>1 DEF Weight, Bytes
      <4> QED BY <2>1, <4>1, <4>2, <4>3, <4>4, <4>5 DEF DraftOK, Holds, Touches
    <3>4. CopyIsTheDraft(q)'
          BY <1>1, <1>3, <2>1, <3>1, <3>2 DEF DraftOK, CopyIsTheDraft, Touches
    <3>5. TextIsThePage(q)'
          BY <1>1, <1>2, <2>1, <3>1, <3>2 DEF DraftOK, TextIsThePage, Exists
    <3> QED BY <3>3, <3>4, <3>5 DEF DraftOK
  <2> QED BY <2>2, <2>3
<1> QED BY <1>1, <1>4, <1>5

\* A request that keeps its draft stays the only one.
LEMMA SubjectsKeep ==
  ASSUME DraftInv, calm, NEW p \in Requests, LocalStep(p), UNCHANGED pages
  PROVE  /\ Active(p)' => Subject(p)' = Subject(p)
         /\ OneRequestADraft'
<1>1. Active(p)' => Subject(p)' = Subject(p)
      BY DEF LocalStep, Subject, Active
<1>2. \A q \in Requests : Active(q)' => Active(q) /\ Subject(q)' = Subject(q)
      BY <1>1 DEF LocalStep, Subject, Active
<1> QED BY <1>1, <1>2 DEF DraftInv, OneRequestADraft

\* A step that neither writes, stores nor removes a draft.
LEMMA LocalDraft ==
  ASSUME TypeInv, BookInv, DraftInv, NEW p \in Requests, LocalStep(p),
         UNCHANGED <<pages, drafts, stored, calm>>, log \subseteq log',
         \A j \in Numbers \ {req[p].n} : sent'[j] = sent[j],
         calm => DraftOK(p)' /\ LogIsThePage'
  PROVE  DraftInv'
<1> SUFFICES ASSUME calm
             PROVE  /\ OneRequestADraft'
                    /\ \A q \in Requests : DraftOK(q)'
                    /\ \A d \in Numbers : Kept(d)'
    BY DEF DraftInv
<1>1. 0 \in Names /\ ~(0 \in Numbers)
      BY SubmissionAssumption DEF Names, Numbers
<1>2. Active(p) /\ Touches(p, 0, 0) BY DEF LocalStep, Touches, drafts
<1>3. /\ \A q \in Requests \ {p} : DraftOK(q)'
      /\ \A e \in Numbers : Kept(e)'
      BY <1>1, <1>2, OthersKeep
<1> QED BY <1>3, SubjectsKeep

LEMMA NewPageDraft ==
  ASSUME TypeInv, BookInv, DraftInv, NewPage
  PROVE  DraftInv'
<1>1. /\ UNCHANGED <<ops, tmp, cur, data, pc, req, stored, log, sent, calm>>
      BY DEF NewPage, drafts, local, history
<1>2. \A q \in Requests : Active(q) => Subject(q)' = Subject(q)
  <2> SUFFICES ASSUME NEW q \in Requests, Active(q)
               PROVE  pages'[req[q].page] = pages[req[q].page]
      BY <1>1 DEF Subject
  <2>1. req[q].page \in 1..MaxPages /\ req[q].page <= issued /\ issued \in Nat
        BY DEF BookInv, Numbered, TypeInv, ActiveOK, TypeOK
  <2> QED BY <2>1 DEF NewPage, TypeInv, TypeOK
<1>3. \A q \in Requests : pc[q] \in {"copy", "fork", "deliver", "drop"} => Active(q)
      BY DEF Active
<1>4. OneRequestADraft' = OneRequestADraft \/ ~calm
      BY <1>1, <1>2 DEF OneRequestADraft, Active
<1>5. \A q \in Requests : DraftOK(q) => DraftOK(q)'
      BY <1>1, <1>2, <1>3
         DEF DraftOK, Holds, CopyIsTheDraft, TextIsThePage, Version, SentOff,
             Exists, File, Weight, Bytes
<1>6. \A d \in Numbers : Kept(d) => Kept(d)' BY <1>1 DEF Kept, File, SentOff
<1> QED BY <1>1, <1>4, <1>5, <1>6 DEF DraftInv, LogIsThePage

LEMMA StartDraft ==
  ASSUME TypeInv, BookInv, DraftInv, NEW p \in Requests, NEW k \in 1..MaxPages,
         NEW o \in Ops, NEW fcc \in BOOLEAN, Start(p, k, o, fcc)
  PROVE  DraftInv'
<1> SUFFICES ASSUME calm' PROVE DraftInv' BY DEF DraftInv
<1>1. /\ UNCHANGED <<pages, tmp, cur, data, stored, log, sent>>
      /\ calm /\ ~SameDraft(k) /\ ~Active(p)
      BY DEF Start, drafts
<1>2. /\ pc'[p] \in {"open", "check"} /\ req'[p].page = k /\ req'[p].d = 0
      /\ \A q \in Requests \ {p} : pc'[q] = pc[q] /\ req'[q] = req[q]
      BY DEF Start, Active, Goto, TypeInv, TypeOK, NoReq
<1>3. /\ Subject(p)' = pages[k]
      /\ \A q \in Requests \ {p} : Subject(q)' = Subject(q) /\ (Active(q)' <=> Active(q))
      BY <1>1, <1>2 DEF Subject, Active
<1>4. \A q \in Requests \ {p} : Active(q) => pages[k] = 0 \/ Subject(q) # pages[k]
      BY <1>1 DEF SameDraft
<1>5. OneRequestADraft'
      BY <1>1, <1>3, <1>4 DEF DraftInv, OneRequestADraft
<1>6. DraftOK(p)'
      BY <1>2 DEF DraftOK, Holds, CopyIsTheDraft, TextIsThePage
<1>7. \A q \in Requests \ {p} : DraftOK(q)'
      BY <1>1, <1>2, <1>3
         DEF DraftInv, DraftOK, Holds, CopyIsTheDraft, TextIsThePage, Version,
             SentOff, Exists, File, Weight, Bytes
<1>8. \A d \in Numbers : Kept(d)' BY <1>1 DEF DraftInv, Kept, File, SentOff
<1> QED BY <1>1, <1>5, <1>6, <1>7, <1>8 DEF DraftInv, LogIsThePage

LEMMA OpenDraft ==
  ASSUME TypeInv, BookInv, DraftInv, NEW p \in Requests, Open(p)
  PROVE  DraftInv'
<1> DEFINE d == Draft(p)
           i == Scratch(p, d)
           n == req[p].n
<1>1. /\ d \in Numbers /\ i \in Numbers /\ n \in Numbers
      /\ Active(p) /\ Before(p) /\ Unused(n)
      /\ \/ d = pages[req[p].page] /\ cur[d] # 0
         \/ d = n
      /\ i = n \/ (tmp[d] # 0 /\ i = tmp[d])
      BY OpenedDraft
<1>2. /\ UNCHANGED <<pages, cur, sent, stored, log, calm>>
      /\ tmp'[d] = i
      /\ \A e \in Numbers \ {d} : tmp'[e] = tmp[e]
      /\ data'[i] = Blank("empty")
      /\ \A e \in Numbers \ {i} : data'[e] = data[e]
      /\ \A q \in Requests \ {p} : pc'[q] = pc[q] /\ req'[q] = req[q]
      /\ pc'[p] = "write" /\ req'[p].d = d /\ req'[p].fd = i
      BY OpenEffect
<1>a. req'[p].prev = Bytes(Found(p)) BY OpenEffect
<1> SUFFICES ASSUME calm PROVE DraftInv' BY <1>2 DEF DraftInv
<1> HIDE DEF d, i, n
<1>3. d # 0 /\ i # 0 /\ d \in Names /\ i \in Names BY <1>1 DEF Numbers, Names
<1>4. \A e \in Numbers : cur[e] # i /\ (e # d => tmp[e] # i)
      BY <1>1 DEF BookInv, FilesApart, Unused
<1>5. \A q \in Requests \ {p} : Active(q) => Subject(q) # d
  <2> SUFFICES ASSUME NEW q \in Requests \ {p}, Active(q) PROVE Subject(q) # d
      OBVIOUS
  <2>1. CASE d = n
    <3>1. req[q].d # n BY <1>1 DEF Unused
    <3>2. pages[req[q].page] # n BY <1>1 DEF Unused, TypeInv, ActiveOK
    <3> QED BY <2>1, <3>1, <3>2 DEF Subject
  <2>2. CASE d = pages[req[p].page]
    <3>1. Subject(p) = d BY <1>1, <2>2 DEF Subject, BookInv, OpsFit
    <3> QED BY <1>1, <1>3, <3>1 DEF DraftInv, OneRequestADraft
  <2> QED BY <1>1, <2>1, <2>2
<1>6. Touches(p, d, i) BY <1>2 DEF Touches
<1>7. /\ \A q \in Requests \ {p} : Subject(q)' = Subject(q) /\ DraftOK(q)'
      /\ \A e \in Numbers \ {d} : Kept(e)'
      BY <1>1, <1>3, <1>4, <1>5, <1>6, OthersKeep
<1>8. ASSUME NEW e \in Numbers PROVE Kept(e)'
  <2>1. cur[e] # 0 => File(e)' = File(e)
        BY <1>2, <1>4 DEF File, TypeInv, TypeOK, Names, Numbers
  <2> QED BY <1>2, <2>1 DEF DraftInv, Kept, SentOff
<1>9. OneRequestADraft'
  <2>1. Subject(p)' = d BY <1>2, <1>3 DEF Subject
  <2>2. \A q \in Requests \ {p} : Active(q)' = Active(q) BY <1>2 DEF Active
  <2> QED BY <1>5, <1>7, <2>1, <2>2 DEF DraftInv, OneRequestADraft
<1>10. Weight(req[p].d)' = req'[p].prev
  <2>1. CASE Exists(pages[req[p].page])
    <3>1. d = pages[req[p].page] /\ cur[d] # 0
          BY <2>1 DEF Draft, Exists, d
    <3>2. cur'[d] = cur[d] /\ data'[cur[d]] = data[cur[d]]
          BY <1>1, <1>2, <1>4, <3>1 DEF TypeInv, TypeOK, Names, Numbers
    <3>3. Found(p) = data[cur[d]] BY <2>1, <3>1 DEF Found, File
    <3> QED BY <1>2, <1>a, <3>1, <3>2, <3>3 DEF Weight, File, Bytes
  <2>2. CASE ~Exists(pages[req[p].page])
    <3>1. d = n /\ cur[n] = 0 BY <1>1, <2>2 DEF Draft, d, n, Unused
    <3>2. Bytes(Found(p)) = 0 BY <2>2 DEF Found, Bytes, Blank
    <3> QED BY <1>2, <1>a, <3>1, <3>2 DEF Weight
  <2> QED BY <2>1, <2>2
<1>11. DraftOK(p)'
      BY <1>2, <1>10 DEF DraftOK, Holds, CopyIsTheDraft, TextIsThePage
<1> QED BY <1>2, <1>7, <1>8, <1>9, <1>11 DEF DraftInv, LogIsThePage

\* A request that rewrites a draft is alone with it and with the file in tmp.
LEMMA WriterIsAlone ==
  ASSUME TypeInv, BookInv, DraftInv, calm, NEW p \in Requests,
         pc[p] \in {"write", "close"}
  PROVE  /\ Active(p) /\ Subject(p) = req[p].d
         /\ req[p].d \in Numbers /\ req[p].fd \in Numbers
         /\ req[p].d \in Names /\ req[p].fd \in Names
         /\ tmp[req[p].d] = req[p].fd
         /\ \A q \in Requests \ {p} : Active(q) => Subject(q) # req[p].d
         /\ \A e \in Numbers : cur[e] # req[p].fd
                               /\ (e # req[p].d => tmp[e] # req[p].fd)
<1>1. /\ req[p].d \in Numbers /\ req[p].fd \in Numbers /\ Active(p)
      BY DEF TypeInv, WritingOK, Active
<1>2. Subject(p) = req[p].d BY <1>1 DEF Subject, Numbers
<1>3. tmp[req[p].d] = req[p].fd BY DEF DraftInv, DraftOK, Holds
<1>4. \A q \in Requests \ {p} : Active(q) => Subject(q) # req[p].d
      BY <1>1, <1>2 DEF DraftInv, OneRequestADraft, Numbers
<1>5. \A e \in Numbers : cur[e] # req[p].fd
                         /\ (e # req[p].d => tmp[e] # req[p].fd)
      BY <1>1, <1>3 DEF BookInv, FilesApart, Numbers
<1> QED BY <1>1, <1>2, <1>3, <1>4, <1>5 DEF Numbers, Names

LEMMA WriteDraft ==
  ASSUME TypeInv, BookInv, DraftInv, NEW p \in Requests, Write(p)
  PROVE  DraftInv'
<1>1. /\ UNCHANGED <<pages, tmp, cur, sent, stored, log, calm, req>>
      /\ pc[p] = "write" /\ pc' = [pc EXCEPT ![p] = "close"]
      BY DEF Write, Goto, history
<1> SUFFICES ASSUME calm PROVE DraftInv' BY <1>1 DEF DraftInv
<1>2. /\ req[p].d \in Numbers /\ req[p].fd \in Numbers
      /\ req[p].d \in Names /\ req[p].fd \in Names
      /\ Active(p) /\ Subject(p) = req[p].d
      /\ tmp[req[p].d] = req[p].fd
      /\ \A q \in Requests \ {p} : Active(q) => Subject(q) # req[p].d
      /\ \A e \in Numbers : cur[e] # req[p].fd
                            /\ (e # req[p].d => tmp[e] # req[p].fd)
      BY <1>1, WriterIsAlone
<1>3. /\ pc'[p] = "close"
      /\ \A q \in Requests \ {p} : pc'[q] = pc[q]
      BY <1>1 DEF TypeInv, TypeOK
<1>4. /\ data'[req[p].fd] = Version(p)
      /\ \A j \in Numbers \ {req[p].fd} : data'[j] = data[j]
  <2>1. data[req[p].fd] = Blank("empty")
        BY <1>1 DEF DraftInv, DraftOK, Holds
  <2> QED BY <1>2, <2>1 DEF Write, TypeInv, TypeOK, Blank
<1>5. Touches(p, req[p].d, req[p].fd) BY <1>1, <1>3, <1>4 DEF Touches
<1>6. /\ \A q \in Requests \ {p} : Subject(q)' = Subject(q) /\ DraftOK(q)'
      /\ \A e \in Numbers \ {req[p].d} : Kept(e)'
      BY <1>2, <1>5, OthersKeep
<1>7. ASSUME NEW e \in Numbers PROVE Kept(e)'
  <2>1. cur[e] # 0 => File(e)' = File(e)
        BY <1>1, <1>2, <1>4 DEF File, TypeInv, TypeOK, Names, Numbers
  <2> QED BY <1>1, <2>1 DEF DraftInv, Kept, SentOff
<1>8. DraftOK(p)'
  <2>1. Version(p)' = Version(p) BY <1>1 DEF Version
  <2>2. Weight(req[p].d)' = Weight(req[p].d)
        BY <1>1, <1>2, <1>4
           DEF Weight, File, Bytes, TypeInv, TypeOK, Names, Numbers
  <2>3. Weight(req[p].d) = req[p].prev BY <1>1 DEF DraftInv, DraftOK, Holds
  <2> QED BY <1>1, <1>2, <1>3, <1>4, <2>1, <2>2, <2>3
          DEF DraftOK, Holds, CopyIsTheDraft, TextIsThePage
<1>9. OneRequestADraft'
      BY <1>1, <1>3 DEF DraftInv, OneRequestADraft, Active, Subject
<1> QED BY <1>1, <1>6, <1>7, <1>8, <1>9 DEF DraftInv, LogIsThePage

\* The file in tmp is given up: the draft stays as it was.
LEMMA DiscardDraft ==
  ASSUME TypeInv, BookInv, DraftInv, NEW p \in Requests, LocalStep(p),
         WriteFails(p) \/ CloseRefused(p)
  PROVE  DraftInv'
<1>1. /\ UNCHANGED <<pages, cur, data, sent, stored, log, calm>>
      /\ tmp' = [tmp EXCEPT ![req[p].d] = 0]
      /\ pc[p] \in {"write", "close"}
      /\ pc' = [pc EXCEPT ![p] = "idle"] \/ pc' = [pc EXCEPT ![p] = "token"]
      BY DEF WriteFails, CloseRefused, Finish, Goto, history
<1> SUFFICES ASSUME calm PROVE DraftInv' BY <1>1 DEF DraftInv
<1>2. /\ req[p].d \in Numbers /\ req[p].d \in Names /\ Active(p)
      /\ \A q \in Requests \ {p} : Active(q) => Subject(q) # req[p].d
      BY <1>1, WriterIsAlone
<1>3. Touches(p, req[p].d, 0)
      BY <1>1, <1>2 DEF Touches, LocalStep, TypeInv, TypeOK
<1>4. 0 \in Names BY SubmissionAssumption DEF Names
<1>5. /\ \A q \in Requests \ {p} : Subject(q)' = Subject(q) /\ DraftOK(q)'
      /\ \A e \in Numbers \ {req[p].d} : Kept(e)'
      BY <1>2, <1>3, <1>4, OthersKeep
<1>6. \A e \in Numbers : Kept(e)' BY <1>1 DEF DraftInv, Kept, SentOff, File
<1>7. DraftOK(p)'
  <2>1. pc'[p] \in {"idle", "token"} BY <1>1 DEF TypeInv, TypeOK
  <2> QED BY <2>1 DEF DraftOK, Holds, CopyIsTheDraft, TextIsThePage
<1>8. OneRequestADraft' BY <1>1, SubjectsKeep
<1> QED BY <1>1, <1>5, <1>6, <1>7, <1>8 DEF DraftInv, LogIsThePage

\* A text that is sent is the text of the page.
LEMMA SentVersion ==
  ASSUME TypeInv, NEW p \in Requests, Active(p), req[p].op = "send"
  PROVE  Version(p).text = req[p].page
BY DEF Version, Whole

\* The new version is stored: it is what has been written.
LEMMA CloseDraft ==
  ASSUME TypeInv, BookInv, DraftInv, NEW p \in Requests, LocalStep(p), Close(p)
  PROVE  DraftInv'
<1>1. /\ UNCHANGED <<pages, data, sent, log, calm>>
      /\ tmp' = [tmp EXCEPT ![req[p].d] = 0]
      /\ stored' = [stored EXCEPT ![req[p].d] = Version(p)]
      /\ cur' = IF tmp[req[p].d] # 0 THEN [cur EXCEPT ![req[p].d] = tmp[req[p].d]]
                ELSE cur
      /\ pc[p] = "close"
      BY DEF Close
<1> SUFFICES ASSUME calm PROVE DraftInv' BY <1>1 DEF DraftInv
<1>2. /\ req[p].d \in Numbers /\ req[p].d \in Names
      /\ req[p].fd \in Numbers
      /\ Active(p) /\ Subject(p) = req[p].d
      /\ tmp[req[p].d] = req[p].fd
      /\ \A q \in Requests \ {p} : Active(q) => Subject(q) # req[p].d
      BY <1>1, WriterIsAlone
<1>3. data[req[p].fd] = Version(p) BY <1>1 DEF DraftInv, DraftOK, Holds
<1>4. /\ cur'[req[p].d] = req[p].fd /\ req[p].fd # 0
      /\ stored'[req[p].d] = Version(p)
      BY <1>1, <1>2 DEF TypeInv, TypeOK, Numbers
<1>5. Touches(p, req[p].d, 0)
      BY <1>1, <1>2 DEF Touches, LocalStep, TypeInv, TypeOK
<1>6. 0 \in Names BY SubmissionAssumption DEF Names
<1>7. /\ \A q \in Requests \ {p} : Subject(q)' = Subject(q) /\ DraftOK(q)'
      /\ \A e \in Numbers \ {req[p].d} : Kept(e)'
      BY <1>2, <1>5, <1>6, OthersKeep
<1>8. \A e \in Numbers : Kept(e)'
      BY <1>1, <1>3, <1>4, <1>7 DEF Kept, File
<1>9. pc'[p] \in {"idle", "token"} \/ (pc'[p] = "copy" /\ req'[p] = req[p])
      BY DEF Close, AfterDraft, Finish, Goto, TypeInv, TypeOK
<1>10. DraftOK(p)'
  <2>1. Holds(p)' /\ CopyIsTheDraft(p)' BY <1>9 DEF Holds, CopyIsTheDraft
  <2>2. TextIsThePage(p)'
    <3> SUFFICES ASSUME pc'[p] = "copy", req[p].op = "send", req'[p] = req[p]
                 PROVE  File(Subject(p))'.text = req[p].page
        BY <1>9 DEF TextIsThePage
    <3>1. Subject(p)' = req[p].d BY <1>1, <1>2 DEF Subject
    <3>2. File(Subject(p))' = Version(p) BY <1>1, <1>3, <1>4, <3>1 DEF File
    <3> QED BY <1>2, <3>2, SentVersion
  <2> QED BY <2>1, <2>2 DEF DraftOK
<1>11. OneRequestADraft' BY <1>1, SubjectsKeep
<1> QED BY <1>1, <1>7, <1>8, <1>10, <1>11 DEF DraftInv, LogIsThePage

\* Steps after which the request is no nearer to sending than before.
LEMMA AsideDraft ==
  ASSUME TypeInv, BookInv, DraftInv, NEW p \in Requests, LocalStep(p),
         UNCHANGED <<pages, drafts, stored, calm, log>>,
         \A j \in Numbers \ {req[p].n} : sent'[j] = sent[j],
         pc'[p] \in {"idle", "open", "token", "purge", "unfile"}
         \/ (pc'[p] = "copy" /\ req[p].op = "post")
  PROVE  DraftInv'
<1>1. req'[p] \in {req[p], NoReq} BY DEF LocalStep
<1>2. calm => DraftOK(p)' /\ LogIsThePage'
      BY <1>1 DEF DraftOK, Holds, CopyIsTheDraft, TextIsThePage, DraftInv,
             LogIsThePage, NoReq
<1> QED BY <1>2, LocalDraft

LEMMA CheckDraft ==
  ASSUME TypeInv, BookInv, DraftInv, NEW p \in Requests, LocalStep(p), Check(p)
  PROVE  DraftInv'
<1>1. pc'[p] \in {"idle", "open"} \/ (pc'[p] = "copy" /\ req[p].op = "post")
      BY DEF Check, Finish, Goto, TypeInv, TypeOK
<1>2. UNCHANGED <<pages, drafts, stored, calm, log, sent>> BY DEF Check, history
<1> QED BY <1>1, <1>2, AsideDraft

LEMMA EditDraft ==
  ASSUME TypeInv, BookInv, DraftInv, NEW p \in Requests, Edit(p)
  PROVE  DraftInv'
<1>1. CASE Open(p) BY <1>1, OpenDraft
<1>2. CASE ~Open(p)
  <2>1. LocalStep(p) BY <1>2, EditIsLocal DEF BookInv
  <2>2. CASE OpenFails(p) \/ NoChange(p)
    <3>1. pc'[p] \in {"idle", "token"}
          BY <2>2 DEF OpenFails, NoChange, Finish, Goto, TypeInv, TypeOK
    <3>2. UNCHANGED <<pages, drafts, stored, calm, log, sent>>
          BY <2>2 DEF OpenFails, NoChange, history
    <3> QED BY <2>1, <3>1, <3>2, AsideDraft
  <2> QED BY <1>2, <2>1, <2>2, WriteDraft, DiscardDraft, CloseDraft DEF Edit
<1> QED BY <1>1, <1>2

LEMMA CopyDraft ==
  ASSUME TypeInv, BookInv, DraftInv, NEW p \in Requests, LocalStep(p), Copy(p)
  PROVE  DraftInv'
<1>1. /\ UNCHANGED <<pages, drafts, tmp, cur, data, stored, calm, log, req>>
      /\ pc[p] = "copy" /\ Active(p) /\ Exists(Subject(p))
      /\ pc' = [pc EXCEPT ![p] = "fork"]
      /\ sent' = [sent EXCEPT ![req[p].n] = File(Subject(p))]
      BY DEF Copy, Goto, Active, history, drafts
<1>2. /\ pc'[p] = "fork"
      /\ req[p].n \in Numbers
      /\ sent'[req[p].n] = File(Subject(p))
      /\ \A j \in Numbers \ {req[p].n} : sent'[j] = sent[j]
      BY <1>1 DEF TypeInv, TypeOK, ActiveOK
<1>3. Subject(p) \in Numbers BY <1>1, SubjectType, FileType
<1>4. Subject(p)' = Subject(p) BY <1>1 DEF Subject
<1> SUFFICES ASSUME calm PROVE DraftOK(p)' /\ LogIsThePage'
    BY <1>1, <1>2, LocalDraft
<1>5. CopyIsTheDraft(p)'
  <2>1. Kept(Subject(p)) BY <1>3 DEF DraftInv
  <2> QED BY <1>1, <1>2, <1>3, <1>4, <2>1
          DEF CopyIsTheDraft, Kept, SentOff, Numbers
<1>6. TextIsThePage(p)'
      BY <1>1, <1>2 DEF DraftInv, DraftOK, TextIsThePage
<1> QED BY <1>1, <1>2, <1>5, <1>6 DEF DraftOK, Holds, DraftInv, LogIsThePage

LEMMA ForkDraft ==
  ASSUME TypeInv, BookInv, DraftInv, NEW p \in Requests, LocalStep(p), Fork(p)
  PROVE  DraftInv'
<1>1. /\ UNCHANGED <<pages, drafts, stored, calm, log, sent, req>>
      /\ pc[p] = "fork"
      /\ pc'[p] \in {"deliver", "purge"}
      BY DEF Fork, Goto, history, TypeInv, TypeOK
<1>2. calm => DraftOK(p)' /\ LogIsThePage'
      BY <1>1 DEF DraftInv, DraftOK, Holds, CopyIsTheDraft, TextIsThePage,
                  LogIsThePage, Subject, SentOff
<1> QED BY <1>1, <1>2, LocalDraft

\* sendit.sh takes the copy, which is what was stored of the draft.
LEMMA DeliverDraft ==
  ASSUME TypeInv, BookInv, DraftInv, NEW p \in Requests, LocalStep(p),
         pc[p] = "deliver", log' \in {log, log \cup {Sending(p)}},
         UNCHANGED <<pages, drafts, stored, calm, sent>>,
         pc'[p] \in {"idle", "purge"} \/ (pc'[p] = "drop" /\ Sending(p) \in log')
  PROVE  DraftInv'
<1> SUFFICES ASSUME calm PROVE DraftOK(p)' /\ LogIsThePage'
    BY LocalDraft
<1>1. LogIsThePage'
      BY DEF DraftInv, LogIsThePage, DraftOK, TextIsThePage, Sending
<1>2. Holds(p)' /\ TextIsThePage(p)' BY DEF Holds, TextIsThePage
<1>3. CopyIsTheDraft(p)'
  <2> SUFFICES ASSUME pc'[p] = "drop" PROVE CopyIsTheDraft(p)'
      BY DEF CopyIsTheDraft
  <2>1. Subject(p)' = Subject(p) BY DEF LocalStep, Subject
  <2>2. CopyIsTheDraft(p) /\ Sending(p) \in log' /\ Sending(p).msg = sent[req[p].n]
        BY DEF DraftInv, DraftOK, Sending
  <2> QED BY <2>1, <2>2 DEF CopyIsTheDraft, SentOff
<1> QED BY <1>1, <1>2, <1>3 DEF DraftOK

\* The draft is removed: it has been sent as it was stored.
LEMMA DropDraft ==
  ASSUME TypeInv, BookInv, DraftInv, NEW p \in Requests, LocalStep(p), Drop(p)
  PROVE  DraftInv'
<1>1. /\ UNCHANGED <<pages, tmp, data, sent, stored, log, calm>>
      /\ pc[p] = "drop" /\ pc' = [pc EXCEPT ![p] = "token"]
      /\ cur' = IF Exists(Subject(p)) THEN [cur EXCEPT ![Subject(p)] = 0] ELSE cur
      BY DEF Drop, Goto, history
<1> SUFFICES ASSUME calm PROVE DraftInv' BY <1>1 DEF DraftInv
<1>2. /\ Active(p) /\ Subject(p) \in Names /\ Subject(p) # 0
      /\ CopyIsTheDraft(p)
      BY <1>1, SubjectType DEF LocalStep, DraftInv, DraftOK, CopyIsTheDraft
<1>3. Touches(p, Subject(p), 0)
      BY <1>1, <1>2 DEF Touches, LocalStep, TypeInv, TypeOK, Names, Numbers
<1>4. 0 \in Names BY SubmissionAssumption DEF Names
<1>5. \A q \in Requests \ {p} : Active(q) => Subject(q) # Subject(p)
      BY <1>2 DEF DraftInv, OneRequestADraft
<1>6. /\ \A q \in Requests \ {p} : Subject(q)' = Subject(q) /\ DraftOK(q)'
      /\ \A e \in Numbers \ {Subject(p)} : Kept(e)'
      BY <1>2, <1>3, <1>4, <1>5, OthersKeep
<1>7. ASSUME NEW e \in Numbers, e = Subject(p) PROVE Kept(e)'
      BY <1>1, <1>2, <1>7 DEF CopyIsTheDraft, Kept, SentOff
<1>8. DraftOK(p)'
  <2>1. pc'[p] = "token" BY <1>1 DEF TypeInv, TypeOK
  <2> QED BY <2>1 DEF DraftOK, Holds, CopyIsTheDraft, TextIsThePage
<1>9. OneRequestADraft' BY <1>1, SubjectsKeep
<1> QED BY <1>1, <1>6, <1>7, <1>8, <1>9 DEF DraftInv, LogIsThePage

LEMMA SendDraft ==
  ASSUME TypeInv, BookInv, DraftInv, NEW p \in Requests, Send(p)
  PROVE  DraftInv'
<1>1. LocalStep(p) BY SendIsLocal DEF BookInv
<1>2. CASE CopyRefused(p) \/ SaveToken(p)
  <2>1. pc'[p] \in {"idle", "unfile"}
        BY <1>2 DEF CopyRefused, SaveToken, Finish, Goto, TypeInv, TypeOK
  <2>2. UNCHANGED <<pages, drafts, stored, calm, log, sent>>
        BY <1>2 DEF CopyRefused, SaveToken, history
  <2> QED BY <1>1, <2>1, <2>2, AsideDraft
<1>3. CASE Purge(p) \/ Unfile(p)
  <2>1. pc'[p] = "idle" /\ \A j \in Numbers \ {req[p].n} : sent'[j] = sent[j]
        BY <1>3 DEF Purge, Unfile, Unsend, Finish, Goto, TypeInv, TypeOK
  <2>2. UNCHANGED <<pages, drafts, stored, calm, log>>
        BY <1>3 DEF Purge, Unfile, history
  <2> QED BY <1>1, <2>1, <2>2, AsideDraft
<1>4. CASE Deliver(p)
  <2>1. /\ UNCHANGED <<pages, drafts, stored, calm, sent>> /\ pc[p] = "deliver"
        /\ log' \in {log, log \cup {Sending(p)}}
        BY <1>4 DEF Deliver, history
  <2>2. pc'[p] = "purge" \/ (pc'[p] = "drop" /\ Sending(p) \in log')
        BY <1>4 DEF Deliver, Goto, TypeInv, TypeOK
  <2> QED BY <1>1, <2>1, <2>2, DeliverDraft
<1> QED BY <1>1, <1>2, <1>3, <1>4, CopyDraft, ForkDraft, DropDraft DEF Send

LEMMA CrashDraft ==
  ASSUME TypeInv, BookInv, DraftInv, NEW p \in Requests, Crash(p)
  PROVE  DraftInv'
<1>1. LocalStep(p) BY CrashIsLocal DEF BookInv
<1>2. /\ UNCHANGED <<pages, drafts, stored, calm, sent>> /\ pc'[p] = "idle"
      BY DEF Crash, Finish, Goto, TypeInv, TypeOK
<1>3. CASE UNCHANGED log BY <1>1, <1>2, <1>3, AsideDraft
<1>4. CASE pc[p] = "deliver" /\ log' = log \cup {Sending(p)}
      BY <1>1, <1>2, <1>4, DeliverDraft
<1> QED BY <1>3, <1>4 DEF Crash

-----------------------------------------------------------------------------
(* The copies in Sent.                                                     *)

LEMMA InitSent == Init => SentInv
BY DEF Init, SentInv, CopyFits, Settled, LogNumbers, CopiesKept, Early, Midway,
       Taken, Active, Blank, Numbers

\* A step of p changes the copy of p only, and adds at most its message to the
\* log: what has to be seen is that this copy fits.
LEMMA SentStep ==
  ASSUME TypeInv, BookInv, SentInv, NEW p \in Requests, Active(p),
         \A q \in Requests \ {p} : pc'[q] = pc[q] /\ req'[q] = req[q],
         pc'[p] = "idle" \/ req'[p].n = req[p].n,
         \A j \in Numbers \ {req[p].n} : sent'[j] = sent[j],
         log' = log \/ log' = log \cup {Sending(p)},
         UNCHANGED ops, unharmed' => unharmed,
         unharmed' => /\ CopyFits(p)'
                      /\ pc'[p] = "idle" => (sent'[req[p].n].state # "none" <=>
                           \E l \in log' : l.n = req[p].n /\ l.fcc)
                      /\ \A l \in log' : l.n = req[p].n /\ l.fcc
                                           => sent'[l.n] = l.msg
  PROVE  SentInv'
<1>1. req[p].n \in Numbers /\ req[p].n <= ops
      BY DEF TypeInv, ActiveOK, BookInv, Numbered
<1>2. \A l \in log' : l \in log \/ l.n = req[p].n BY DEF Sending
<1>3. log \subseteq log' OBVIOUS
<1>4. LogNumbers' BY <1>1, <1>2 DEF SentInv, LogNumbers
<1>5. SUFFICES ASSUME unharmed'
               PROVE  /\ \A q \in Requests : CopyFits(q)'
                      /\ \A i \in Numbers : Settled(i)'
                      /\ CopiesKept'
      BY <1>4 DEF SentInv
<1>6. \A q \in Requests \ {p} : Active(q) =>
        req[q].n \in Numbers /\ req[q].n # req[p].n
      BY DEF BookInv, Numbered, TypeInv, ActiveOK
<1>7. ASSUME NEW q \in Requests \ {p} PROVE CopyFits(q)'
  <2>1. CASE Active(q)
        BY <1>2, <1>3, <1>5, <1>6, <2>1
           DEF SentInv, CopyFits, Early, Midway, Taken, Active
  <2>2. CASE ~Active(q)
        BY <2>2 DEF CopyFits, Early, Midway, Taken, Active
  <2> QED BY <2>1, <2>2
<1>8. ASSUME NEW i \in Numbers PROVE Settled(i)'
  <2>1. CASE i = req[p].n
        BY <1>5, <2>1 DEF Settled, Active
  <2>2. CASE i # req[p].n
    <3>1. (\A q \in Requests : Active(q)' => req'[q].n # i)
            => (\A q \in Requests : Active(q) => req[q].n # i)
          BY <2>2 DEF Active
    <3> QED BY <1>2, <1>3, <1>5, <2>2, <3>1 DEF SentInv, Settled
  <2> QED BY <2>1, <2>2
<1>9. CopiesKept'
  <2> SUFFICES ASSUME NEW l \in log', l.fcc, l.n # req[p].n
               PROVE  sent'[l.n] = l.msg
      BY <1>5 DEF CopiesKept
  <2>1. l \in log /\ l.n \in Numbers
        BY <1>2 DEF TypeInv, TypeOK, Messages
  <2> QED BY <1>5, <2>1 DEF SentInv, CopiesKept
<1> QED BY <1>5, <1>7, <1>8, <1>9

LEMMA NewPageSent ==
  ASSUME SentInv, NewPage
  PROVE  SentInv'
BY DEF NewPage, local, history, SentInv, CopyFits, Settled, LogNumbers,
       CopiesKept, Early, Midway, Taken, Active

LEMMA StartSent ==
  ASSUME TypeInv, BookInv, SentInv, NEW p \in Requests, NEW k \in 1..MaxPages,
         NEW o \in Ops, NEW fcc \in BOOLEAN, Start(p, k, o, fcc)
  PROVE  SentInv'
<1>1. /\ UNCHANGED <<log, sent, unharmed>> /\ ops' = ops + 1 /\ ops \in Nat
      /\ ops + 1 \in Numbers
      BY SubmissionAssumption DEF Start, TypeInv, TypeOK, Names, Numbers
<1>2. /\ pc[p] = "idle" /\ pc'[p] \in {"open", "check"} /\ req'[p].n = ops + 1
      /\ \A q \in Requests \ {p} : pc'[q] = pc[q] /\ req'[q] = req[q]
      BY DEF Start, Active, Goto, TypeInv, TypeOK, NoReq
<1>3. /\ \A l \in log : l.n \in Nat /\ l.n <= ops
      /\ \A q \in Requests : Active(q) => req[q].n \in Nat /\ req[q].n <= ops
      BY DEF SentInv, LogNumbers, BookInv, Numbered, TypeInv, ActiveOK, TypeOK,
             Messages, Numbers
<1>4. LogNumbers' BY <1>1, <1>3 DEF LogNumbers
<1>5. CASE unharmed
  <2>1. sent[ops + 1].state = "none"
        BY <1>1, <1>3, <1>5 DEF SentInv, Settled
  <2>2. CopyFits(p)'
        BY <1>1, <1>2, <1>3, <2>1 DEF CopyFits, Early, Midway, Taken
  <2>3. \A q \in Requests \ {p} : CopyFits(q)'
        BY <1>1, <1>2, <1>5 DEF SentInv, CopyFits, Early, Midway, Taken, Active
  <2>4. \A i \in Numbers : Settled(i)'
        BY <1>1, <1>2, <1>5 DEF SentInv, Settled, Active
  <2>5. CopiesKept' BY <1>1, <1>5 DEF SentInv, CopiesKept
  <2> QED BY <1>4, <2>2, <2>3, <2>4, <2>5 DEF SentInv
<1>6. CASE ~unharmed BY <1>1, <1>4, <1>6 DEF SentInv
<1> QED BY <1>5, <1>6

\* A request on its way to the copy: nothing of it is in Sent or in the log.
LEMMA EarlySent ==
  ASSUME TypeInv, BookInv, SentInv, NEW p \in Requests, Early(p),
         \A q \in Requests \ {p} : pc'[q] = pc[q] /\ req'[q] = req[q],
         pc'[p] = "idle" \/ (Early(p)' /\ req'[p].n = req[p].n),
         UNCHANGED <<ops, log, sent, unharmed>>
  PROVE  SentInv'
<1>1. unharmed => sent[req[p].n].state = "none" /\ \A l \in log : l.n # req[p].n
      BY DEF SentInv, CopyFits
<1>2. Active(p) BY DEF Early
<1>3. unharmed => CopyFits(p)'
      BY <1>1 DEF CopyFits, Early, Midway, Taken, Active
<1> QED BY <1>1, <1>2, <1>3, SentStep

LEMMA CheckSent ==
  ASSUME TypeInv, BookInv, SentInv, NEW p \in Requests, Check(p)
  PROVE  SentInv'
<1>1. LocalStep(p) BY CheckIsLocal DEF BookInv
<1>2. Early(p) BY DEF Check, Early, Midway, Taken, Active
<1>3. pc'[p] \in {"idle", "open", "copy"} BY DEF Check, Finish, Goto, TypeInv, TypeOK
<1>4. pc'[p] = "idle" \/ (Early(p)' /\ req'[p].n = req[p].n)
      BY <1>1, <1>3 DEF LocalStep, Early, Midway, Taken, Active
<1> QED BY <1>1, <1>2, <1>4, EarlySent DEF Check, LocalStep, history

LEMMA EditSent ==
  ASSUME TypeInv, BookInv, SentInv, NEW p \in Requests, Edit(p)
  PROVE  SentInv'
<1>1. Early(p)
      BY DEF Edit, Open, OpenFails, NoChange, Write, WriteFails, Close,
             CloseRefused, Early, Midway, Taken, Active
<1>2. UNCHANGED <<ops, log, sent, unharmed>>
      BY DEF Edit, Open, OpenFails, NoChange, Write, WriteFails, Close,
             CloseRefused, history
<1>3. CASE Open(p)
  <2>1. /\ pc'[p] = "write" /\ req'[p].n = req[p].n
        /\ \A q \in Requests \ {p} : pc'[q] = pc[q] /\ req'[q] = req[q]
        BY <1>3, OpenEffect
  <2>2. Early(p)' BY <2>1 DEF Early, Midway, Taken, Active
  <2> QED BY <1>1, <1>2, <2>1, <2>2, EarlySent
<1>4. CASE ~Open(p)
  <2>1. LocalStep(p) BY <1>4, EditIsLocal DEF BookInv
  <2>2. pc'[p] \in {"idle", "close", "copy"}
        \/ (pc'[p] = "token" /\ req[p].op \notin {"send", "post"})
    <3>1. pc[p] \in {"open", "write", "close"} => req[p].op # "post"
          BY DEF BookInv, OpsFit
    <3> QED BY <1>4, <3>1
            DEF Edit, OpenFails, NoChange, Write, WriteFails, Close, CloseRefused,
                AfterDraft, Finish, Goto, TypeInv, TypeOK
  <2>3. pc'[p] = "idle" \/ (Early(p)' /\ req'[p].n = req[p].n)
        BY <2>1, <2>2 DEF LocalStep, Early, Midway, Taken, Active
  <2> QED BY <1>1, <1>2, <2>1, <2>3, EarlySent DEF LocalStep
<1> QED BY <1>3, <1>4

LEMMA CopySent ==
  ASSUME TypeInv, BookInv, SentInv, NEW p \in Requests, LocalStep(p), Copy(p)
  PROVE  SentInv'
<1>1. /\ UNCHANGED <<ops, log, unharmed, req>> /\ Early(p)
      /\ Exists(Subject(p))
      /\ sent' = [sent EXCEPT ![req[p].n] = File(Subject(p))]
      /\ pc'[p] = "fork"
      BY DEF Copy, Goto, Early, Midway, Taken, Active, history, TypeInv, TypeOK
<1>2. req[p].n \in Numbers /\ Active(p)
      BY DEF TypeInv, ActiveOK, LocalStep
<1>3. /\ sent'[req[p].n] = File(Subject(p))
      /\ \A j \in Numbers \ {req[p].n} : sent'[j] = sent[j]
      BY <1>1, <1>2 DEF TypeInv, TypeOK
<1>4. File(Subject(p)).state # "none"
  <2>1. Subject(p) \in Numbers /\ cur[Subject(p)] # 0
        BY <1>1, <1>2, SubjectType, FileType DEF Exists
  <2> QED BY <2>1 DEF BookInv, FilesThere, File
<1>5. unharmed => /\ CopyFits(p)'
                  /\ \A l \in log : l.n # req[p].n
      BY <1>1, <1>3, <1>4 DEF SentInv, CopyFits, Early, Midway, Taken
<1> QED BY <1>1, <1>2, <1>3, <1>5, SentStep DEF LocalStep

LEMMA ForkSent ==
  ASSUME TypeInv, BookInv, SentInv, NEW p \in Requests, LocalStep(p), Fork(p)
  PROVE  SentInv'
<1>1. /\ UNCHANGED <<ops, log, sent, unharmed, req>> /\ Midway(p)
      /\ pc'[p] \in {"deliver", "purge"}
      BY DEF Fork, Goto, Midway, history, TypeInv, TypeOK
<1>2. unharmed => /\ CopyFits(p)'
                  /\ \A l \in log : l.n # req[p].n
      BY <1>1 DEF SentInv, CopyFits, Early, Midway, Taken
<1> QED BY <1>1, <1>2, SentStep DEF LocalStep

LEMMA DeliverSent ==
  ASSUME TypeInv, BookInv, SentInv, NEW p \in Requests, LocalStep(p), Deliver(p)
  PROVE  SentInv'
<1>1. /\ UNCHANGED <<ops, sent, unharmed, req>> /\ Midway(p)
      /\ \/ log' = log \cup {Sending(p)} /\ pc'[p] = "drop"
         \/ log' = log /\ pc'[p] = "purge"
      BY DEF Deliver, Goto, Midway, history, TypeInv, TypeOK
<1>2. /\ Sending(p).n = req[p].n /\ Sending(p).fcc = req[p].fcc
      /\ Sending(p).msg = sent[req[p].n]
      BY DEF Sending
<1>3. unharmed => sent[req[p].n].state # "none" /\ \A l \in log : l.n # req[p].n
      BY <1>1 DEF SentInv, CopyFits
<1>4. unharmed => CopyFits(p)'
      BY <1>1, <1>2, <1>3 DEF CopyFits, Early, Midway, Taken
<1>5. unharmed => \A l \in log' : l.n = req[p].n => sent[l.n] = l.msg
      BY <1>1, <1>2, <1>3
<1> QED BY <1>1, <1>4, <1>5, SentStep DEF LocalStep

LEMMA DropSent ==
  ASSUME TypeInv, BookInv, SentInv, NEW p \in Requests, LocalStep(p), Drop(p)
  PROVE  SentInv'
<1>1. /\ UNCHANGED <<ops, log, sent, unharmed, req>> /\ pc[p] = "drop"
      /\ pc'[p] = "token"
      BY DEF Drop, Goto, history, TypeInv, TypeOK
<1>2. Taken(p) /\ Taken(p)' BY <1>1 DEF Taken, BookInv, OpsFit
<1>3. unharmed => CopyFits(p)'
      BY <1>1, <1>2 DEF SentInv, CopyFits, Early, Midway
<1>4. unharmed => \A l \in log : l.n = req[p].n /\ l.fcc => sent[l.n] = l.msg
      BY DEF SentInv, CopiesKept
<1> QED BY <1>1, <1>3, <1>4, SentStep DEF LocalStep

LEMMA SaveTokenSent ==
  ASSUME TypeInv, BookInv, SentInv, NEW p \in Requests, LocalStep(p), SaveToken(p)
  PROVE  SentInv'
<1>1. /\ UNCHANGED <<ops, log, sent, unharmed>> /\ pc[p] = "token"
      BY DEF SaveToken
<1>2. req[p].op \in Ops \ {"save"} /\ req[p].fcc \in BOOLEAN
      BY <1>1 DEF BookInv, OpsFit, TypeInv, ActiveOK, TypeOK, Records, Active
<1>3. CASE req[p].op \notin {"send", "post"}
  <2>1. Early(p) BY <1>1, <1>3 DEF Early, Midway, Taken, Active
  <2>2. pc'[p] = "idle"
        BY <1>2, <1>3 DEF SaveToken, Filed, Finish, Goto, TypeInv, TypeOK, Ops
  <2> QED BY <1>1, <2>1, <2>2, EarlySent DEF LocalStep
<1>4. CASE req[p].op \in {"send", "post"}
  <2>1. Taken(p) BY <1>1, <1>4 DEF Taken
  <2>2. \/ pc'[p] = "idle" /\ req[p].fcc
        \/ pc'[p] = "unfile" /\ req'[p] = req[p]
        BY <1>2, <1>4 DEF SaveToken, Filed, Finish, Goto, TypeInv, TypeOK
  <2>3. unharmed => /\ sent[req[p].n].state # "none"
                    /\ \E l \in log : l.n = req[p].n
                    /\ \A l \in log : l.n = req[p].n => l.fcc = req[p].fcc
        BY <2>1 DEF SentInv, CopyFits
  <2>4. unharmed => CopyFits(p)'
        BY <1>1, <2>2, <2>3 DEF CopyFits, Early, Midway, Taken, Active
  <2>5. unharmed /\ pc'[p] = "idle" => \E l \in log : l.n = req[p].n /\ l.fcc
        BY <2>2, <2>3
  <2>6. unharmed => \A l \in log : l.n = req[p].n /\ l.fcc => sent[l.n] = l.msg
        BY DEF SentInv, CopiesKept
  <2> QED BY <1>1, <2>2, <2>3, <2>4, <2>5, <2>6, SentStep DEF LocalStep
<1> QED BY <1>3, <1>4

\* The copy goes: it was not taken, or was not to be kept.
LEMMA UnsendSent ==
  ASSUME TypeInv, BookInv, SentInv, NEW p \in Requests, LocalStep(p),
         Purge(p) \/ Unfile(p)
  PROVE  SentInv'
<1>1. /\ UNCHANGED <<ops, log, unharmed>> /\ pc[p] \in {"purge", "unfile"}
      /\ sent' = [sent EXCEPT ![req[p].n] = Blank("none")]
      /\ pc'[p] = "idle"
      BY DEF Purge, Unfile, Unsend, Finish, Goto, history, TypeInv, TypeOK
<1>2. req[p].n \in Numbers /\ Active(p)
      BY DEF TypeInv, ActiveOK, LocalStep
<1>3. /\ sent'[req[p].n].state = "none"
      /\ \A j \in Numbers \ {req[p].n} : sent'[j] = sent[j]
      BY <1>1, <1>2 DEF TypeInv, TypeOK, Blank
<1>4. unharmed => \A l \in log : ~(l.n = req[p].n /\ l.fcc)
      BY <1>1 DEF SentInv, CopyFits, Midway, Taken, BookInv, OpsFit
<1>5. CopyFits(p)' BY <1>1 DEF CopyFits, Early, Midway, Taken, Active
<1> QED BY <1>1, <1>2, <1>3, <1>4, <1>5, SentStep DEF LocalStep

LEMMA SendSent ==
  ASSUME TypeInv, BookInv, SentInv, NEW p \in Requests, Send(p)
  PROVE  SentInv'
<1>1. LocalStep(p) BY SendIsLocal DEF BookInv
<1>2. CASE CopyRefused(p)
  <2>1. Early(p) BY <1>2 DEF CopyRefused, Early, Midway, Taken, Active
  <2>2. pc'[p] = "idle" /\ UNCHANGED <<ops, log, sent, unharmed>>
        BY <1>2 DEF CopyRefused, Finish, Goto, history, TypeInv, TypeOK
  <2> QED BY <1>1, <2>1, <2>2, EarlySent DEF LocalStep
<1> QED BY <1>1, <1>2, CopySent, ForkSent, DeliverSent, DropSent, SaveTokenSent,
           UnsendSent DEF Send

LEMMA CrashSent ==
  ASSUME TypeInv, BookInv, SentInv, NEW p \in Requests, Crash(p)
  PROVE  SentInv'
<1>1. LocalStep(p) BY CrashIsLocal DEF BookInv
<1>2. /\ UNCHANGED <<ops, sent>> /\ unharmed' = FALSE
      /\ log' = log \/ log' = log \cup {Sending(p)}
      /\ pc'[p] = "idle"
      BY DEF Crash, Finish, Goto, TypeInv, TypeOK
<1> QED BY <1>1, <1>2, SentStep DEF LocalStep

-----------------------------------------------------------------------------

StoreInv == BookInv /\ DraftInv /\ SentInv

LEMMA NextStore == TypeInv /\ StoreInv /\ [Next]_vars => StoreInv'
<1> SUFFICES ASSUME TypeInv, BookInv, DraftInv, SentInv, [Next]_vars
             PROVE  StoreInv'
    BY DEF StoreInv
<1>1. CASE NewPage
      BY <1>1, NewPageBook, NewPageDraft, NewPageSent DEF StoreInv
<1>2. ASSUME NEW p \in Requests, NEW k \in 1..MaxPages, NEW o \in Ops,
             NEW fcc \in BOOLEAN, Start(p, k, o, fcc)
      PROVE  StoreInv'
      BY <1>2, StartBook, StartDraft, StartSent DEF StoreInv
<1>3. ASSUME NEW p \in Requests, Check(p)
      PROVE  StoreInv'
  <2>1. LocalStep(p) /\ OpsFit' BY <1>3, CheckIsLocal DEF BookInv
  <2>2. BookInv' BY <1>3, <2>1, LocalBook DEF Check
  <2> QED BY <1>3, <2>1, <2>2, CheckDraft, CheckSent DEF StoreInv
<1>4. ASSUME NEW p \in Requests, Edit(p)
      PROVE  StoreInv'
      BY <1>4, EditBook, EditDraft, EditSent DEF StoreInv
<1>5. ASSUME NEW p \in Requests, Send(p)
      PROVE  StoreInv'
      BY <1>5, SendBook, SendDraft, SendSent DEF StoreInv
<1>6. ASSUME NEW p \in Requests, Crash(p)
      PROVE  StoreInv'
  <2>1. LocalStep(p) /\ OpsFit' BY <1>6, CrashIsLocal DEF BookInv
  <2>2. BookInv' BY <1>6, <2>1, LocalBook DEF Crash
  <2> QED BY <1>6, <2>2, CrashDraft, CrashSent DEF StoreInv
<1>7. CASE UNCHANGED vars
  <2>1. BookInv'
        BY <1>7 DEF vars, drafts, local, BookInv, Numbered, OpsFit, FreshNumbers,
                    Unused, FilesApart, FilesThere, Before, Active
  <2>2. DraftInv'
        BY <1>7 DEF vars, drafts, local, history, DraftInv, OneRequestADraft,
                    DraftOK, Holds, CopyIsTheDraft, TextIsThePage, LogIsThePage,
                    Kept, SentOff, Subject, Exists, File, Version, Active,
                    Weight, Bytes
  <2>3. SentInv'
        BY <1>7 DEF vars, local, history, SentInv, CopyFits, Settled, LogNumbers,
                    CopiesKept, Early, Midway, Taken, Active
  <2> QED BY <2>1, <2>2, <2>3 DEF StoreInv
<1> QED BY <1>1, <1>2, <1>3, <1>4, <1>5, <1>6, <1>7 DEF Next

LEMMA StoreTheorem == Spec => []StoreInv
<1>1. Init => TypeInv /\ StoreInv
      BY InitTypes, InitBook, InitDraft, InitSent DEF StoreInv
<1>2. TypeInv /\ [Next]_vars => TypeInv' BY NextType
<1> QED BY <1>1, <1>2, NextStore, PTL DEF Spec

\* Whatever requests fail or are killed, a version of a draft that was stored
\* is in Drafts or has been sent, as long as no two requests of a page or of a
\* draft overlap; for any number of requests, pages and drafts.
\* (maildir_recreatemsg, maildir_closemsg, dosendmsg)
THEOREM NothingLostTheorem == Spec => []NothingLost
<1>1. StoreInv => NothingLost
      BY DEF StoreInv, DraftInv, Kept, SentOff, NothingLost
<1> QED BY <1>1, StoreTheorem, PTL

\* Sent and what sendit.sh took agree when no request is killed, even if
\* requests overlap; what is sent is the text of the page, if they do not.
\* (newmsg_createsentmsg, dosendmsg)
THEOREM SentTheorem == Spec => []SentTellsWhatWasSent
<1>1. StoreInv => SentTellsWhatWasSent
      BY DEF StoreInv, DraftInv, SentInv, LogIsThePage, Settled, CopiesKept,
             AllQuiet, SentTellsWhatWasSent
<1> QED BY <1>1, StoreTheorem, PTL

-----------------------------------------------------------------------------
(* Sums over finite sets: what SumFunction, which folds +, does when one   *)
(* weight changes.                                                         *)

\* Every set of numbers has a least element.
LEMMA LeastNumber ==
  ASSUME NEW T \in SUBSET Nat, T # {}
  PROVE  \E n \in T : \A k \in T : n <= k
<1>1. IsWellFoundedOn(OpToRel(<, Nat), Nat) BY NatLessThanWellFounded
<1>2. PICK n \in T : \A k \in T : ~ (<<k, n>> \in OpToRel(<, Nat))
      BY <1>1, WFMin
<1>3. \A k \in T : ~ (k < n) BY <1>2 DEF OpToRel
<1> QED BY <1>3

Pick(s) == CHOOSE x \in s : TRUE

\* it[s] is the sum of the weights of s, added up in the order of Pick.
AddsUp(S, w, it) ==
  /\ it \in [SUBSET S -> Int]
  /\ \A s \in SUBSET S :
       it[s] = IF s = {} THEN 0 ELSE w[Pick(s)] + it[s \ {Pick(s)}]

\* The number of elements of the parts of a finite set.
LEMMA PartSizes ==
  ASSUME NEW S, IsFiniteSet(S), NEW s \in SUBSET S
  PROVE  /\ IsFiniteSet(s) /\ Cardinality(s) \in Nat
         /\ Cardinality(s) <= Cardinality(S)
         /\ s # {} => /\ Pick(s) \in s
                      /\ s \ {Pick(s)} \in SUBSET S
                      /\ Cardinality(s \ {Pick(s)}) = Cardinality(s) - 1
<1>1. IsFiniteSet(s) /\ Cardinality(s) <= Cardinality(S) BY FS_Subset
<1>2. Cardinality(s) \in Nat BY <1>1, FS_CardinalityType
<1>3. ASSUME s # {} PROVE Pick(s) \in s BY <1>3 DEF Pick
<1> QED BY <1>1, <1>2, <1>3, FS_RemoveElement

\* Weights can be added up.
LEMMA SumExists ==
  ASSUME NEW S, IsFiniteSet(S), NEW w \in [S -> Int]
  PROVE  \E it : AddsUp(S, w, it)
<1> DEFINE Step(h, s) == IF s = {} THEN 0 ELSE w[Pick(s)] + h[s \ {Pick(s)}]
           Good(k) == \E h \in [SUBSET S -> Int] : \A s \in SUBSET S :
                        Cardinality(s) <= k => h[s] = Step(h, s)
           Bad == {k \in Nat : ~ Good(k)}
<1>1. Good(0)
  <2> DEFINE z == [s \in SUBSET S |-> 0]
  <2>1. ASSUME NEW s \in SUBSET S, Cardinality(s) <= 0 PROVE s = {}
    <3>1. IsFiniteSet(s) /\ Cardinality(s) \in Nat BY PartSizes
    <3>2. Cardinality(s) = 0 BY <2>1, <3>1
    <3> QED BY <3>1, <3>2, FS_EmptySet
  <2>2. z \in [SUBSET S -> Int] /\ \A s \in SUBSET S : z[s] = 0 OBVIOUS
  <2> HIDE DEF z
  <2> QED BY <2>1, <2>2
<1>2. ASSUME NEW k \in Nat, Good(k) PROVE Good(k + 1)
  <2>1. PICK h \in [SUBSET S -> Int] : \A s \in SUBSET S :
               Cardinality(s) <= k => h[s] = Step(h, s)
        BY <1>2
  <2> DEFINE g == [s \in SUBSET S |-> IF Cardinality(s) <= k THEN h[s] ELSE Step(h, s)]
  <2>2. ASSUME NEW s \in SUBSET S PROVE Step(h, s) \in Int
    <3>1. CASE s = {} BY <3>1
    <3>2. CASE s # {}
      <4>1. w[Pick(s)] \in Int /\ h[s \ {Pick(s)}] \in Int BY <3>2, PartSizes
      <4> QED BY <3>2, <4>1
    <3> QED BY <3>1, <3>2
  <2>3. g \in [SUBSET S -> Int] BY <2>2
  <2>4. ASSUME NEW s \in SUBSET S, Cardinality(s) <= k + 1
        PROVE  g[s] = Step(g, s)
    <3>1. g[s] = Step(h, s) BY <2>1
    <3>2. CASE s = {} BY <3>1, <3>2
    <3>3. CASE s # {}
      <4>1. s \ {Pick(s)} \in SUBSET S /\ Cardinality(s \ {Pick(s)}) <= k
            BY <2>4, <3>3, PartSizes
      <4>2. g[s \ {Pick(s)}] = h[s \ {Pick(s)}] BY <4>1
      <4> QED BY <3>1, <3>3, <4>2
    <3> QED BY <3>2, <3>3
  <2> QED BY <2>3, <2>4
<1>3. Bad = {}
  <2> SUFFICES ASSUME Bad # {} PROVE FALSE OBVIOUS
  <2>1. PICK n \in Bad : \A k \in Bad : n <= k BY LeastNumber
  <2>2. n \in Nat /\ n # 0 BY <1>1
  <2> HIDE DEF Good
  <2>3. n - 1 \in Nat /\ n - 1 \notin Bad
    <3>1. n - 1 \in Nat /\ ~ (n <= n - 1) BY <2>2
    <3> HIDE DEF Bad
    <3> QED BY <2>1, <3>1
  <2>4. Good(n - 1) BY <2>3
  <2>5. Good((n - 1) + 1) BY <1>2, <2>3, <2>4
  <2>6. (n - 1) + 1 = n OBVIOUS
  <2> QED BY <2>5, <2>6
<1>4. Cardinality(S) \in Nat BY FS_CardinalityType
<1>5. Good(Cardinality(S)) BY <1>3, <1>4
<1>6. PICK h \in [SUBSET S -> Int] : \A s \in SUBSET S :
             Cardinality(s) <= Cardinality(S) => h[s] = Step(h, s)
      BY <1>5
<1>7. AddsUp(S, w, h) BY <1>6, PartSizes DEF AddsUp
<1> QED BY <1>7

\* Changing one weight changes the sums it is part of by the difference.
LEMMA SumChanges ==
  ASSUME NEW S, IsFiniteSet(S), NEW w \in [S -> Int], NEW v \in [S -> Int],
         NEW d \in S, \A x \in S \ {d} : v[x] = w[x],
         NEW i, AddsUp(S, w, i), NEW j, AddsUp(S, v, j)
  PROVE  j[S] = i[S] + v[d] - w[d]
<1> DEFINE Differs(s) == j[s] = i[s] + IF d \in s THEN v[d] - w[d] ELSE 0
           Bad == {n \in Nat : \E s \in SUBSET S : ~ Differs(s) /\ n = Cardinality(s)}
<1>1. i \in [SUBSET S -> Int] /\ j \in [SUBSET S -> Int] BY DEF AddsUp
<1>2. Bad \subseteq Nat OBVIOUS
<1> HIDE DEF Differs
<1>3. Bad = {}
  <2> SUFFICES ASSUME Bad # {} PROVE FALSE OBVIOUS
  <2>1. PICK n \in Bad : \A k \in Bad : n <= k BY <1>2, LeastNumber
  <2>2. PICK s \in SUBSET S : ~ Differs(s) /\ n = Cardinality(s) BY <2>1
  <2>3. CASE s = {}
    <3>1. i[{}] = 0 /\ j[{}] = 0 BY DEF AddsUp
    <3> QED BY <2>2, <2>3, <3>1 DEF Differs
  <2>4. CASE s # {}
    <3> DEFINE x == Pick(s)
    <3>1. /\ x \in s /\ s \ {x} \in SUBSET S
          /\ Cardinality(s \ {x}) = Cardinality(s) - 1 /\ Cardinality(s) \in Nat
          BY <2>4, PartSizes
    <3>2. Differs(s \ {x})
      <4> SUFFICES ASSUME ~ Differs(s \ {x}) PROVE FALSE OBVIOUS
      <4>0. Cardinality(s \ {x}) \in Nat BY <3>1, PartSizes
      <4>1. Cardinality(s \ {x}) \in Bad BY <3>1, <4>0
      <4>2. n <= Cardinality(s \ {x}) BY <2>1, <4>1
      <4> QED BY <2>2, <3>1, <4>2
    <3>3. i[s] = w[x] + i[s \ {x}] /\ j[s] = v[x] + j[s \ {x}]
          BY <2>4 DEF AddsUp
    <3> HIDE DEF x
    <3>4. /\ i[s \ {x}] \in Int /\ j[s \ {x}] \in Int
          /\ w[x] \in Int /\ v[x] \in Int /\ w[d] \in Int /\ v[d] \in Int
          BY <1>1, <3>1
    <3>5. CASE x = d
      <4>1. j[s] = i[s] + (v[d] - w[d])
            BY <3>1, <3>2, <3>3, <3>4, <3>5 DEF Differs
      <4> QED BY <2>2, <3>1, <3>5, <4>1 DEF Differs
    <3>6. CASE x # d
      <4>1. v[x] = w[x] /\ (d \in s <=> d \in s \ {x}) BY <3>1, <3>6
      <4> QED BY <2>2, <3>1, <3>2, <3>3, <3>4, <4>1 DEF Differs
    <3> QED BY <3>5, <3>6
  <2> QED BY <2>3, <2>4
<1>4. Differs(S)
  <2>1. Cardinality(S) \in Nat /\ S \in SUBSET S BY FS_CardinalityType
  <2> QED BY <1>3, <2>1
<1>5. i[S] \in Int /\ j[S] \in Int /\ w[d] \in Int /\ v[d] \in Int BY <1>1
<1> QED BY <1>4, <1>5 DEF Differs

\* SumFunction adds up.
LEMMA SumIs ==
  ASSUME NEW S, IsFiniteSet(S), NEW w \in [S -> Int]
  PROVE  \E it : AddsUp(S, w, it) /\ SumFunction(w) = it[S]
<1> DEFINE Adds(it) == it = [s \in SUBSET S |->
             IF s = {} THEN 0
             ELSE w[CHOOSE x \in s : TRUE] + it[s \ {CHOOSE x \in s : TRUE}]]
           It == CHOOSE it : Adds(it)
<1>1. SumFunction(w) = It[S]
      BY DEF SumFunction, SumFunctionOnSet, FoldFunctionOnSet, MapThenFoldSet
<1>2. PICK h : AddsUp(S, w, h) BY SumExists
<1>3. Adds(h)
  <2>1. h = [s \in SUBSET S |-> h[s]] BY <1>2 DEF AddsUp
  <2>2. \A s \in SUBSET S : s # {} => Pick(s) \in S BY DEF Pick
  <2>3. \A s \in SUBSET S : h[s] = IF s = {} THEN 0 ELSE w[Pick(s)] + h[s \ {Pick(s)}]
        BY <1>2, <2>2 DEF AddsUp
  <2> QED BY <2>1, <2>3 DEF Pick
<1>4. Adds(It)
  <2> HIDE DEF Adds
  <2> QED BY <1>3, Zenon
<1>5. \A s \in SUBSET S : It[s] = h[s]
  <2> DEFINE Bad == {n \in Nat : \E s \in SUBSET S : It[s] # h[s] /\ n = Cardinality(s)}
  <2>1. \A s \in SUBSET S :
          /\ It[s] = IF s = {} THEN 0 ELSE w[Pick(s)] + It[s \ {Pick(s)}]
          /\ h[s] = IF s = {} THEN 0 ELSE w[Pick(s)] + h[s \ {Pick(s)}]
    <3> HIDE DEF It
    <3> QED BY <1>3, <1>4 DEF Pick
  <2> HIDE DEF It, Adds
  <2>2. Bad = {}
    <3> SUFFICES ASSUME Bad # {} PROVE FALSE OBVIOUS
    <3>1. PICK n \in Bad : \A k \in Bad : n <= k BY LeastNumber
    <3>2. PICK s \in SUBSET S : It[s] # h[s] /\ n = Cardinality(s) BY <3>1
    <3>3. s # {} BY <2>1, <3>2
    <3>4. /\ s \ {Pick(s)} \in SUBSET S
          /\ Cardinality(s \ {Pick(s)}) = n - 1
          BY <3>2, <3>3, PartSizes
    <3>5. It[s \ {Pick(s)}] # h[s \ {Pick(s)}] BY <2>1, <3>2, <3>3
    <3>6. n - 1 \in Nat
      <4>1. Cardinality(s \ {Pick(s)}) \in Nat BY <3>4, PartSizes
      <4> QED BY <3>4, <4>1
    <3>7. n - 1 \in Bad BY <3>4, <3>5, <3>6
    <3> QED BY <3>1, <3>7
  <2> QED
    <3> SUFFICES ASSUME NEW s \in SUBSET S, It[s] # h[s] PROVE FALSE OBVIOUS
    <3>1. Cardinality(s) \in Nat BY PartSizes
    <3> QED BY <2>2, <3>1
<1> QED BY <1>1, <1>2, <1>5

\* A sum is a number, and changes with each of its terms.
LEMMA SumType ==
  ASSUME NEW S, IsFiniteSet(S), NEW w \in [S -> Int]
  PROVE  SumFunction(w) \in Int
<1>1. PICK it : AddsUp(S, w, it) /\ SumFunction(w) = it[S] BY SumIs
<1> QED BY <1>1 DEF AddsUp

LEMMA SumOfOneChange ==
  ASSUME NEW S, IsFiniteSet(S), NEW w \in [S -> Int], NEW v \in [S -> Int],
         NEW d \in S, \A x \in S \ {d} : v[x] = w[x]
  PROVE  SumFunction(v) = SumFunction(w) + v[d] - w[d]
<1>1. PICK i : AddsUp(S, w, i) /\ SumFunction(w) = i[S] BY SumIs
<1>2. PICK j : AddsUp(S, v, j) /\ SumFunction(v) = j[S] BY SumIs
<1> QED BY <1>1, <1>2, SumChanges

LEMMA SumOfNothing ==
  ASSUME NEW S, IsFiniteSet(S), NEW w \in [S -> Int], \A x \in S : w[x] = 0
  PROVE  SumFunction(w) = 0
<1>1. PICK i : AddsUp(S, w, i) /\ SumFunction(w) = i[S] BY SumIs
<1> DEFINE Bad == {n \in Nat : \E s \in SUBSET S : i[s] # 0 /\ n = Cardinality(s)}
<1>2. Bad = {}
  <2> SUFFICES ASSUME Bad # {} PROVE FALSE OBVIOUS
  <2>1. PICK n \in Bad : \A k \in Bad : n <= k BY LeastNumber
  <2>2. PICK s \in SUBSET S : i[s] # 0 /\ n = Cardinality(s) BY <2>1
  <2>3. s # {} BY <1>1, <2>2 DEF AddsUp
  <2>4. /\ Pick(s) \in s /\ s \ {Pick(s)} \in SUBSET S
        /\ Cardinality(s \ {Pick(s)}) = n - 1
        BY <2>2, <2>3, PartSizes
  <2>5. i[s] = i[s \ {Pick(s)}] /\ i[s \ {Pick(s)}] \in Int
    <3>1. i[s] = w[Pick(s)] + i[s \ {Pick(s)}] /\ i[s \ {Pick(s)}] \in Int
          BY <1>1, <2>3, <2>4 DEF AddsUp
    <3>2. w[Pick(s)] = 0 BY <2>4
    <3> QED BY <3>1, <3>2
  <2>6. n - 1 \in Nat
    <3> HIDE DEF Bad
    <3>1. Cardinality(s \ {Pick(s)}) \in Nat BY <2>4, PartSizes
    <3> QED BY <2>4, <3>1
  <2>7. n - 1 \in Bad BY <2>2, <2>4, <2>5, <2>6
  <2> QED BY <2>1, <2>7
<1>3. Cardinality(S) \in Nat /\ S \in SUBSET S BY PartSizes
<1> QED BY <1>1, <1>2, <1>3

-----------------------------------------------------------------------------
(* The balance.                                                            *)

DraftWeights == [d \in Numbers |-> Weight(d)]
CopyWeights == [n \in Numbers |-> Bytes(sent[n])]

\* maildirsize says what the drafts and the copies weigh, also while requests
\* are under way.
Balance == account = SumFunction(DraftWeights) + SumFunction(CopyWeights)
BalanceInv == calm /\ unharmed => Balance

LEMMA WeightType ==
  ASSUME TypeInv, NEW d \in Numbers
  PROVE  Weight(d) \in Nat
<1>1. CASE cur[d] = 0 BY <1>1 DEF Weight
<1>2. CASE cur[d] # 0
  <2>1. cur[d] \in Numbers BY <1>2 DEF TypeInv, TypeOK, Names, Numbers
  <2>2. File(d) \in Contents BY <2>1 DEF File, TypeInv, TypeOK
  <2> QED BY <1>2, <2>2, BytesType DEF Weight
<1> QED BY <1>1, <1>2

WeightsOK ==
  /\ account \in Int
  /\ DraftWeights \in [Numbers -> Int]
  /\ CopyWeights \in [Numbers -> Int]

LEMMA FiniteNumbers == IsFiniteSet(Numbers)
BY SubmissionAssumption, FS_Interval DEF Numbers

LEMMA WeightsType == TypeInv => WeightsOK
<1> SUFFICES ASSUME TypeInv PROVE WeightsOK OBVIOUS
<1>2. \A d \in Numbers : Weight(d) \in Int BY WeightType
<1>3. \A n \in Numbers : Bytes(sent[n]) \in Int BY BytesType DEF TypeInv, TypeOK
<1> QED BY <1>2, <1>3 DEF WeightsOK, DraftWeights, CopyWeights, TypeInv, TypeOK

LEMMA WeightsTypeNext == TypeInv' => WeightsOK'
BY WeightsType, PTL

LEMMA InitBalance == Init => BalanceInv
<1> SUFFICES ASSUME Init PROVE Balance BY DEF BalanceInv
<1>1. \A d \in Numbers : DraftWeights[d] = 0 /\ CopyWeights[d] = 0
      BY DEF Init, DraftWeights, CopyWeights, Weight, Bytes, Blank
<1>2. SumFunction(DraftWeights) = 0 /\ SumFunction(CopyWeights) = 0
      BY <1>1, InitTypes, FiniteNumbers, WeightsType, SumOfNothing DEF WeightsOK
<1> QED BY <1>2 DEF Init, Balance

\* A step that changes the weight of one draft.
LEMMA DraftBalance ==
  ASSUME TypeInv, TypeInv', Balance, NEW D \in Numbers,
         \A d \in Numbers \ {D} : Weight(d)' = Weight(d), UNCHANGED sent,
         account' = account + Weight(D)' - Weight(D)
  PROVE  Balance'
<1>1. /\ DraftWeights' \in [Numbers -> Int] /\ account' \in Int
      /\ CopyWeights' = CopyWeights
      BY WeightsTypeNext DEF WeightsOK, CopyWeights, Bytes
<1>2. /\ IsFiniteSet(Numbers) /\ account \in Int
      /\ DraftWeights \in [Numbers -> Int]
      /\ CopyWeights \in [Numbers -> Int]
      BY FiniteNumbers, WeightsType DEF WeightsOK
<1>3. \A d \in Numbers : DraftWeights'[d] = Weight(d)' /\ DraftWeights[d] = Weight(d)
      BY DEF DraftWeights
<1>4. SumFunction(DraftWeights') = SumFunction(DraftWeights) + DraftWeights'[D] - DraftWeights[D]
      BY <1>1, <1>2, <1>3, SumOfOneChange
<1>5. /\ SumFunction(DraftWeights) \in Int /\ SumFunction(CopyWeights) \in Int
      /\ Weight(D) \in Int /\ Weight(D)' \in Int
      BY <1>1, <1>2, <1>3, SumType
<1>6. account = SumFunction(DraftWeights) + SumFunction(CopyWeights) BY DEF Balance
<1>7. account' = SumFunction(DraftWeights') + SumFunction(CopyWeights')
      BY <1>1, <1>2, <1>3, <1>4, <1>5, <1>6
<1> QED BY <1>7 DEF Balance

\* A step that changes one copy.
LEMMA CopyBalance ==
  ASSUME TypeInv, TypeInv', Balance, NEW i \in Numbers,
         \A n \in Numbers \ {i} : sent'[n] = sent[n], UNCHANGED <<cur, data>>,
         account' = account + Bytes(sent[i])' - Bytes(sent[i])
  PROVE  Balance'
<1>1. /\ CopyWeights' \in [Numbers -> Int] /\ account' \in Int
      /\ DraftWeights' = DraftWeights
      BY WeightsTypeNext DEF WeightsOK, DraftWeights, Weight, File, Bytes
<1>2. /\ IsFiniteSet(Numbers) /\ account \in Int
      /\ DraftWeights \in [Numbers -> Int]
      /\ CopyWeights \in [Numbers -> Int]
      BY FiniteNumbers, WeightsType DEF WeightsOK
<1>3. \A n \in Numbers : CopyWeights'[n] = Bytes(sent[n])' /\ CopyWeights[n] = Bytes(sent[n])
      BY DEF CopyWeights
<1>4. \A n \in Numbers \ {i} : CopyWeights'[n] = CopyWeights[n]
      BY <1>3 DEF Bytes
<1>5. SumFunction(CopyWeights') = SumFunction(CopyWeights) + CopyWeights'[i] - CopyWeights[i]
      BY <1>1, <1>2, <1>4, SumOfOneChange
<1>6. /\ SumFunction(DraftWeights) \in Int /\ SumFunction(CopyWeights) \in Int
      /\ Bytes(sent[i]) \in Int /\ Bytes(sent[i])' \in Int
      BY <1>1, <1>2, <1>3, SumType
<1>7. account = SumFunction(DraftWeights) + SumFunction(CopyWeights) BY DEF Balance
<1>8. account' = SumFunction(DraftWeights') + SumFunction(CopyWeights')
      BY <1>1, <1>2, <1>3, <1>5, <1>6, <1>7
<1> QED BY <1>8 DEF Balance

\* A step that leaves every draft and every copy.
LEMMA SameBalance ==
  ASSUME Balance, \A d \in Numbers : Weight(d)' = Weight(d),
         UNCHANGED <<sent, account>>
  PROVE  Balance'
<1>1. DraftWeights' = DraftWeights /\ CopyWeights' = CopyWeights
      BY DEF DraftWeights, CopyWeights, Bytes
<1> QED BY <1>1 DEF Balance

LEMMA EditBalance ==
  ASSUME TypeInv, TypeInv', StoreInv, NEW p \in Requests, Edit(p), calm, unharmed,
         Balance
  PROVE  Balance'
<1>1. BookInv /\ DraftInv BY DEF StoreInv
<1>2. CASE UNCHANGED <<cur, data, sent, account>>
  <2>1. \A d \in Numbers : Weight(d)' = Weight(d) BY <1>2 DEF Weight, File, Bytes
  <2> QED BY <1>2, <2>1, SameBalance
<1>3. ASSUME NEW i \in Numbers, \A d \in Numbers : cur[d] # i,
             \A j \in Numbers \ {i} : data'[j] = data[j],
             UNCHANGED <<cur, sent, account>>
      PROVE  Balance'
  <2>1. \A d \in Numbers : Weight(d)' = Weight(d)
        BY <1>3 DEF Weight, File, Bytes, TypeInv, TypeOK, Names, Numbers
  <2> QED BY <1>3, <2>1, SameBalance
<1>4. CASE Open(p)
  <2> DEFINE i == Scratch(p, Draft(p))
  <2>1. /\ i \in Numbers
        /\ \A d \in Numbers : cur[d] # i
        BY <1>1, <1>4, OpenedDraft DEF BookInv, FilesApart, Unused
  <2>2. \A j \in Numbers \ {i} : data'[j] = data[j] BY <1>1, <1>4, OpenEffect
  <2>3. UNCHANGED <<cur, sent, account>> BY <1>4 DEF Open
  <2> HIDE DEF i
  <2> QED BY <1>3, <2>1, <2>2, <2>3
<1>5. CASE Write(p)
  <2>1. /\ req[p].fd \in Numbers
        /\ \A d \in Numbers : cur[d] # req[p].fd
        BY <1>1, <1>5, WriterIsAlone DEF Write
  <2>2. /\ \A j \in Numbers \ {req[p].fd} : data'[j] = data[j]
        /\ UNCHANGED <<cur, sent, account>>
        BY <1>5 DEF Write, TypeInv, TypeOK
  <2> QED BY <1>3, <2>1, <2>2
<1>6. CASE Close(p)
  <2>1. PICK D \in Numbers, i \in Numbers : D = req[p].d /\ i = req[p].fd /\ tmp[D] = i
        BY <1>1, <1>6, WriterIsAlone DEF Close
  <2>2. req[p].prev = Weight(D)
        BY <1>1, <1>6, <2>1 DEF Close, DraftInv, DraftOK, Holds
  <2>3. /\ cur' = [cur EXCEPT ![D] = i]
        /\ UNCHANGED <<data, sent>>
        /\ account' = account + Growth(p)
        BY <1>6, <2>1 DEF Close, Numbers
  <2>4. /\ \A d \in Numbers \ {D} : cur'[d] = cur[d]
        /\ cur'[D] = i /\ i # 0
        BY <2>1, <2>3 DEF TypeInv, TypeOK, Numbers
  <2>5. /\ \A d \in Numbers \ {D} : Weight(d)' = Weight(d)
        /\ Weight(D)' = Bytes(data[i])
        BY <2>3, <2>4 DEF Weight, File, Bytes
  <2>6. /\ Bytes(data[i]) \in Int /\ Weight(D) \in Int /\ account \in Int
    <3>1. data[i] \in Contents /\ account \in Int BY DEF TypeInv, TypeOK
    <3>2. Bytes(data[i]) \in Nat BY <3>1, BytesType
    <3>3. Weight(D) \in Nat BY WeightType
    <3> QED BY <3>1, <3>2, <3>3
  <2>7. account' = account + Weight(D)' - Weight(D)
        BY <2>1, <2>2, <2>3, <2>5, <2>6 DEF Growth
  <2> QED BY <2>3, <2>5, <2>7, DraftBalance
<1> QED BY <1>2, <1>4, <1>5, <1>6
        DEF Edit, OpenFails, NoChange, WriteFails, CloseRefused, drafts

LEMMA SendBalance ==
  ASSUME TypeInv, TypeInv', StoreInv, NEW p \in Requests, Send(p), calm, unharmed,
         Balance
  PROVE  Balance'
<1>1. BookInv /\ SentInv BY DEF StoreInv
<1>2. CASE UNCHANGED <<cur, data, sent, account>>
  <2>1. \A d \in Numbers : Weight(d)' = Weight(d) BY <1>2 DEF Weight, File, Bytes
  <2> QED BY <1>2, <2>1, SameBalance
<1>3. req[p].n \in Numbers
      BY DEF TypeInv, ActiveOK, Send, Copy, CopyRefused, Fork, Deliver, Purge,
             Drop, SaveToken, Unfile, Active
<1>4. CASE Copy(p)
  <2>1. /\ sent' = [sent EXCEPT ![req[p].n] = File(Subject(p))]
        /\ account' = account + Bytes(File(Subject(p)))
        /\ UNCHANGED <<cur, data>>
        BY <1>4 DEF Copy, drafts
  <2>2. Bytes(sent[req[p].n]) = 0
    <3>1. Early(p) BY <1>4 DEF Copy, Early, Midway, Taken, Active
    <3>2. sent[req[p].n].state = "none" BY <1>1, <3>1 DEF SentInv, CopyFits
    <3> QED BY <3>2 DEF Bytes
  <2>3. /\ sent'[req[p].n] = File(Subject(p))
        /\ \A j \in Numbers \ {req[p].n} : sent'[j] = sent[j]
        BY <1>3, <2>1 DEF TypeInv, TypeOK
  <2>4. /\ Bytes(sent[req[p].n])' = Bytes(File(Subject(p)))
    <3>1. UNCHANGED req BY <1>4 DEF Copy
    <3> QED BY <2>3, <3>1 DEF Bytes
  <2>5. Bytes(File(Subject(p))) \in Int
    <3>1. sent'[req[p].n] \in Contents BY <1>3 DEF TypeInv, TypeOK
    <3> QED BY <2>3, <3>1, BytesType
  <2>6. \A j \in Numbers : j = req[p].n => Bytes(sent[j])' = Bytes(File(Subject(p)))
        BY <2>3 DEF Bytes
  <2>7. account \in Int BY DEF TypeInv, TypeOK
  <2>8. PICK i \in Numbers : i = req[p].n BY <1>3
  <2>9. account' = account + Bytes(sent[i])' - Bytes(sent[i])
        BY <2>1, <2>2, <2>5, <2>6, <2>7, <2>8
  <2> QED BY <2>1, <2>3, <2>8, <2>9, CopyBalance
<1>5. CASE Purge(p) \/ Unfile(p)
  <2>1. PICK i \in Numbers : i = req[p].n BY <1>3
  <2>2. /\ sent' = [sent EXCEPT ![i] = Blank("none")]
        /\ account' = account - Bytes(sent[i])
        /\ UNCHANGED <<cur, data>>
        BY <1>5, <2>1 DEF Purge, Unfile, Unsend, drafts
  <2>3. /\ sent'[i] = Blank("none")
        /\ \A j \in Numbers \ {i} : sent'[j] = sent[j]
        BY <2>2 DEF TypeInv, TypeOK
  <2>4. Bytes(sent[i])' = 0 BY <2>3 DEF Bytes, Blank
  <2>5. Bytes(sent[i]) \in Int /\ account \in Int BY BytesType DEF TypeInv, TypeOK
  <2>6. account' = account + Bytes(sent[i])' - Bytes(sent[i])
        BY <2>2, <2>4, <2>5
  <2> QED BY <2>2, <2>3, <2>6, CopyBalance
<1>6. CASE Drop(p)
  <2>1. CASE Exists(Subject(p))
    <3>1. Active(p) BY <1>6 DEF Drop, Active
    <3>2. PICK D \in Numbers : D = Subject(p)
          BY <2>1, <3>1, SubjectType, FileType
    <3>3. /\ account' = account - Bytes(File(D))
          /\ cur' = [cur EXCEPT ![D] = 0]
          /\ cur[D] # 0
          /\ UNCHANGED <<data, sent>>
          BY <1>6, <2>1, <3>2 DEF Drop, Exists
    <3>4. /\ cur'[D] = 0 /\ \A d \in Numbers \ {D} : cur'[d] = cur[d]
          BY <3>3 DEF TypeInv, TypeOK
    <3>5. /\ Weight(D)' = 0 /\ Weight(D) = Bytes(File(D))
          /\ \A d \in Numbers \ {D} : Weight(d)' = Weight(d)
          BY <3>3, <3>4 DEF Weight, File, Bytes
    <3>6. Weight(D) \in Int /\ account \in Int BY WeightType DEF TypeInv, TypeOK
    <3>7. account' = account + Weight(D)' - Weight(D) BY <3>3, <3>5, <3>6
    <3> QED BY <3>3, <3>5, <3>7, DraftBalance
  <2>2. CASE ~Exists(Subject(p)) BY <1>2, <1>6, <2>2 DEF Drop
  <2> QED BY <2>1, <2>2
<1> QED BY <1>2, <1>4, <1>5, <1>6
        DEF Send, CopyRefused, Fork, Deliver, SaveToken, drafts

LEMMA NextBalance ==
  TypeInv /\ TypeInv' /\ StoreInv /\ BalanceInv /\ [Next]_vars => BalanceInv'
<1> SUFFICES ASSUME TypeInv, TypeInv', StoreInv, BalanceInv, [Next]_vars,
                    calm', unharmed'
             PROVE  Balance'
    BY DEF BalanceInv
<1>1. CASE UNCHANGED <<calm, unharmed, cur, data, sent, account>>
  <2>1. \A d \in Numbers : Weight(d)' = Weight(d) BY <1>1 DEF Weight, File, Bytes
  <2> QED BY <1>1, <2>1, SameBalance DEF BalanceInv
<1>2. CASE NewPage BY <1>1, <1>2 DEF NewPage, drafts, history
<1>3. ASSUME NEW p \in Requests, NEW k \in 1..MaxPages, NEW o \in Ops,
             NEW fcc \in BOOLEAN, Start(p, k, o, fcc)
      PROVE  Balance'
  <2>1. calm /\ UNCHANGED <<unharmed, cur, data, sent, account>>
        BY <1>3 DEF Start, drafts
  <2>2. Balance BY <2>1 DEF BalanceInv
  <2>3. \A d \in Numbers : Weight(d)' = Weight(d) BY <2>1 DEF Weight, File, Bytes
  <2> QED BY <2>1, <2>2, <2>3, SameBalance
<1>4. ASSUME NEW p \in Requests, Check(p)
      PROVE  Balance'
      BY <1>1, <1>4 DEF Check, drafts, history
<1>5. ASSUME NEW p \in Requests, Edit(p)
      PROVE  Balance'
  <2>1. UNCHANGED <<calm, unharmed>>
        BY <1>5 DEF Edit, Open, OpenFails, NoChange, Write, WriteFails, Close,
                    CloseRefused, history
  <2> QED BY <1>5, <2>1, EditBalance DEF BalanceInv
<1>6. ASSUME NEW p \in Requests, Send(p)
      PROVE  Balance'
  <2>1. UNCHANGED <<calm, unharmed>>
        BY <1>6 DEF Send, Copy, CopyRefused, Fork, Deliver, Purge, Drop,
                    SaveToken, Unfile, history
  <2> QED BY <1>6, <2>1, SendBalance DEF BalanceInv
<1>7. ASSUME NEW p \in Requests, Crash(p)
      PROVE  FALSE
      BY <1>7 DEF Crash
<1>8. CASE UNCHANGED vars BY <1>1, <1>8 DEF vars, drafts, history
<1> QED BY <1>2, <1>3, <1>4, <1>5, <1>6, <1>7, <1>8 DEF Next

\* Drafts and Sent weigh what maildirsize says when everything is done, as
\* long as no two requests of a page or of a draft overlap and none is killed;
\* for any number of requests, pages and drafts, and any sizes.
\* (maildir_closemsg, dosendmsg, maildir_msgpurgefile)
THEOREM LedgerTheorem == Spec => []SubmissionLedger
<1>1. Init => BalanceInv BY InitBalance
<1>2. BalanceInv => SubmissionLedger
      BY DEF BalanceInv, Balance, DraftWeights, CopyWeights, Weight,
             SubmissionLedger
<1>3. Spec => []TypeInv
  <2>1. Init => TypeInv BY InitTypes
  <2>2. TypeInv /\ [Next]_vars => TypeInv' BY NextType
  <2> QED BY <2>1, <2>2, PTL DEF Spec
<1> QED BY <1>1, <1>2, <1>3, NextBalance, StoreTheorem, PTL DEF Spec
=============================================================================
