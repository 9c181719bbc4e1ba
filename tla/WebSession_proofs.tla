------------------------- MODULE WebSession_proofs -------------------------
(***************************************************************************)
(* Proofs about WebSession: the types, that a logout is final, that the    *)
(* login cache keeps the entry of a session, and that a session lasts.     *)
(*                                                                         *)
(* A logout is final because no login in progress holds a token that has   *)
(* been ended, so that none can write it to IPFILE again, and because new  *)
(* tokens are new.                                                         *)
(*                                                                         *)
(* A session lasts because, of the tokens that are in IPFILE, in a login   *)
(* or in a cookie, only the newest may be that of a session without a      *)
(* reason to be lost: who truncates IPFILE overrides nobody else.          *)
(***************************************************************************)
EXTENDS WebSession, TLAPS

-----------------------------------------------------------------------------
(* Intervals.                                                              *)

\* The number of an interval is a number (create_cache_name).
LEMMA IntervalType ==
  ASSUME NEW t \in Nat
  PROVE  Interval(t) \in Nat
BY SessionAssumption DEF Interval

\* A time that is at most TimeoutHard later is in the same interval or in the
\* next (maildir_cache_purge).
LEMMA NextInterval ==
  ASSUME NEW t \in Nat, NEW n \in Nat, t + TimeoutHard >= n
  PROVE  Interval(t) + 1 >= Interval(n)
<1> DEFINE h == TimeoutHard
<1>1. h \in Nat \ {0} BY SessionAssumption
<1>2. /\ t \div h \in Nat /\ n \div h \in Nat
      /\ t = h * (t \div h) + (t % h) /\ t % h \in 0..(h - 1)
      /\ n = h * (n \div h) + (n % h) /\ n % h \in 0..(h - 1)
      BY <1>1
<1> HIDE DEF h
<1>3. ASSUME NEW a \in Nat, NEW b \in Nat, b > a + 1
      PROVE  h * b >= h * (a + 2)
      BY <1>1, <1>3
<1> QED BY <1>1, <1>2, <1>3 DEF Interval, h

-----------------------------------------------------------------------------
(* Type correctness.                                                       *)

Records ==
  [op : {"none", "page", "logout", "login"}, browser : Browsers \cup {None},
   ip : Ips \cup {Anywhere}, seen : Times, tok : Tokens \cup {0},
   time : Times, open : BOOLEAN, dead : BOOLEAN]

Busy(p) == pc[p] # "idle"

\* A process serves a browser; once it has passed the first look at IPFILE it
\* has a token.
BusyOK ==
  \A p \in Requests :
    Busy(p) => /\ req[p].browser \in Browsers
               /\ pc[p] # "loginip" => req[p].tok \in Tokens

TypeInv == TypeOK /\ BusyOK

\* What is known of the processes.
LocalOK ==
  /\ pc \in [Requests -> Steps]
  /\ req \in [Requests -> Records]
  /\ BusyOK

LEMMA BlankTypes == 0 \in Times /\ NoReq \in Records
<1>1. 0 \in Times BY SessionAssumption DEF Times
<1> QED BY <1>1 DEF NoReq, Records

\* A process that ends.
LEMMA FinishType ==
  ASSUME TypeInv, NEW p \in Requests, Finish(p)
  PROVE  LocalOK'
<1>1. /\ pc' = [pc EXCEPT ![p] = "idle"]
      /\ req' = [req EXCEPT ![p] = NoReq]
      BY DEF Finish, Goto
<1>2. req \in [Requests -> Records] BY DEF TypeInv, TypeOK, Records
<1>3. pc' \in [Requests -> Steps] /\ req' \in [Requests -> Records]
      BY <1>1, <1>2, BlankTypes DEF TypeInv, TypeOK, Steps
<1> QED BY <1>1, <1>3 DEF LocalOK, TypeInv, TypeOK, BusyOK, Busy

\* A process that goes on with another record.
LEMMA GotoType ==
  ASSUME TypeInv, NEW p \in Requests, NEW step \in Steps, NEW r \in Records,
         Goto(p, step), req' = [req EXCEPT ![p] = r],
         r.browser \in Browsers, step # "loginip" => r.tok \in Tokens
  PROVE  LocalOK'
<1>1. pc' = [pc EXCEPT ![p] = step] BY DEF Goto
<1>2. req \in [Requests -> Records] BY DEF TypeInv, TypeOK, Records
<1> QED BY <1>1, <1>2 DEF LocalOK, TypeInv, TypeOK, BusyOK, Busy

\* A process that goes on with the same record.
LEMMA StepType ==
  ASSUME TypeInv, NEW p \in Requests, NEW step \in Steps \ {"loginip"},
         Busy(p), pc[p] # "loginip", Goto(p, step), UNCHANGED req
  PROVE  LocalOK'
<1>1. pc' = [pc EXCEPT ![p] = step] BY DEF Goto
<1>2. req \in [Requests -> Records] BY DEF TypeInv, TypeOK, Records
<1> QED BY <1>1, <1>2 DEF LocalOK, TypeInv, TypeOK, BusyOK, Busy

LEMMA InitTypes == Init => TypeInv
<1> SUFFICES ASSUME Init PROVE TypeInv OBVIOUS
<1>1. LocalOK
      BY BlankTypes DEF Init, LocalOK, BusyOK, Busy, Steps
<1>2. 0 \in 0..MaxTokens /\ 0 \in 0..MaxOps BY SessionAssumption
<1> QED BY <1>1, <1>2, BlankTypes DEF Init, TypeInv, TypeOK, LocalOK, Records

LEMMA StartType ==
  ASSUME TypeInv, NEW p \in Requests, NEW b \in Browsers,
         NEW o \in {"page", "logout"}, Start(p, b, o)
  PROVE  TypeInv'
<1>1. cookie[b] \in Cookies /\ cookie[b].tok \in Tokens
      BY DEF Start, TypeInv, TypeOK, Cookies
<1> DEFINE r == [NoReq EXCEPT !.op = o, !.browser = b, !.seen = now,
                     !.tok = cookie[b].tok, !.dead = cookie[b].tok \in ended]
<1>2. r \in Records /\ r.browser = b /\ r.tok = cookie[b].tok
  <2>1. now \in Times BY DEF TypeInv, TypeOK
  <2>2. (cookie[b].tok \in ended) \in BOOLEAN OBVIOUS
  <2>3. ASSUME NEW d \in BOOLEAN
        PROVE  LET n == [NoReq EXCEPT !.op = o, !.browser = b, !.seen = now,
                                      !.tok = cookie[b].tok, !.dead = d]
               IN  n \in Records /\ n.browser = b /\ n.tok = cookie[b].tok
        BY <1>1, <2>1, BlankTypes DEF Records
  <2> QED BY <2>2, <2>3
<1>3. req' = [req EXCEPT ![p] = r] /\ Goto(p, "ip") BY DEF Start
<1> HIDE DEF r
<1>4. LocalOK' BY <1>1, <1>2, <1>3, GotoType DEF Steps
<1>5. ops' \in 0..MaxOps BY SessionAssumption DEF Start, TypeInv, TypeOK
<1> QED BY <1>4, <1>5 DEF Start, LocalOK, TypeInv, TypeOK, Records, files, history

LEMMA StartLoginType ==
  ASSUME TypeInv, NEW p \in Requests, NEW b \in Browsers, StartLogin(p, b)
  PROVE  TypeInv'
<1> DEFINE r == [NoReq EXCEPT !.op = "login", !.browser = b, !.seen = now]
<1>1. r \in Records /\ r.browser = b
  <2>1. now \in Times BY DEF TypeInv, TypeOK
  <2> QED BY <2>1, BlankTypes DEF Records
<1>2. req' = [req EXCEPT ![p] = r] /\ Goto(p, "loginip") BY DEF StartLogin
<1> HIDE DEF r
<1>3. LocalOK' BY <1>1, <1>2, GotoType DEF Steps
<1>4. ops' \in 0..MaxOps BY SessionAssumption DEF StartLogin, TypeInv, TypeOK
<1> QED BY <1>3, <1>4
        DEF StartLogin, LocalOK, TypeInv, TypeOK, Records, files, history

\* A page or a logout looks at the files.
LEMMA CheckType ==
  ASSUME TypeInv, NEW p \in Requests, CheckIp(p) \/ CheckStamp(p) \/ Refuse(p)
  PROVE  TypeInv'
<1>1. LocalOK'
  <2>1. CASE CheckIp(p) BY <2>1, StepType DEF CheckIp, Busy, Steps
  <2>2. CASE CheckStamp(p)
    <3> DEFINE r == [req[p] EXCEPT !.seen = 0]
    <3>1. /\ Goto(p, "truncstamp") /\ req' = [req EXCEPT ![p] = r]
          /\ Busy(p) /\ pc[p] = "stamp"
          BY <2>2 DEF CheckStamp, Busy
    <3>2. req[p] \in Records /\ req[p].browser \in Browsers /\ req[p].tok \in Tokens
          BY <3>1 DEF TypeInv, TypeOK, BusyOK, Records
    <3>3. r \in Records /\ r.browser = req[p].browser /\ r.tok = req[p].tok
          BY <3>2, BlankTypes DEF Records
    <3> HIDE DEF r
    <3> QED BY <3>1, <3>2, <3>3, GotoType DEF Steps
  <2>3. CASE Refuse(p) BY <2>3, FinishType DEF Refuse
  <2> QED BY <2>1, <2>2, <2>3
<1> QED BY <1>1 DEF CheckIp, CheckStamp, Refuse, LocalOK, TypeInv, TypeOK, Records,
                    files, history

\* TIMESTAMP is written.
LEMMA StampType ==
  ASSUME TypeInv, NEW p \in Requests, TruncStamp(p) \/ WriteStamp(p)
  PROVE  TypeInv'
<1>1. LocalOK'
  <2>1. CASE TruncStamp(p) BY <2>1, StepType DEF TruncStamp, Busy, Steps
  <2>2. CASE WriteStamp(p)
        BY <2>2, StepType, FinishType DEF WriteStamp, AfterStamp, Busy, Steps
  <2> QED BY <2>1, <2>2
<1>2. stamp' \in Stamps \cup {None}
  <2>1. now \in Times BY DEF TypeInv, TypeOK
  <2>2. \A w \in BOOLEAN : [whole |-> w, at |-> now] \in Stamps BY <2>1 DEF Stamps
  <2> QED BY <2>2 DEF TruncStamp, WriteStamp
<1>3. UNCHANGED <<now, ipfile, cache, addr, cookie, issued, ops, ended, lost>>
      BY DEF TruncStamp, WriteStamp, history
<1> QED BY <1>1, <1>2, <1>3 DEF LocalOK, TypeInv, TypeOK, Records

\* Tokens that were issued, at any address.
LEMMA LostTypes ==
  ASSUME TypeInv, NEW T \in SUBSET (1..issued)
  PROVE  Everywhere(T) \subseteq Tokens \X Ips
<1>1. 1..issued \subseteq Tokens BY SessionAssumption DEF TypeInv, TypeOK, Tokens
<1> QED BY <1>1 DEF Everywhere

LEMMA LogoutType ==
  ASSUME TypeInv, NEW p \in Requests, Logout(p)
  PROVE  TypeInv'
<1>1. req[p] \in Records /\ req[p].browser \in Browsers /\ req[p].tok \in Tokens
      BY DEF Logout, TypeInv, TypeOK, BusyOK, Busy, Records
<1>2. LocalOK'
  <2>1. \A q \in Requests :
          /\ Unlinked(q) \in Records
          /\ Unlinked(q).browser = req[q].browser /\ Unlinked(q).tok = req[q].tok
        BY DEF Unlinked, TypeInv, TypeOK, Records
  <2>2. req' \in [Requests -> Records] BY <2>1, BlankTypes DEF Logout
  <2>3. pc' = [pc EXCEPT ![p] = "idle"] BY DEF Logout, Goto
  <2>4. \A q \in Requests \ {p} :
          req'[q].browser = req[q].browser /\ req'[q].tok = req[q].tok
        BY <2>1 DEF Logout
  <2> QED BY <2>2, <2>3, <2>4 DEF LocalOK, TypeInv, TypeOK, BusyOK, Busy, Steps
<1>3. cookie' \in [Browsers -> Cookies \cup {None}]
      BY <1>1 DEF Logout, LoggedOut, TypeInv, TypeOK
<1>4. ended' \subseteq Tokens BY <1>1 DEF Logout, TypeInv, TypeOK
<1>5. lost' \subseteq Tokens \X Ips
  <2>1. Everywhere(1..issued) \subseteq Tokens \X Ips BY LostTypes
  <2> QED BY <2>1 DEF Logout, TypeInv, TypeOK
<1> QED BY <1>2, <1>3, <1>4, <1>5 DEF Logout, LocalOK, TypeInv, TypeOK, Records

\* The record of a process that serves a browser.
LEMMA BusyType ==
  ASSUME TypeInv, NEW p \in Requests, Busy(p)
  PROVE  /\ req[p] \in Records /\ req[p].browser \in Browsers
         /\ pc[p] # "loginip" => req[p].tok \in Tokens
         /\ From(p) \in Ips
BY DEF TypeInv, TypeOK, BusyOK, Records, From

LEMMA ChosenType ==
  ASSUME TypeInv, NEW p \in Requests, NEW t \in Tokens, Busy(p),
         Goto(p, "truncip"), Chosen(p, t)
  PROVE  LocalOK'
<1>1. PICK ip \in Ips \cup {Anywhere} :
        req' = [req EXCEPT ![p] = [req[p] EXCEPT !.tok = t, !.ip = ip, !.seen = 0]]
  <2>1. PICK i \in {From(p), Anywhere} :
          req' = [req EXCEPT ![p] = [@ EXCEPT !.tok = t, !.ip = i, !.seen = 0]]
        BY DEF Chosen
  <2> QED BY <2>1, BusyType DEF TypeInv, TypeOK
<1> DEFINE r == [req[p] EXCEPT !.tok = t, !.ip = ip, !.seen = 0]
<1>2. r \in Records /\ r.browser \in Browsers /\ r.tok = t
      BY BusyType, BlankTypes DEF Records
<1>3. req' = [req EXCEPT ![p] = r] BY <1>1
<1> HIDE DEF r
<1> QED BY <1>2, <1>3, GotoType DEF Steps

\* A session that is replaced is one that was issued.
LEMMA ReplacedType ==
  ASSUME TypeInv, NEW p \in Requests, pc[p] \in {"loginip", "loginstamp"}
  PROVE  Replaced(p) \subseteq Tokens \X Ips
<1>1. Everywhere(1..issued) \subseteq Tokens \X Ips BY LostTypes
<1>2. CASE (pc[p] = "loginip" /\ ~IpReadable) \/ (pc[p] = "loginstamp" /\ ~StampReadable)
      BY <1>1, <1>2 DEF Replaced
<1>3. CASE ~((pc[p] = "loginip" /\ ~IpReadable)
             \/ (pc[p] = "loginstamp" /\ ~StampReadable))
  <2>1. Carried(p) \subseteq Tokens \cup {0}
        BY DEF Carried, TypeInv, TypeOK
  <2>2. Outlived(p) \subseteq Tokens \cup {0}
    <3>1. CASE pc[p] = "loginip"
      <4>1. ipfile \in IpFiles BY <1>3, <3>1 DEF IpReadable, TypeInv, TypeOK
      <4>2. ipfile.tok \in Tokens \cup {0} BY <4>1 DEF IpFiles
      <4> QED BY <3>1, <4>2 DEF Outlived
    <3>2. CASE pc[p] = "loginstamp"
      <4>1. req[p].tok \in Tokens \cup {0} BY DEF TypeInv, TypeOK
      <4>2. \A f \in {ipfile} \ {None} : f.tok \in Tokens \cup {0}
            BY DEF TypeInv, TypeOK, IpFiles
      <4> QED BY <3>2, <4>1, <4>2 DEF Outlived
    <3> QED BY <3>1, <3>2
  <2>3. Replaced(p) = Everywhere((Outlived(p) \cup Carried(p)) \ {0})
        BY <1>3 DEF Replaced
  <2> QED BY <2>1, <2>2, <2>3 DEF Everywhere
<1> QED BY <1>2, <1>3

LEMMA NewTokenType ==
  ASSUME TypeInv, NEW p \in Requests, pc[p] \in {"loginip", "loginstamp"},
         NewToken(p)
  PROVE  /\ LocalOK' /\ issued' \in 0..MaxTokens /\ lost' \subseteq Tokens \X Ips
         /\ issued' = issued + 1
<1>1. issued' = issued + 1 /\ issued' \in 0..MaxTokens /\ issued + 1 \in Tokens
      BY SessionAssumption DEF NewToken, TypeInv, TypeOK, Tokens
<1>2. LocalOK' BY <1>1, ChosenType DEF NewToken, FreshToken, Busy
<1>3. lost' \subseteq Tokens \X Ips
      BY ReplacedType DEF NewToken, TypeInv, TypeOK
<1> QED BY <1>1, <1>2, <1>3

LEMMA LoginReadsType ==
  ASSUME TypeInv, NEW p \in Requests, LoginReadsIp(p) \/ LoginReadsStamp(p)
  PROVE  TypeInv'
<1>1. pc[p] \in {"loginip", "loginstamp"} /\ Busy(p)
      BY DEF LoginReadsIp, LoginReadsStamp, Busy
<1>2. LocalOK' /\ issued' \in 0..MaxTokens /\ lost' \subseteq Tokens \X Ips
  <2>1. CASE NewToken(p) BY <1>1, <2>1, NewTokenType
  <2>2. CASE LoginReadsIp(p) /\ ~NewToken(p)
    <3> DEFINE r == [req[p] EXCEPT !.tok = ipfile.tok]
    <3>1. /\ Sharable(p) /\ Goto(p, "loginstamp") /\ req' = [req EXCEPT ![p] = r]
          /\ UNCHANGED <<issued, lost>>
          BY <2>2 DEF LoginReadsIp
    <3>2. ipfile \in IpFiles /\ ipfile.tok \in Tokens
          BY <3>1 DEF Sharable, IpReadable, IpFiles, TypeInv, TypeOK
    <3>3. r \in Records /\ r.browser \in Browsers /\ r.tok \in Tokens
          BY <1>1, <3>2, BusyType DEF Records
    <3> HIDE DEF r
    <3> QED BY <3>1, <3>3, GotoType DEF Steps, TypeInv, TypeOK
  <2>3. CASE LoginReadsStamp(p) /\ ~NewToken(p)
    <3>1. /\ Chosen(p, req[p].tok) /\ Goto(p, "truncip") /\ UNCHANGED <<issued, lost>>
          /\ pc[p] = "loginstamp"
          BY <2>3 DEF LoginReadsStamp
    <3>2. req[p].tok \in Tokens BY <1>1, <3>1, BusyType
    <3> QED BY <1>1, <3>1, <3>2, ChosenType DEF TypeInv, TypeOK
  <2> QED BY <2>1, <2>2, <2>3
<1>3. UNCHANGED <<now, ipfile, stamp, cache, addr, cookie, ops, ended>>
      BY DEF LoginReadsIp, LoginReadsStamp, files
<1> QED BY <1>2, <1>3 DEF LocalOK, TypeInv, TypeOK, Records

\* IPFILE is written.
LEMMA IpWriteType ==
  ASSUME TypeInv, NEW p \in Requests, TruncIp(p) \/ WriteIp(p)
  PROVE  TypeInv'
<1>1. Busy(p) /\ pc[p] # "loginip" BY DEF TruncIp, WriteIp, Busy
<1>2. /\ req[p] \in Records /\ req[p].browser \in Browsers /\ req[p].tok \in Tokens
      /\ now \in Times
      BY <1>1, BusyType DEF TypeInv, TypeOK
<1>3. LocalOK'
  <2>1. CASE TruncIp(p)
    <3> DEFINE r == [req[p] EXCEPT !.open = TRUE]
    <3>1. r \in Records /\ r.browser \in Browsers /\ r.tok \in Tokens
          BY <1>2 DEF Records
    <3>2. req' = [req EXCEPT ![p] = r] /\ Goto(p, "writeip")
          BY <2>1 DEF TruncIp
    <3> HIDE DEF r
    <3> QED BY <3>1, <3>2, GotoType DEF Steps
  <2>2. CASE WriteIp(p)
    <3> DEFINE r == [req[p] EXCEPT !.open = FALSE, !.time = now]
    <3>1. r \in Records /\ r.browser \in Browsers /\ r.tok \in Tokens
          BY <1>2 DEF Records
    <3>2. req' = [req EXCEPT ![p] = r] /\ Goto(p, "cache")
          BY <2>2 DEF WriteIp
    <3> HIDE DEF r
    <3> QED BY <3>1, <3>2, GotoType DEF Steps
  <2> QED BY <2>1, <2>2
<1>4. ipfile' \in IpFiles \cup {None}
  <2>1. [ip |-> Anywhere, tok |-> 0, at |-> now] \in IpFiles BY <1>2 DEF IpFiles
  <2>2. [ip |-> req[p].ip, tok |-> req[p].tok, at |-> now] \in IpFiles
        BY <1>2 DEF IpFiles, Records
  <2> QED BY <2>1, <2>2 DEF TruncIp, WriteIp, TypeInv, TypeOK
<1>5. lost' \subseteq Tokens \X Ips
  <2>1. Overtaken(p) \subseteq Tokens \X Ips
    <3>1. {t \in 1..issued : t > req[p].tok} \in SUBSET (1..issued) OBVIOUS
    <3> QED BY <3>1, LostTypes DEF Overtaken
  <2>2. Pinned(p) \subseteq Tokens \X Ips BY <1>2 DEF Pinned, Everywhere
  <2> QED BY <2>1, <2>2 DEF TruncIp, WriteIp, TypeInv, TypeOK
<1>6. UNCHANGED <<now, stamp, cache, addr, cookie, issued, ops, ended>>
      BY DEF TruncIp, WriteIp
<1> QED BY <1>3, <1>4, <1>5, <1>6 DEF LocalOK, TypeInv, TypeOK, Records

LEMMA SaveCacheType ==
  ASSUME TypeInv, NEW p \in Requests, SaveCache(p)
  PROVE  TypeInv'
<1>1. LocalOK' BY StepType DEF SaveCache, Busy, Steps
<1>2. req[p].time \in Nat
      BY SessionAssumption DEF TypeInv, TypeOK, Times
<1>3. cache' \subseteq Nat BY <1>2, IntervalType DEF SaveCache, TypeInv, TypeOK
<1>4. UNCHANGED <<now, ipfile, stamp, addr, cookie, issued, ops, ended, lost>>
      BY DEF SaveCache, files, history
<1> QED BY <1>1, <1>3, <1>4 DEF LocalOK, TypeInv, TypeOK, Records

LEMMA AnswerType ==
  ASSUME TypeInv, NEW p \in Requests, Answer(p)
  PROVE  TypeInv'
<1>1. LocalOK' BY FinishType DEF Answer
<1>2. req[p] \in Records /\ req[p].tok \in Tokens
      BY BusyType DEF Answer, Busy
<1>3. [tok |-> req[p].tok, time |-> req[p].time] \in Cookies
      BY <1>2 DEF Cookies, Records
<1>4. cookie' \in [Browsers -> Cookies \cup {None}]
      BY <1>3 DEF Answer, TypeInv, TypeOK
<1>5. UNCHANGED <<now, ipfile, stamp, cache, addr, issued, ops, ended, lost>>
      BY DEF Answer, files, history
<1> QED BY <1>1, <1>4, <1>5 DEF LocalOK, TypeInv, TypeOK, Records

LEMMA CrashType ==
  ASSUME TypeInv, NEW p \in Requests, Crash(p)
  PROVE  TypeInv'
<1>1. LocalOK' BY FinishType DEF Crash
<1>2. lost' \subseteq Tokens \X Ips BY LostTypes DEF Crash, TypeInv, TypeOK
<1>3. UNCHANGED <<now, ipfile, stamp, cache, addr, cookie, issued, ops, ended>>
      BY DEF Crash, files
<1> QED BY <1>1, <1>2, <1>3 DEF LocalOK, TypeInv, TypeOK, Records

LEMMA TickType ==
  ASSUME TypeInv, Tick
  PROVE  TypeInv'
<1>1. now' \in Times BY SessionAssumption DEF Tick, TypeInv, TypeOK, Times
<1>2. UNCHANGED <<ipfile, stamp, cache, addr, cookie, pc, req, issued, ops, ended, lost>>
      BY DEF Tick, files, local, history
<1> QED BY <1>1, <1>2 DEF TypeInv, TypeOK, BusyOK, Busy

LEMMA PurgeType ==
  ASSUME TypeInv, Purge
  PROVE  TypeInv'
<1>1. cache' \subseteq Nat BY DEF Purge, Kept, TypeInv, TypeOK
<1>2. UNCHANGED <<now, ipfile, stamp, addr, cookie, pc, req, issued, ops, ended, lost>>
      BY DEF Purge, files, local, history
<1> QED BY <1>1, <1>2 DEF TypeInv, TypeOK, BusyOK, Busy

LEMMA IdleType ==
  ASSUME TypeInv, UNCHANGED vars
  PROVE  TypeInv'
BY DEF vars, files, local, history, TypeInv, TypeOK, BusyOK, Busy

LEMMA NextType ==
  ASSUME TypeInv, [Next]_vars
  PROVE  TypeInv'
<1>1. CASE \E p \in Requests, b \in Browsers :
             StartLogin(p, b) \/ \E o \in {"page", "logout"} : Start(p, b, o)
      BY <1>1, StartType, StartLoginType
<1>2. CASE \E p \in Requests : Page(p)
      BY <1>2, CheckType, StampType, LogoutType DEF Page
<1>3. CASE \E p \in Requests : Login(p)
      BY <1>3, LoginReadsType, IpWriteType, SaveCacheType, AnswerType DEF Login
<1>4. CASE \E p \in Requests : Crash(p) BY <1>4, CrashType
<1>5. CASE Tick BY <1>5, TickType
<1>6. CASE Purge BY <1>6, PurgeType
<1>7. CASE UNCHANGED vars BY <1>7, IdleType
<1> QED BY <1>1, <1>2, <1>3, <1>4, <1>5, <1>6, <1>7 DEF Next

\* Every variable of a session keeps its type: the files, the cookies and the
\* records of the processes (main2, sqconfig.c).
THEOREM SessionTypeCorrect == Spec => []TypeOK
<1>1. Init => TypeInv BY InitTypes
<1>2. TypeInv /\ [Next]_vars => TypeInv' BY NextType
<1>3. TypeInv => TypeOK BY DEF TypeInv
<1> QED BY <1>1, <1>2, <1>3, PTL DEF Spec

-----------------------------------------------------------------------------
(* A logout is final.                                                      *)

LoginSteps == {"loginip", "loginstamp", "truncip", "writeip", "cache", "answer"}

\* A process holds a token that was issued.  A login holds none that has been
\* ended.  A request that came too late has not passed IPFILE.
HoldsToken(p) ==
  Busy(p) =>
    /\ req[p].tok <= issued
    /\ req[p].op = "login" => req[p].tok \notin ended
    /\ req[p].dead => pc[p] = "ip" /\ req[p].tok \in ended
    /\ pc[p] \in LoginSteps => req[p].op = "login"
    /\ pc[p] \in {"ip", "stamp"} => req[p].op # "login"

\* IPFILE holds no token that has been ended, and no token is from the future.
FilesTell ==
  /\ \A t \in ended : t <= issued
  /\ ipfile # None => ipfile.tok <= issued /\ ipfile.tok \notin ended
  /\ \A b \in Browsers : cookie[b] # None => cookie[b].tok <= issued

TokenInv == TypeInv /\ FilesTell /\ \A p \in Requests : HoldsToken(p)

\* The types that the steps below need.
LEMMA TokenTypes ==
  ASSUME TypeInv
  PROVE  /\ issued \in Nat /\ ended \subseteq Nat \ {0}
         /\ \A p \in Requests : req[p] \in Records /\ req[p].tok \in Nat
         /\ pc \in [Requests -> Steps] /\ req \in [Requests -> Records]
         /\ cookie \in [Browsers -> Cookies \cup {None}]
<1>1. req \in [Requests -> Records] /\ \A p \in Requests : req[p] \in Records
      BY DEF TypeInv, TypeOK, Records
<1>2. \A p \in Requests : req[p].tok \in Nat
      BY <1>1, SessionAssumption DEF Records, Tokens
<1> QED BY <1>1, <1>2, SessionAssumption DEF TypeInv, TypeOK, Tokens

\* A step of p that ends no token keeps what holds of the other processes.
LEMMA OthersHold ==
  ASSUME TokenInv, NEW p \in Requests, UNCHANGED ended,
         issued' \in {issued, issued + 1},
         \A q \in Requests \ {p} : pc'[q] = pc[q] /\ req'[q] = req[q],
         HoldsToken(p)'
  PROVE  \A q \in Requests : HoldsToken(q)'
<1> SUFFICES ASSUME NEW q \in Requests \ {p} PROVE HoldsToken(q)'
    OBVIOUS
<1>1. HoldsToken(q) /\ req[q].tok \in Nat /\ issued \in Nat
      BY TokenTypes DEF TokenInv
<1> QED BY <1>1 DEF HoldsToken, Busy

\* A process that ends or goes on.
LEMMA FinishHolds ==
  ASSUME TokenInv, NEW p \in Requests, Finish(p), UNCHANGED <<issued, ended>>
  PROVE  \A q \in Requests : HoldsToken(q)'
<1>1. HoldsToken(p)'
      BY TokenTypes DEF Finish, Goto, HoldsToken, Busy, TokenInv
<1>2. \A q \in Requests \ {p} : pc'[q] = pc[q] /\ req'[q] = req[q]
      BY TokenTypes DEF Finish, Goto, TokenInv
<1> QED BY <1>1, <1>2, OthersHold

LEMMA GotoHolds ==
  ASSUME TokenInv, NEW p \in Requests, NEW step \in Steps, NEW r \in Records,
         Goto(p, step), req' = [req EXCEPT ![p] = r], UNCHANGED ended,
         issued' \in {issued, issued + 1},
         r.tok <= issued', r.op = "login" => r.tok \notin ended,
         r.dead => step = "ip" /\ r.tok \in ended,
         step \in LoginSteps => r.op = "login",
         step \in {"ip", "stamp"} => r.op # "login"
  PROVE  \A q \in Requests : HoldsToken(q)'
<1>1. pc' = [pc EXCEPT ![p] = step] BY DEF Goto
<1>2. pc'[p] = step /\ req'[p] = r BY <1>1, TokenTypes DEF TokenInv
<1>3. HoldsToken(p)' BY <1>2 DEF HoldsToken, Busy
<1>4. \A q \in Requests \ {p} : pc'[q] = pc[q] /\ req'[q] = req[q]
      BY <1>1, TokenTypes DEF TokenInv
<1> QED BY <1>3, <1>4, OthersHold

LEMMA InitHolds == Init => TokenInv
<1> SUFFICES ASSUME Init PROVE TokenInv OBVIOUS
<1>1. TypeInv BY InitTypes
<1> QED BY <1>1 DEF Init, TokenInv, FilesTell, HoldsToken, Busy

LEMMA StartHolds ==
  ASSUME TokenInv, NEW p \in Requests, NEW b \in Browsers,
         NEW o \in {"page", "logout"}, Start(p, b, o)
  PROVE  TokenInv'
<1>1. TypeInv' BY StartType DEF TokenInv
<1>2. /\ pc' = [pc EXCEPT ![p] = "ip"]
      /\ req'[p].tok = cookie[b].tok /\ req'[p].op = o
      /\ req'[p].dead = (cookie[b].tok \in ended)
      /\ \A q \in Requests \ {p} : req'[q] = req[q]
      /\ UNCHANGED <<issued, ended, ipfile, cookie>>
      BY TokenTypes DEF Start, Goto, NoReq, files, history, TokenInv
<1>3. cookie[b].tok <= issued BY DEF Start, TokenInv, FilesTell
<1>4. HoldsToken(p)'
      BY <1>2, <1>3, TokenTypes DEF HoldsToken, LoginSteps, TokenInv
<1>5. \A q \in Requests : HoldsToken(q)'
      BY <1>2, <1>4, OthersHold, TokenTypes DEF TokenInv
<1> QED BY <1>1, <1>2, <1>5 DEF TokenInv, FilesTell

LEMMA StartLoginHolds ==
  ASSUME TokenInv, NEW p \in Requests, NEW b \in Browsers, StartLogin(p, b)
  PROVE  TokenInv'
<1>1. TypeInv' BY StartLoginType DEF TokenInv
<1>2. /\ pc' = [pc EXCEPT ![p] = "loginip"]
      /\ req'[p].tok = 0 /\ req'[p].op = "login" /\ req'[p].dead = FALSE
      /\ \A q \in Requests \ {p} : req'[q] = req[q]
      /\ UNCHANGED <<issued, ended, ipfile, cookie>>
      BY TokenTypes DEF StartLogin, Goto, NoReq, files, history, TokenInv
<1>3. HoldsToken(p)' BY <1>2, TokenTypes DEF HoldsToken, TokenInv
<1>4. \A q \in Requests : HoldsToken(q)'
      BY <1>2, <1>3, OthersHold, TokenTypes DEF TokenInv
<1> QED BY <1>1, <1>2, <1>4 DEF TokenInv, FilesTell

LEMMA CheckHolds ==
  ASSUME TokenInv, NEW p \in Requests, CheckIp(p) \/ CheckStamp(p) \/ Refuse(p)
  PROVE  TokenInv'
<1>1. TypeInv' BY CheckType DEF TokenInv
<1>2. UNCHANGED <<ipfile, cookie, issued, ended>>
      BY DEF CheckIp, CheckStamp, Refuse, files, history
<1>3. \A q \in Requests : HoldsToken(q)'
  <2>1. CASE Refuse(p) BY <1>2, <2>1, FinishHolds DEF Refuse
  <2>2. CASE CheckIp(p)
    <3>1. ipfile.tok \notin ended /\ ipfile.tok = req[p].tok
          BY <2>2 DEF CheckIp, IpAccepted, IpReadable, TokenInv, FilesTell
    <3>2. HoldsToken(p) /\ pc[p] = "ip" BY <2>2 DEF CheckIp, TokenInv
    <3>3. /\ pc' = [pc EXCEPT ![p] = "stamp"] /\ UNCHANGED req
          BY <2>2 DEF CheckIp, Goto
    <3>4. HoldsToken(p)'
          BY <1>2, <3>1, <3>2, <3>3, TokenTypes
          DEF HoldsToken, Busy, LoginSteps, TokenInv
    <3> QED BY <1>2, <3>3, <3>4, OthersHold, TokenTypes DEF TokenInv
  <2>3. CASE CheckStamp(p)
    <3>1. HoldsToken(p) /\ pc[p] = "stamp" BY <2>3 DEF CheckStamp, TokenInv
    <3>2. /\ pc' = [pc EXCEPT ![p] = "truncstamp"]
          /\ req' = [req EXCEPT ![p] = [req[p] EXCEPT !.seen = 0]]
          BY <2>3 DEF CheckStamp, Goto
    <3>3. /\ req'[p].tok = req[p].tok /\ req'[p].op = req[p].op
          /\ req'[p].dead = req[p].dead /\ pc'[p] = "truncstamp"
          BY <3>2, TokenTypes DEF TokenInv, Records
    <3>4. HoldsToken(p)'
          BY <1>2, <3>1, <3>3 DEF HoldsToken, Busy, LoginSteps
    <3> QED BY <1>2, <3>2, <3>4, OthersHold, TokenTypes DEF TokenInv
  <2> QED BY <2>1, <2>2, <2>3
<1> QED BY <1>1, <1>2, <1>3 DEF TokenInv, FilesTell

LEMMA StampHolds ==
  ASSUME TokenInv, NEW p \in Requests, TruncStamp(p) \/ WriteStamp(p)
  PROVE  TokenInv'
<1>1. TypeInv' BY StampType DEF TokenInv
<1>2. UNCHANGED <<ipfile, cookie, issued, ended>>
      BY DEF TruncStamp, WriteStamp, history
<1>3. \A q \in Requests : HoldsToken(q)'
  <2>1. CASE Finish(p) BY <1>2, <2>1, FinishHolds
  <2>2. CASE ~Finish(p)
    <3>1. HoldsToken(p) /\ pc[p] \in {"truncstamp", "writestamp"}
          BY DEF TruncStamp, WriteStamp, TokenInv
    <3>2. PICK step \in {"writestamp", "answer", "unlink"} :
            /\ pc' = [pc EXCEPT ![p] = step] /\ UNCHANGED req
            /\ step = "answer" => req[p].op = "login"
          BY <2>2 DEF TruncStamp, WriteStamp, AfterStamp, Goto
    <3>3. HoldsToken(p)'
          BY <1>2, <3>1, <3>2, TokenTypes
          DEF HoldsToken, Busy, LoginSteps, TokenInv
    <3> QED BY <1>2, <3>2, <3>3, OthersHold, TokenTypes DEF TokenInv
  <2> QED BY <2>1, <2>2
<1> QED BY <1>1, <1>2, <1>3 DEF TokenInv, FilesTell

\* Logins that hold the token keep it from being ended.
LEMMA LogoutHolds ==
  ASSUME TokenInv, NEW p \in Requests, Logout(p)
  PROVE  TokenInv'
<1>1. TypeInv' BY LogoutType DEF TokenInv
<1>2. HoldsToken(p) /\ pc[p] = "unlink" BY DEF Logout, TokenInv
<1>3. FilesTell'
  <2>1. \A t \in ended' : t <= issued' BY <1>2 DEF Logout, HoldsToken, Busy, TokenInv, FilesTell
  <2>2. \A b \in Browsers : cookie'[b] # None => cookie'[b] = cookie[b]
        BY TokenTypes DEF Logout, LoggedOut, TokenInv
  <2> QED BY <2>1, <2>2 DEF Logout, TokenInv, FilesTell
<1>4. ASSUME NEW q \in Requests
      PROVE  HoldsToken(q)'
  <2>1. CASE q = p BY <2>1, TokenTypes DEF Logout, Goto, HoldsToken, Busy, TokenInv
  <2>2. CASE q # p
    <3>1. HoldsToken(q) BY DEF TokenInv
    <3>2. /\ pc'[q] = pc[q] /\ req'[q].tok = req[q].tok /\ req'[q].op = req[q].op
          /\ req'[q].dead = req[q].dead
          BY <2>2, TokenTypes DEF Logout, Goto, Unlinked, TokenInv, Records
    <3>3. ended \subseteq ended' /\ UNCHANGED issued BY DEF Logout
    <3>4. Busy(q) /\ req[q].op = "login" => req[q].tok \in Carried(p)
          BY <2>2 DEF Carried, LoggingIn, Busy
    <3>5. Busy(q) /\ req[q].op = "login" => req[q].tok \notin ended'
          BY <3>1, <3>4 DEF Logout, HoldsToken
    <3> QED BY <3>1, <3>2, <3>3, <3>5 DEF HoldsToken, Busy
  <2> QED BY <2>1, <2>2
<1> QED BY <1>1, <1>3, <1>4 DEF TokenInv

\* A login goes on with a token that has not been ended.
LEMMA ChosenHolds ==
  ASSUME TokenInv, NEW p \in Requests, NEW t \in Nat, HoldsToken(p),
         pc[p] \in {"loginip", "loginstamp"}, Goto(p, "truncip"), Chosen(p, t),
         UNCHANGED ended, issued' \in {issued, issued + 1},
         t <= issued', t \notin ended
  PROVE  \A q \in Requests : HoldsToken(q)'
<1>1. PICK ip \in {From(p), Anywhere} :
        req' = [req EXCEPT ![p] = [@ EXCEPT !.tok = t, !.ip = ip, !.seen = 0]]
      BY DEF Chosen
<1>2. /\ req'[p].tok = t /\ req'[p].op = req[p].op /\ req'[p].dead = req[p].dead
      /\ \A q \in Requests \ {p} : req'[q] = req[q]
      BY <1>1, TokenTypes DEF TokenInv, Records
<1>3. /\ pc'[p] = "truncip"
      /\ \A q \in Requests \ {p} : pc'[q] = pc[q]
      BY TokenTypes DEF Goto, TokenInv
<1>4. HoldsToken(p)' BY <1>2, <1>3 DEF HoldsToken, Busy, LoginSteps
<1> QED BY <1>2, <1>3, <1>4, OthersHold

LEMMA LoginReadsHolds ==
  ASSUME TokenInv, NEW p \in Requests, LoginReadsIp(p) \/ LoginReadsStamp(p)
  PROVE  TokenInv'
<1>1. TypeInv' BY LoginReadsType DEF TokenInv
<1>2. UNCHANGED <<ipfile, cookie, ended>>
      BY DEF LoginReadsIp, LoginReadsStamp, files
<1>3. HoldsToken(p) /\ pc[p] \in {"loginip", "loginstamp"} /\ issued \in Nat
      BY TokenTypes DEF LoginReadsIp, LoginReadsStamp, TokenInv
<1>4. (\A q \in Requests : HoldsToken(q)') /\ issued' \in {issued, issued + 1}
  <2>1. CASE NewToken(p)
    <3>1. /\ issued' = issued + 1 /\ Chosen(p, issued + 1) /\ Goto(p, "truncip")
          BY <2>1 DEF NewToken, FreshToken
    <3>2. issued + 1 \notin ended BY <1>3 DEF TokenInv, FilesTell
    <3> QED BY <1>2, <1>3, <3>1, <3>2, ChosenHolds
  <2>2. CASE LoginReadsIp(p) /\ ~NewToken(p)
    <3> DEFINE r == [req[p] EXCEPT !.tok = ipfile.tok]
    <3>1. /\ Sharable(p) /\ Goto(p, "loginstamp") /\ req' = [req EXCEPT ![p] = r]
          /\ UNCHANGED issued
          BY <2>2 DEF LoginReadsIp
    <3>2. ipfile.tok <= issued /\ ipfile.tok \notin ended
          BY <3>1 DEF Sharable, IpReadable, TokenInv, FilesTell
    <3>3. req'[p].tok = ipfile.tok /\ req'[p].op = req[p].op
          /\ req'[p].dead = req[p].dead /\ pc'[p] = "loginstamp"
          BY <3>1, TokenTypes DEF Goto, TokenInv, Records
    <3>4. HoldsToken(p)'
          BY <1>2, <1>3, <3>1, <3>2, <3>3 DEF HoldsToken, Busy, LoginSteps
    <3>5. \A q \in Requests \ {p} : pc'[q] = pc[q] /\ req'[q] = req[q]
          BY <3>1, TokenTypes DEF Goto, TokenInv
    <3> QED BY <1>2, <3>1, <3>4, <3>5, OthersHold
  <2>3. CASE LoginReadsStamp(p) /\ ~NewToken(p)
    <3>1. /\ Chosen(p, req[p].tok) /\ Goto(p, "truncip") /\ UNCHANGED issued
          BY <2>3 DEF LoginReadsStamp
    <3>2. req[p].tok \in Nat /\ req[p].tok <= issued /\ req[p].tok \notin ended
          BY <1>3, TokenTypes DEF HoldsToken, Busy, LoginSteps, TokenInv
    <3> QED BY <1>2, <1>3, <3>1, <3>2, ChosenHolds
  <2> QED BY <2>1, <2>2, <2>3
<1>5. \A t \in Nat : t <= issued => t <= issued' BY <1>3, <1>4
<1>6. FilesTell'
  <2>1. \A t \in ended : t \in Nat BY TokenTypes DEF TokenInv
  <2>2. ipfile # None => ipfile.tok \in Nat
        BY SessionAssumption DEF TokenInv, TypeInv, TypeOK, IpFiles, Tokens
  <2>3. \A b \in Browsers : cookie[b] # None => cookie[b].tok \in Nat
        BY SessionAssumption DEF TokenInv, TypeInv, TypeOK, Cookies, Tokens
  <2> QED BY <1>2, <1>5, <2>1, <2>2, <2>3 DEF TokenInv, FilesTell
<1> QED BY <1>1, <1>4, <1>6 DEF TokenInv

LEMMA IpWriteHolds ==
  ASSUME TokenInv, NEW p \in Requests, TruncIp(p) \/ WriteIp(p)
  PROVE  TokenInv'
<1>1. TypeInv' BY IpWriteType DEF TokenInv
<1>2. UNCHANGED <<cookie, issued, ended>> BY DEF TruncIp, WriteIp
<1>3. HoldsToken(p) /\ pc[p] \in {"truncip", "writeip"}
      BY DEF TruncIp, WriteIp, TokenInv
<1>4. \A q \in Requests : HoldsToken(q)'
  <2>1. /\ req'[p].tok = req[p].tok /\ req'[p].op = req[p].op
        /\ req'[p].dead = req[p].dead /\ pc'[p] \in {"writeip", "cache"}
        /\ \A q \in Requests \ {p} : pc'[q] = pc[q] /\ req'[q] = req[q]
    <3> USE TokenTypes DEF Goto, TokenInv, Records
    <3>1. CASE TruncIp(p) BY <3>1 DEF TruncIp
    <3>2. CASE WriteIp(p) BY <3>2 DEF WriteIp
    <3> QED BY <3>1, <3>2
  <2>2. HoldsToken(p)' BY <1>2, <1>3, <2>1 DEF HoldsToken, Busy, LoginSteps
  <2> QED BY <1>2, <2>1, <2>2, OthersHold
<1>5. ipfile' # None => ipfile'.tok <= issued /\ ipfile'.tok \notin ended
  <2>1. 0 <= issued /\ 0 \notin ended BY TokenTypes DEF TokenInv
  <2>2. req[p].tok <= issued /\ req[p].tok \notin ended
        BY <1>3 DEF HoldsToken, Busy, LoginSteps
  <2>3. ipfile # None => ipfile.tok <= issued /\ ipfile.tok \notin ended
        BY DEF TokenInv, FilesTell
  <2> QED BY <2>1, <2>2, <2>3 DEF TruncIp, WriteIp
<1> QED BY <1>1, <1>2, <1>4, <1>5 DEF TokenInv, FilesTell

LEMMA SaveCacheHolds ==
  ASSUME TokenInv, NEW p \in Requests, SaveCache(p)
  PROVE  TokenInv'
<1>1. TypeInv' BY SaveCacheType DEF TokenInv
<1>2. /\ pc' = [pc EXCEPT ![p] = "truncstamp"] /\ pc[p] = "cache"
      /\ UNCHANGED <<ipfile, cookie, req, issued, ended>>
      BY DEF SaveCache, Goto, files, history
<1>3. HoldsToken(p)'
      BY <1>2, TokenTypes DEF HoldsToken, Busy, LoginSteps, TokenInv
<1>4. \A q \in Requests : HoldsToken(q)'
      BY <1>2, <1>3, OthersHold, TokenTypes DEF TokenInv
<1> QED BY <1>1, <1>2, <1>4 DEF TokenInv, FilesTell

LEMMA AnswerHolds ==
  ASSUME TokenInv, NEW p \in Requests, Answer(p)
  PROVE  TokenInv'
<1>1. TypeInv' BY AnswerType DEF TokenInv
<1>2. UNCHANGED <<ipfile, issued, ended>> /\ Finish(p)
      BY DEF Answer, files, history
<1>3. \A q \in Requests : HoldsToken(q)' BY <1>2, FinishHolds
<1>4. HoldsToken(p) /\ pc[p] = "answer" BY DEF Answer, TokenInv
<1>5. \A b \in Browsers : cookie'[b] # None => cookie'[b].tok <= issued
  <2>1. req[p].tok <= issued BY <1>4 DEF HoldsToken, Busy
  <2>2. cookie' = [cookie EXCEPT ![req[p].browser] =
                     [tok |-> req[p].tok, time |-> req[p].time]]
        BY DEF Answer
  <2> QED BY <2>1, <2>2, TokenTypes DEF TokenInv, FilesTell
<1> QED BY <1>1, <1>2, <1>3, <1>5 DEF TokenInv, FilesTell

LEMMA OtherHolds ==
  ASSUME TokenInv, Tick \/ Purge \/ UNCHANGED vars \/ \E p \in Requests : Crash(p)
  PROVE  TokenInv'
<1>1. TypeInv' BY TickType, PurgeType, IdleType, CrashType DEF TokenInv
<1>2. UNCHANGED <<ipfile, cookie, issued, ended>>
      BY DEF Tick, Purge, Crash, vars, files, history
<1>3. \A q \in Requests : HoldsToken(q)'
  <2>1. CASE \E p \in Requests : Crash(p) BY <1>2, <2>1, FinishHolds DEF Crash
  <2>2. CASE Tick \/ Purge \/ UNCHANGED vars
    <3>1. UNCHANGED <<pc, req>> BY <2>2 DEF Tick, Purge, vars, local
    <3> QED BY <1>2, <3>1 DEF TokenInv, HoldsToken, Busy
  <2> QED BY <2>1, <2>2
<1> QED BY <1>1, <1>2, <1>3 DEF TokenInv, FilesTell

LEMMA NextHolds ==
  ASSUME TokenInv, [Next]_vars
  PROVE  TokenInv'
<1>1. CASE \E p \in Requests, b \in Browsers :
             StartLogin(p, b) \/ \E o \in {"page", "logout"} : Start(p, b, o)
      BY <1>1, StartHolds, StartLoginHolds
<1>2. CASE \E p \in Requests : Page(p)
      BY <1>2, CheckHolds, StampHolds, LogoutHolds DEF Page
<1>3. CASE \E p \in Requests : Login(p)
      BY <1>3, LoginReadsHolds, IpWriteHolds, SaveCacheHolds, AnswerHolds DEF Login
<1>4. CASE Tick \/ Purge \/ UNCHANGED vars \/ \E p \in Requests : Crash(p)
      BY <1>4, OtherHolds
<1> QED BY <1>1, <1>2, <1>3, <1>4 DEF Next

\* A token that a logout has taken out of IPFILE never comes back to it, but
\* for the logins that held it then, and a request with it that comes later
\* is refused (main2, output_user_form: unlink(IPFILE)).
THEOREM LogoutTheorem == Spec => []LogoutIsFinal
<1>1. Init => TokenInv BY InitHolds
<1>2. TokenInv /\ [Next]_vars => TokenInv' BY NextHolds
<1>3. TokenInv => LogoutIsFinal
      BY DEF TokenInv, FilesTell, HoldsToken, Busy, LogoutIsFinal, Accepted
<1> QED BY <1>1, <1>2, <1>3, PTL DEF Spec

-----------------------------------------------------------------------------
(* The login cache.                                                        *)

Saved(t) == t + TimeoutHard >= now => Interval(t) \in cache

\* A login that has saved its entry and not yet told the browser.
Telling(p) ==
  pc[p] \in {"truncstamp", "writestamp", "answer"} /\ req[p].op = "login"

\* The entry is there already when the login tells the browser its time.
CacheInv ==
  /\ \A p \in Requests : Telling(p) => Saved(req[p].time)
  /\ \A b \in Browsers : cookie[b] # None => Saved(cookie[b].time)

\* The clock and the purge leave what is needed.
LEMMA SavedStays ==
  ASSUME TokenInv, [Next]_vars, NEW t \in Nat, Saved(t)
  PROVE  Saved(t)'
<1> now \in Nat BY SessionAssumption DEF TokenInv, TypeInv, TypeOK, Times
<1>1. CASE Tick BY <1>1, SessionAssumption DEF Tick, Saved
<1>2. CASE Purge
  <2>1. UNCHANGED now /\ cache' = Kept BY <1>2 DEF Purge
  <2>2. t + TimeoutHard >= now => Interval(t) + 1 >= Interval(now)
        BY NextInterval
  <2> QED BY <2>1, <2>2 DEF Kept, Saved
<1>3. CASE \E p \in Requests : SaveCache(p) BY <1>3 DEF SaveCache, Saved
<1>4. CASE UNCHANGED <<now, cache>> BY <1>4 DEF Saved
<1>5. Tick \/ Purge \/ (\E p \in Requests : SaveCache(p)) \/ UNCHANGED <<now, cache>>
      BY DEF Next, vars, StartLogin, Start, Page, CheckIp, CheckStamp, Refuse,
             TruncStamp, WriteStamp, Logout, Login, LoginReadsIp, LoginReadsStamp,
             TruncIp, WriteIp, Answer, Crash
<1> QED BY <1>1, <1>2, <1>3, <1>4, <1>5

\* A step of p leaves the other processes alone, except that a logout takes
\* the name from their descriptors.
Touches(p) ==
  \A q \in Requests \ {p} :
    pc'[q] = pc[q] /\ req'[q].op = req[q].op /\ req'[q].time = req[q].time

LEMMA LeavesOthers ==
  ASSUME TokenInv, NEW p \in Requests,
         Page(p) \/ Login(p) \/ Crash(p)
         \/ \E b \in Browsers :
              StartLogin(p, b) \/ \E o \in {"page", "logout"} : Start(p, b, o)
  PROVE  Touches(p)
<1> USE TokenTypes DEF TokenInv, Goto, Finish, Touches
<1>1. CASE Page(p)
  <2>1. CASE Logout(p) BY <2>1 DEF Logout, Unlinked, Records
  <2>2. CASE ~Logout(p)
        BY <1>1, <2>2
        DEF Page, CheckIp, CheckStamp, Refuse, TruncStamp, WriteStamp, AfterStamp
  <2> QED BY <2>1, <2>2
<1>2. CASE Login(p)
      BY <1>2 DEF Login, LoginReadsIp, LoginReadsStamp, NewToken, Chosen, TruncIp,
                  WriteIp, SaveCache, Answer
<1>3. CASE Crash(p) BY <1>3 DEF Crash
<1>4. CASE \E b \in Browsers :
             StartLogin(p, b) \/ \E o \in {"page", "logout"} : Start(p, b, o)
      BY <1>4 DEF StartLogin, Start
<1> QED BY <1>1, <1>2, <1>3, <1>4

\* Only SaveCache leads a login to where it tells the browser.
LEMMA TellingFollows ==
  ASSUME TokenInv, [Next]_vars, NEW q \in Requests, Telling(q)'
  PROVE  /\ req'[q].time = req[q].time
         /\ Telling(q) \/ SaveCache(q)
<1> USE TokenTypes DEF TokenInv
<1>1. CASE UNCHANGED <<pc, req>> BY <1>1 DEF Telling
<1>2. CASE \E p \in Requests \ {q} : Touches(p)
      BY <1>2 DEF Touches, Telling
<1>3. CASE \E b \in Browsers :
             StartLogin(q, b) \/ \E o \in {"page", "logout"} : Start(q, b, o)
      BY <1>3 DEF StartLogin, Start, Goto, Telling
<1>4. CASE Page(q)
  <2>1. HoldsToken(q) OBVIOUS
  <2>2. CASE Finish(q) \/ Logout(q)
        BY <2>2 DEF Finish, Logout, Goto, Telling
  <2>3. CASE CheckIp(q) BY <2>3 DEF CheckIp, Goto, Telling
  <2>4. CASE CheckStamp(q)
        BY <2>1, <2>4 DEF CheckStamp, Goto, Telling, HoldsToken, Busy, Records
  <2>5. CASE TruncStamp(q) \/ (WriteStamp(q) /\ ~Finish(q))
        BY <2>5 DEF TruncStamp, WriteStamp, AfterStamp, Telling
  <2> QED BY <1>4, <2>2, <2>3, <2>4, <2>5 DEF Page, Refuse
<1>5. CASE Login(q)
  <2>1. CASE SaveCache(q) BY <2>1 DEF SaveCache
  <2>2. CASE ~SaveCache(q)
        BY <1>5, <2>2
        DEF Login, LoginReadsIp, LoginReadsStamp, NewToken, TruncIp, WriteIp,
            Answer, Finish, Goto, Telling
  <2> QED BY <2>1, <2>2
<1>6. CASE Crash(q) BY <1>6 DEF Crash, Finish, Goto, Telling
<1>7. Tick \/ Purge \/ UNCHANGED vars => UNCHANGED <<pc, req>>
      BY DEF Tick, Purge, vars, local
<1> QED BY <1>1, <1>2, <1>3, <1>4, <1>5, <1>6, <1>7, LeavesOthers DEF Next

\* A cookie is new only when a login tells its time.
LEMMA CookieFollows ==
  ASSUME TokenInv, [Next]_vars, NEW b \in Browsers, cookie'[b] # None
  PROVE  \/ cookie'[b] = cookie[b]
         \/ \E p \in Requests : Telling(p) /\ cookie'[b].time = req[p].time
<1> USE TokenTypes DEF TokenInv
<1>1. CASE \E p \in Requests : Answer(p)
  <2>1. PICK p \in Requests : Answer(p) BY <1>1
  <2>2. HoldsToken(p) /\ pc[p] = "answer" BY <2>1 DEF Answer
  <2>3. Telling(p) BY <2>2 DEF HoldsToken, Busy, LoginSteps, Telling
  <2>4. cookie' = [cookie EXCEPT ![req[p].browser] =
                     [tok |-> req[p].tok, time |-> req[p].time]]
        BY <2>1 DEF Answer
  <2> QED BY <2>3, <2>4
<1>2. CASE \E p \in Requests : Logout(p) BY <1>2 DEF Logout, LoggedOut
<1>3. CASE UNCHANGED cookie BY <1>3
<1>4. (\E p \in Requests : Answer(p) \/ Logout(p)) \/ UNCHANGED cookie
      BY DEF Next, vars, StartLogin, Start, Page, CheckIp, CheckStamp, Refuse,
             TruncStamp, WriteStamp, Login, LoginReadsIp, LoginReadsStamp,
             TruncIp, WriteIp, SaveCache, Crash, Tick, Purge
<1> QED BY <1>1, <1>2, <1>3, <1>4

LEMMA NextCache ==
  ASSUME TokenInv, CacheInv, [Next]_vars
  PROVE  CacheInv'
<1>1. \A p \in Requests : req[p].time \in Nat
      BY SessionAssumption DEF TokenInv, TypeInv, TypeOK, Times
<1>2. \A b \in Browsers : cookie[b] # None => cookie[b].time \in Nat
      BY SessionAssumption DEF TokenInv, TypeInv, TypeOK, Cookies, Times
<1>3. ASSUME NEW p \in Requests, Telling(p)'
      PROVE  Saved(req[p].time)'
  <2>1. req'[p].time = req[p].time /\ (Telling(p) \/ SaveCache(p))
        BY <1>3, TellingFollows
  <2>2. CASE Telling(p)
    <3>1. PICK n \in Nat : req'[p].time = n /\ Saved(n)
          BY <1>1, <2>1, <2>2 DEF CacheInv
    <3>2. Saved(n)' BY <3>1, SavedStays
    <3> QED BY <3>1, <3>2 DEF Saved
  <2>3. CASE SaveCache(p)
        BY <2>1, <2>3 DEF SaveCache, Saved, Interval
  <2> QED BY <2>1, <2>2, <2>3
<1>4. ASSUME NEW b \in Browsers, cookie'[b] # None
      PROVE  Saved(cookie[b].time)'
  <2>1. \E n \in Nat : cookie'[b].time = n /\ Saved(n)
        BY <1>1, <1>2, <1>4, CookieFollows DEF CacheInv
  <2> QED BY <2>1, SavedStays DEF Saved
<1> QED BY <1>3, <1>4 DEF CacheInv

\* The browser's cookies lead to the maildir until the hard timeout is over,
\* however the purges fall (create_cache_name, maildir_cache_purge).
THEOREM CacheTheorem == Spec => []CookieFindsCache
<1>1. Init => TokenInv /\ CacheInv
  <2> SUFFICES ASSUME Init PROVE TokenInv /\ CacheInv OBVIOUS
  <2>1. TokenInv BY InitHolds
  <2>2. CacheInv BY DEF Init, CacheInv, Telling
  <2> QED BY <2>1, <2>2
<1>2. TokenInv /\ CacheInv /\ [Next]_vars => (TokenInv /\ CacheInv)'
      BY NextHolds, NextCache
<1>3. CacheInv => CookieFindsCache BY DEF CacheInv, CookieFindsCache, Saved
<1> QED BY <1>1, <1>2, <1>3, PTL DEF Spec

-----------------------------------------------------------------------------
(* A session lasts.                                                        *)

\* A token is in IPFILE, or a login has it and may write it there.
Written(t) ==
  \/ ipfile # None /\ ipfile.tok = t
  \/ \E q \in Requests : LoggingIn(q) /\ req[q].tok = t

LostAt(t, i) == <<t, i>> \in lost

\* A browser has the session, or a login that has written IPFILE has it.
Told(t, i) == \E b \in Browsers : cookie[b] # None /\ cookie[b].tok = t /\ addr[b] = i

Done(p) == LoggingIn(p) /\ pc[p] \in {"cache", "truncstamp", "writestamp", "answer"}

Claimed(t, i) ==
  Told(t, i) \/ \E p \in Requests : Done(p) /\ req[p].tok = t /\ From(p) = i

\* Of the tokens in use only the newest is that of a session that lasts.
Newest ==
  \A t, u \in Tokens :
    Written(u) /\ t < u =>
      \A i \in Ips : Written(t) \/ Told(t, i) => LostAt(t, i)

\* IPFILE has the session, or is just being written with its token.
Named(t, i) ==
  /\ ipfile # None
  /\ \/ ipfile.tok = t /\ ipfile.ip \in {i, Anywhere}
     \/ /\ ipfile.tok = 0
        /\ \E q \in Requests : pc[q] = "writeip" /\ req[q].open /\ req[q].tok = t

Stamped == stamp # None /\ (stamp.whole \/ \E q \in Requests : pc[q] = "writestamp")

Answering(t, i) ==
  \E p \in Requests : Done(p) /\ pc[p] = "answer" /\ req[p].tok = t /\ From(p) = i

Claims ==
  \A t \in Tokens, i \in Ips :
    ~LostAt(t, i) => /\ Claimed(t, i) => Named(t, i)
                     /\ Told(t, i) \/ Answering(t, i) => Stamped

LastInv == Newest /\ Claims

\* Tokens in use were issued.
InUseIssued ==
  /\ Tokens \subseteq Nat /\ 0 \notin Tokens /\ issued \in Nat
  /\ \A t \in Tokens : Written(t) => t \in 1..issued
  /\ \A t, i : Told(t, i) => t \in 1..issued
  /\ \A t \in Tokens, i \in Ips : Claimed(t, i) => t \in 1..issued
  /\ \A p \in Requests : Busy(p) => From(p) \in Ips

LEMMA InUse == TokenInv => InUseIssued
<1> SUFFICES ASSUME TokenInv PROVE InUseIssued OBVIOUS
<1>1. /\ Tokens \subseteq Nat /\ 0 \notin Tokens /\ issued \in Nat
      BY SessionAssumption DEF Tokens, TokenInv, TypeInv, TypeOK
<1>2. \A t \in Tokens : Written(t) => t <= issued
      BY DEF Written, TokenInv, FilesTell, HoldsToken, Busy, LoggingIn
<1>3. ASSUME NEW b \in Browsers, cookie[b] # None
      PROVE  cookie[b].tok \in 1..issued
  <2>1. cookie[b].tok <= issued BY <1>3 DEF TokenInv, FilesTell
  <2>2. cookie[b].tok \in 1..MaxTokens
        BY <1>3 DEF TokenInv, TypeInv, TypeOK, Cookies, Tokens
  <2> QED BY <1>1, <2>1, <2>2, SessionAssumption
<1>4. \A p \in Requests : Busy(p) => From(p) \in Ips BY BusyType DEF TokenInv
<1>5. \A t \in Tokens : Written(t) => t \in 1..issued BY <1>1, <1>2
<1>6. \A t, i : Told(t, i) => t \in 1..issued BY <1>3 DEF Told
<1>7. \A t \in Tokens, i \in Ips : Claimed(t, i) => t \in 1..issued
      BY <1>5, <1>6 DEF Claimed, Done, Written
<1> QED BY <1>1, <1>4, <1>5, <1>6, <1>7 DEF InUseIssued

LEMMA InUseNext == TokenInv' => InUseIssued'
BY InUse, PTL

\* When every session is lost nothing is claimed.
LEMMA AllLost ==
  ASSUME TokenInv', issued' = issued, Everywhere(1..issued) \subseteq lost'
  PROVE  LastInv'
<1>1. \A t \in 1..issued, i \in Ips : LostAt(t, i)' BY DEF LostAt, Everywhere
<1>2. InUseIssued' BY InUseNext
<1>3. Newest' BY <1>1, <1>2 DEF Newest, InUseIssued
<1>4. \A t \in Tokens, i \in Ips : Answering(t, i)' => Claimed(t, i)'
      BY DEF Answering, Claimed
<1>5. Claims' BY <1>1, <1>2, <1>4 DEF Claims, InUseIssued, Claimed
<1> QED BY <1>3, <1>5 DEF LastInv

\* An older token that is claimed is that of a lost session.
LEMMA OldIsLost ==
  ASSUME TokenInv, Newest, NEW u \in Tokens, Written(u), NEW t \in Tokens, t < u,
         NEW i \in Ips, Claimed(t, i)
  PROVE  LostAt(t, i)
<1>1. Told(t, i) \/ Written(t) BY DEF Claimed, Done, Written
<1> QED BY <1>1 DEF Newest

\* Newest stays as long as no token is new.
LEMMA NewestStays ==
  ASSUME TokenInv, Newest, lost \subseteq lost',
         \A t \in Tokens : Written(t)' => Written(t),
         \A t \in Tokens, i \in Ips : Told(t, i)' => Told(t, i) \/ Written(t)
  PROVE  Newest'
BY DEF Newest, LostAt

Keeps(p) == \A q \in Requests \ {p} : pc'[q] = pc[q] /\ req'[q] = req[q]

\* A step that writes neither IPFILE nor a cookie.
LEMMA QuietLast ==
  ASSUME TokenInv, LastInv, NEW p \in Requests, Keeps(p),
         UNCHANGED <<ipfile, cookie, addr>>, lost \subseteq lost',
         pc[p] # "writeip",
         Stamped => Stamped',
         Done(p)' => /\ Done(p)
                     /\ req'[p].tok = req[p].tok /\ req'[p].browser = req[p].browser
                     /\ pc'[p] = "answer" => pc[p] = "answer" \/ Stamped'
  PROVE  Claims'
<1>1. \A t, i : Told(t, i)' => Told(t, i) BY DEF Told
<1>2. \A q \in Requests : Done(q)' =>
        Done(q) /\ req'[q].tok = req[q].tok /\ From(q)' = From(q)
        /\ (pc'[q] = "answer" => pc[q] = "answer" \/ Stamped')
      BY DEF Keeps, Done, LoggingIn, From
<1>3. \A t, i : Claimed(t, i)' => Claimed(t, i) BY <1>1, <1>2 DEF Claimed
<1>4. \A t, i : Answering(t, i)' => Answering(t, i) \/ Stamped'
      BY <1>2 DEF Answering
<1>5. \A t, i : Named(t, i) => Named(t, i)'
  <2>1. \A q \in Requests : pc[q] = "writeip" => pc'[q] = pc[q] /\ req'[q] = req[q]
        BY DEF Keeps
  <2> QED BY <2>1 DEF Named
<1>6. \A t, i : ~LostAt(t, i)' => ~LostAt(t, i) BY DEF LostAt
<1> QED BY <1>1, <1>3, <1>4, <1>5, <1>6 DEF LastInv, Claims

\* Nor does it make a token.
LEMMA PassiveLast ==
  ASSUME TokenInv, LastInv, NEW p \in Requests, Keeps(p),
         UNCHANGED <<ipfile, cookie, addr>>, lost \subseteq lost',
         pc[p] # "writeip",
         Stamped => Stamped',
         Done(p)' => /\ Done(p)
                     /\ req'[p].tok = req[p].tok /\ req'[p].browser = req[p].browser
                     /\ pc'[p] = "answer" => pc[p] = "answer" \/ Stamped',
         LoggingIn(p)' => req'[p].tok = 0 \/ Written(req'[p].tok)
  PROVE  LastInv'
<1>1. Claims' BY QuietLast
<1>2. 0 \notin Tokens BY InUse DEF InUseIssued
<1>3. ASSUME NEW t \in Tokens, Written(t)' PROVE Written(t)
  <2>1. CASE LoggingIn(p)' /\ req'[p].tok = t BY <1>2, <2>1
  <2>2. CASE ipfile # None /\ ipfile.tok = t BY <2>2 DEF Written
  <2>3. CASE \E q \in Requests \ {p} : LoggingIn(q)' /\ req'[q].tok = t
        BY <2>3 DEF Keeps, LoggingIn, Written
  <2> QED BY <1>3, <2>1, <2>2, <2>3 DEF Written
<1>4. \A t, i : Told(t, i)' => Told(t, i) BY DEF Told
<1>5. Newest' BY <1>3, <1>4, NewestStays DEF LastInv
<1> QED BY <1>1, <1>5 DEF LastInv

LEMMA StartLast ==
  ASSUME TokenInv, LastInv, NEW p \in Requests, NEW b \in Browsers,
         StartLogin(p, b) \/ \E o \in {"page", "logout"} : Start(p, b, o)
  PROVE  LastInv'
<1>1. /\ UNCHANGED <<ipfile, stamp, cookie, addr, lost>> /\ pc[p] = "idle"
      /\ pc'[p] \in {"ip", "loginip"}
      /\ LoggingIn(p)' => req'[p].tok = 0
      /\ Keeps(p)
  <2> USE TokenTypes DEF Goto, NoReq, files, history, TokenInv, Keeps, LoggingIn
  <2>1. CASE StartLogin(p, b) BY <2>1 DEF StartLogin
  <2>2. ASSUME NEW o \in {"page", "logout"}, Start(p, b, o)
        PROVE  /\ UNCHANGED <<ipfile, stamp, cookie, addr, lost>> /\ pc[p] = "idle"
               /\ pc'[p] \in {"ip", "loginip"}
               /\ LoggingIn(p)' => req'[p].tok = 0
               /\ Keeps(p)
    <3>1. /\ pc' = [pc EXCEPT ![p] = "ip"] /\ pc[p] = "idle"
          /\ req'[p].op = o
          /\ \A q \in Requests \ {p} : req'[q] = req[q]
          /\ UNCHANGED <<ipfile, stamp, cookie, addr, lost>>
          BY <2>2 DEF Start
    <3>2. pc'[p] = "ip" /\ \A q \in Requests \ {p} : pc'[q] = pc[q] BY <3>1
    <3>3. ~LoggingIn(p)' BY <3>1 DEF LoggingIn
    <3> QED BY <3>1, <3>2, <3>3
  <2> QED BY <2>1, <2>2
<1>2. Stamped => Stamped' BY <1>1 DEF Stamped, Keeps
<1>3. ~Done(p)' BY <1>1 DEF Done
<1> QED BY <1>1, <1>2, <1>3, PassiveLast

\* A process that ends: what it wrote last stays.
LEMMA FinishLast ==
  ASSUME TokenInv, LastInv, NEW p \in Requests, Finish(p),
         UNCHANGED <<ipfile, cookie, addr, lost>>, pc[p] # "writeip",
         Stamped => Stamped'
  PROVE  LastInv'
<1>1. pc'[p] = "idle" /\ Keeps(p)
      BY TokenTypes DEF Finish, Goto, TokenInv, Keeps
<1>2. ~Done(p)' /\ ~LoggingIn(p)' BY <1>1 DEF Done, LoggingIn
<1> QED BY <1>1, <1>2, PassiveLast

\* A process that goes on with its token.
LEMMA GoesOnLast ==
  ASSUME TokenInv, LastInv, NEW p \in Requests, Keeps(p),
         UNCHANGED <<ipfile, cookie, addr, lost>>, pc[p] # "writeip", Busy(p),
         Stamped => Stamped',
         req'[p].tok = req[p].tok, req'[p].browser = req[p].browser,
         req'[p].op = req[p].op,
         Done(p)' => Done(p) /\ (pc'[p] = "answer" => pc[p] = "answer" \/ Stamped')
  PROVE  LastInv'
<1>1. LoggingIn(p)' => LoggingIn(p) BY DEF LoggingIn, Busy
<1>2. LoggingIn(p)' => req'[p].tok = 0 \/ Written(req'[p].tok)
      BY <1>1 DEF Written
<1> QED BY <1>2, PassiveLast

LEMMA StampNotNone ==
  ASSUME TokenInv
  PROVE  /\ [whole |-> FALSE, at |-> now] # None
         /\ [whole |-> TRUE, at |-> now] # None
<1>1. now \in Times BY DEF TokenInv, TypeInv, TypeOK
<1>2. \A w \in BOOLEAN : [whole |-> w, at |-> now] \in Stamps BY <1>1 DEF Stamps
<1>3. [whole |-> FALSE, at |-> now] \in Stamps /\ [whole |-> TRUE, at |-> now] \in Stamps
      BY <1>2
<1> QED BY <1>3, NoneAssumption

LEMMA PageLast ==
  ASSUME TokenInv, TokenInv', LastInv, NEW p \in Requests, Page(p)
  PROVE  LastInv'
<1>1. CASE CheckIp(p)
  <2>1. /\ UNCHANGED <<ipfile, stamp, cookie, addr, lost, req>> /\ pc[p] = "ip"
        /\ pc' = [pc EXCEPT ![p] = "stamp"]
        BY <1>1 DEF CheckIp, Goto, files, history
  <2>2. Keeps(p) /\ pc'[p] = "stamp" /\ (Stamped => Stamped')
        BY <2>1, TokenTypes DEF Keeps, TokenInv, Stamped
  <2> QED BY <2>1, <2>2, GoesOnLast DEF Busy, Done
<1>2. CASE CheckStamp(p)
  <2>1. /\ UNCHANGED <<ipfile, stamp, cookie, addr, lost>> /\ pc[p] = "stamp"
        /\ pc' = [pc EXCEPT ![p] = "truncstamp"]
        /\ req' = [req EXCEPT ![p] = [req[p] EXCEPT !.seen = 0]]
        BY <1>2 DEF CheckStamp, Goto, files, history
  <2>2. /\ Keeps(p) /\ pc'[p] = "truncstamp" /\ (Stamped => Stamped')
        /\ req'[p].tok = req[p].tok /\ req'[p].browser = req[p].browser
        /\ req'[p].op = req[p].op
        BY <2>1, TokenTypes DEF Keeps, TokenInv, Stamped, Records
  <2>3. req[p].op # "login" BY <2>1 DEF TokenInv, HoldsToken, Busy
  <2> QED BY <2>1, <2>2, <2>3, GoesOnLast DEF Busy, Done, LoggingIn
<1>3. CASE Refuse(p)
  <2>1. /\ UNCHANGED <<ipfile, stamp, cookie, addr, lost>> /\ Finish(p)
        /\ pc[p] \in {"ip", "stamp"}
        BY <1>3 DEF Refuse, files, history
  <2>2. Stamped => Stamped'
        BY <2>1, TokenTypes DEF Finish, Goto, Stamped, TokenInv
  <2> QED BY <2>1, <2>2, FinishLast
<1>4. CASE TruncStamp(p)
  <2>1. /\ UNCHANGED <<ipfile, cookie, addr, lost, req>> /\ pc[p] = "truncstamp"
        /\ pc' = [pc EXCEPT ![p] = "writestamp"]
        /\ stamp' # None
        BY <1>4, StampNotNone DEF TruncStamp, Goto, history
  <2>2. Keeps(p) /\ pc'[p] = "writestamp"
        BY <2>1, TokenTypes DEF Keeps, TokenInv
  <2>3. Stamped' BY <2>1, <2>2 DEF Stamped
  <2> QED BY <2>1, <2>2, <2>3, GoesOnLast DEF Busy, Done, LoggingIn
<1>5. CASE WriteStamp(p)
  <2>1. /\ UNCHANGED <<ipfile, cookie, addr, lost>> /\ pc[p] = "writestamp"
        /\ stamp' # None /\ stamp'.whole /\ AfterStamp(p)
        BY <1>5, StampNotNone DEF WriteStamp, history
  <2>2. Stamped' BY <2>1 DEF Stamped
  <2>3. CASE Finish(p) BY <2>1, <2>2, <2>3, FinishLast
  <2>4. CASE ~Finish(p)
    <3>1. /\ UNCHANGED req
          /\ \/ Goto(p, "answer") /\ req[p].op = "login"
             \/ Goto(p, "unlink")
          BY <2>1, <2>4 DEF AfterStamp
    <3>2. Keeps(p) /\ pc'[p] \in {"answer", "unlink"}
          BY <3>1, TokenTypes DEF Goto, Keeps, TokenInv
    <3>3. Done(p)' => Done(p) BY <2>1, <3>1, <3>2 DEF Done, LoggingIn
    <3> QED BY <2>1, <2>2, <3>1, <3>2, <3>3, GoesOnLast DEF Busy
  <2> QED BY <2>3, <2>4
<1>6. CASE Logout(p)
      BY <1>6, AllLost DEF Logout
<1> QED BY <1>1, <1>2, <1>3, <1>4, <1>5, <1>6 DEF Page

\* A login that finds a session to share, or makes another.
LEMMA LoginReadsLast ==
  ASSUME TokenInv, LastInv, NEW p \in Requests, LoginReadsIp(p) \/ LoginReadsStamp(p)
  PROVE  LastInv'
<1>1. /\ UNCHANGED <<ipfile, stamp, cookie, addr>> /\ lost \subseteq lost'
      /\ pc[p] \in {"loginip", "loginstamp"} /\ LoggingIn(p) /\ Busy(p)
      /\ pc'[p] \in {"loginstamp", "truncip"}
      /\ \A q \in Requests \ {p} : pc'[q] = pc[q]
  <2>1. /\ pc[p] \in {"loginip", "loginstamp"} /\ Busy(p) /\ LoggingIn(p)
        BY DEF LoginReadsIp, LoginReadsStamp, LoggingIn, TokenInv, HoldsToken, Busy,
               LoginSteps
  <2>2. Goto(p, "loginstamp") \/ Goto(p, "truncip")
        BY DEF LoginReadsIp, LoginReadsStamp, NewToken
  <2> QED BY <2>1, <2>2, TokenTypes
          DEF LoginReadsIp, LoginReadsStamp, NewToken, Goto, files, TokenInv
<1>2. \A q \in Requests \ {p} : req'[q] = req[q]
      BY TokenTypes
      DEF LoginReadsIp, LoginReadsStamp, NewToken, Chosen, TokenInv
<1>3. Keeps(p) BY <1>1, <1>2 DEF Keeps
<1>4. (Stamped => Stamped') /\ ~Done(p)' BY <1>1, <1>3 DEF Stamped, Keeps, Done
<1>5. CASE ~NewToken(p)
  <2>1. req'[p].tok = 0 \/ Written(req'[p].tok)
    <3>1. CASE LoginReadsIp(p)
      <4>1. Sharable(p) /\ req' = [req EXCEPT ![p].tok = ipfile.tok]
            BY <1>5, <3>1 DEF LoginReadsIp
      <4>2. req'[p].tok = ipfile.tok BY <4>1, TokenTypes DEF TokenInv, Records
      <4> QED BY <4>1, <4>2 DEF Sharable, IpReadable, Written
    <3>2. CASE LoginReadsStamp(p)
      <4>1. PICK ip \in {From(p), Anywhere} :
              req' = [req EXCEPT ![p] = [@ EXCEPT !.tok = req[p].tok, !.ip = ip, !.seen = 0]]
            BY <1>5, <3>2 DEF LoginReadsStamp, Chosen
      <4>2. req'[p].tok = req[p].tok BY <4>1, TokenTypes DEF TokenInv, Records
      <4> QED BY <1>1, <4>2 DEF Written
    <3> QED BY <3>1, <3>2
  <2> QED BY <1>1, <1>3, <1>4, <2>1, PassiveLast
<1>6. CASE NewToken(p)
  <2>1. Claims' BY <1>1, <1>3, <1>4, QuietLast
  <2>2. /\ issued + 1 \in Tokens /\ issued \in Nat
        /\ Tokens \subseteq Nat /\ 0 \notin Tokens
        /\ \A t \in Tokens : Written(t) => t \in 1..issued
        /\ \A t, i : Told(t, i) => t \in 1..issued
        /\ req'[p].tok = issued + 1
        /\ lost' = lost \cup Replaced(p)
    <3>1. PICK ip \in {From(p), Anywhere} :
            req' = [req EXCEPT ![p] = [@ EXCEPT !.tok = issued + 1, !.ip = ip, !.seen = 0]]
          BY <1>6 DEF NewToken, Chosen, FreshToken
    <3>2. req'[p].tok = issued + 1 BY <3>1, TokenTypes DEF TokenInv, Records
    <3>3. issued + 1 \in Tokens
          BY <1>6, SessionAssumption DEF NewToken, TokenInv, TypeInv, TypeOK, Tokens
    <3> QED BY <1>6, <3>2, <3>3, InUse DEF InUseIssued, NewToken
  <2>3. ASSUME NEW t \in Tokens, Written(t)' PROVE t = issued + 1 \/ Written(t)
    <3>1. CASE ipfile # None /\ ipfile.tok = t BY <3>1 DEF Written
    <3>2. CASE \E q \in Requests \ {p} : LoggingIn(q)' /\ req'[q].tok = t
          BY <1>3, <3>2 DEF Keeps, LoggingIn, Written
    <3>3. CASE req'[p].tok = t BY <2>2, <3>3
    <3> QED BY <1>1, <2>3, <3>1, <3>2, <3>3 DEF Written
  \* What is in use beside the token of p is lost.
  <2>4. ASSUME NEW t \in Tokens, NEW i \in Ips, t \in 1..issued,
               \/ ipfile # None /\ ipfile.tok = t
               \/ \E q \in Requests \ {p} : LoggingIn(q) /\ req[q].tok = t
        PROVE  LostAt(t, i)'
    <3>1. CASE Replaced(p) = Everywhere(1..issued)
          BY <2>2, <2>4, <3>1 DEF LostAt, Everywhere
    <3>2. CASE Replaced(p) # Everywhere(1..issued)
      <4>1. /\ Replaced(p) = Everywhere((Outlived(p) \cup Carried(p)) \ {0})
            /\ pc[p] = "loginip" => IpReadable
            /\ pc[p] = "loginstamp" => StampReadable
            BY <3>2 DEF Replaced
      <4>2. ipfile # None /\ ipfile.tok = t => t \in Outlived(p)
        <5>1. CASE pc[p] = "loginip"
          <6>1. ~Sharable(p)
                BY <1>6, <5>1, <1>1 DEF LoginReadsIp, LoginReadsStamp, NewToken, Goto
          <6> QED BY <4>1, <5>1, <6>1 DEF Sharable, Outlived
        <5>2. CASE pc[p] = "loginstamp"
          <6>1. ~StampAccepted(p)
                BY <1>6, <2>2, <5>2 DEF LoginReadsIp, LoginReadsStamp, NewToken
          <6> QED BY <4>1, <5>2, <6>1 DEF StampAccepted, Outlived
        <5> QED BY <1>1, <5>1, <5>2
      <4>3. (\E q \in Requests \ {p} : LoggingIn(q) /\ req[q].tok = t) => t \in Carried(p)
            BY DEF Carried
      <4>4. t \in (Outlived(p) \cup Carried(p)) \ {0} BY <2>2, <2>4, <4>2, <4>3
      <4> QED BY <2>2, <4>1, <4>4 DEF LostAt, Everywhere
    <3> QED BY <3>1, <3>2
  <2>5. ASSUME NEW t \in Tokens, NEW i \in Ips, Told(t, i)
        PROVE  LostAt(t, i)'
    <3> SUFFICES ASSUME ~LostAt(t, i)' PROVE FALSE OBVIOUS
    <3>1. ~LostAt(t, i) BY <1>1 DEF LostAt
    <3>2. Named(t, i) BY <2>5, <3>1 DEF LastInv, Claims, Claimed
    <3>3. CASE ipfile.tok = t BY <2>2, <2>4, <2>5, <3>2, <3>3 DEF Named
    <3>4. CASE ipfile.tok # t
      <4>1. PICK q \in Requests : pc[q] = "writeip" /\ req[q].tok = t
            BY <3>2, <3>4 DEF Named
      <4>2. LoggingIn(q) /\ q # p
            BY <1>1, <4>1 DEF TokenInv, HoldsToken, LoginSteps, LoggingIn, Busy
      <4> QED BY <2>2, <2>4, <2>5, <4>1, <4>2
    <3> QED BY <3>3, <3>4
  <2>6. Newest'
    <3> SUFFICES ASSUME NEW t \in Tokens, NEW u \in Tokens, Written(u)', t < u,
                        NEW i \in Ips, Written(t)' \/ Told(t, i)'
                 PROVE  LostAt(t, i)'
        BY DEF Newest
    <3>1. Told(t, i)' => Told(t, i) BY <1>1 DEF Told
    <3>2. CASE u # issued + 1
      <4>1. Written(u) /\ u \in 1..issued BY <2>2, <2>3, <3>2
      <4>2. t # issued + 1 BY <2>2, <4>1
      <4>3. Written(t) \/ Told(t, i) BY <2>3, <3>1, <4>2
      <4> QED BY <1>1, <4>1, <4>3 DEF LastInv, Newest, LostAt
    <3>3. CASE u = issued + 1
      <4>1. CASE Told(t, i)' BY <2>5, <3>1, <4>1
      <4>2. CASE Written(t)'
        <5>1. t # issued + 1 /\ t \in 1..issued BY <2>2, <2>3, <3>3, <4>2
        <5>2. \/ ipfile # None /\ ipfile.tok = t
              \/ \E q \in Requests \ {p} : LoggingIn(q) /\ req[q].tok = t
              BY <1>1, <1>3, <2>2, <4>2, <5>1 DEF Written, Keeps, LoggingIn
        <5> QED BY <2>4, <5>1, <5>2
      <4> QED BY <4>1, <4>2
    <3> QED BY <3>2, <3>3
  <2> QED BY <2>1, <2>6 DEF LastInv
<1> QED BY <1>5, <1>6

\* The file is truncated: whoever claims another token has lost it.
LEMMA TruncIpLast ==
  ASSUME TokenInv, LastInv, NEW p \in Requests, TruncIp(p)
  PROVE  LastInv'
<1>1. /\ pc[p] = "truncip" /\ pc'[p] = "writeip"
      /\ req'[p].tok = req[p].tok /\ req'[p].open /\ req'[p].op = req[p].op
      /\ Keeps(p)
      BY TokenTypes DEF TruncIp, Goto, TokenInv, Records, Keeps
<1>2. /\ ipfile' = [ip |-> Anywhere, tok |-> 0, at |-> now]
      /\ lost' = lost \cup Overtaken(p)
      /\ UNCHANGED <<stamp, cookie, addr, issued>>
      BY DEF TruncIp
<1>3. ipfile' # None
  <2>1. now \in Times BY DEF TokenInv, TypeInv, TypeOK
  <2>2. ipfile' \in IpFiles BY <1>2, <2>1 DEF IpFiles
  <2> QED BY <2>2, NoneAssumption
<1>4. PICK s \in Tokens : s = req[p].tok
      BY <1>1, BusyType DEF TokenInv, Busy
<1>5. /\ Tokens \subseteq Nat /\ 0 \notin Tokens
      /\ \A t \in Tokens, i \in Ips : Claimed(t, i) => t \in 1..issued
      BY InUse DEF InUseIssued
<1>6. LoggingIn(p) /\ Written(s)
      BY <1>1, <1>4 DEF TokenInv, HoldsToken, Busy, LoginSteps, LoggingIn, Written
<1>7. \A t \in Tokens : Written(t)' => Written(t)
      BY <1>1, <1>2, <1>5, <1>6 DEF Written, Keeps, LoggingIn
<1>8. \A t, i : /\ Told(t, i)' => Told(t, i)
                /\ Claimed(t, i)' => Claimed(t, i)
                /\ Answering(t, i)' => Answering(t, i)
      BY <1>1, <1>2 DEF Told, Claimed, Answering, Done, LoggingIn, From, Keeps
<1>9. Newest' BY <1>2, <1>7, <1>8, NewestStays DEF LastInv
<1>10. Claims'
  <2> SUFFICES ASSUME NEW t \in Tokens, NEW i \in Ips, ~LostAt(t, i)'
               PROVE  /\ Claimed(t, i)' => Named(t, i)'
                      /\ Told(t, i)' \/ Answering(t, i)' => Stamped'
      BY DEF Claims
  <2>1. ~LostAt(t, i) BY <1>2 DEF LostAt
  <2>2. ASSUME Claimed(t, i) PROVE t = s
    <3>1. ~(t < s) BY <1>4, <1>6, <2>1, <2>2, OldIsLost DEF LastInv
    <3>2. ~(t > s) BY <1>2, <1>4, <1>5, <2>2 DEF LostAt, Overtaken, Everywhere
    <3> QED BY <1>5, <3>1, <3>2
  <2>3. Named(s, i)' BY <1>1, <1>2, <1>3, <1>4 DEF Named
  <2>4. Stamped => Stamped' BY <1>1, <1>2 DEF Stamped, Keeps
  <2> QED BY <1>8, <2>1, <2>2, <2>3, <2>4 DEF LastInv, Claims
<1> QED BY <1>9, <1>10 DEF LastInv

\* The file is written, if it still has its name.
LEMMA WriteIpLast ==
  ASSUME TokenInv, LastInv, NEW p \in Requests, WriteIp(p)
  PROVE  LastInv'
<1>1. /\ pc[p] = "writeip" /\ pc'[p] = "cache"
      /\ req'[p].tok = req[p].tok /\ req'[p].op = req[p].op
      /\ req'[p].browser = req[p].browser
      /\ Keeps(p)
      BY TokenTypes DEF WriteIp, Goto, TokenInv, Records, Keeps
<1>2. /\ ipfile' = IF req[p].open
                   THEN [ip |-> req[p].ip, tok |-> req[p].tok, at |-> now]
                   ELSE ipfile
      /\ lost' = lost \cup Overtaken(p) \cup Pinned(p)
      /\ UNCHANGED <<stamp, cookie, addr, issued>>
      BY DEF WriteIp
<1>3. req[p].open => ipfile' # None /\ ipfile'.tok = req[p].tok /\ ipfile'.ip = req[p].ip
  <2>1. /\ now \in Times /\ req[p].ip \in Ips \cup {Anywhere}
        /\ req[p].tok \in Tokens \cup {0}
        BY DEF TokenInv, TypeInv, TypeOK
  <2>2. [ip |-> req[p].ip, tok |-> req[p].tok, at |-> now] \in IpFiles
        BY <2>1 DEF IpFiles
  <2> QED BY <1>2, <2>2, NoneAssumption
<1>4. PICK s \in Tokens : s = req[p].tok
      BY <1>1, BusyType DEF TokenInv, Busy
<1>5. /\ Tokens \subseteq Nat /\ 0 \notin Tokens
      /\ \A t \in Tokens, i \in Ips : Claimed(t, i) => t \in 1..issued
      BY InUse DEF InUseIssued
<1>6. LoggingIn(p) /\ Written(s)
      BY <1>1, <1>4 DEF TokenInv, HoldsToken, Busy, LoginSteps, LoggingIn, Written
<1>7. \A t \in Tokens : Written(t)' => Written(t)
      BY <1>1, <1>2, <1>3, <1>4, <1>6 DEF Written, Keeps, LoggingIn
<1>8. \A t, i : /\ Told(t, i)' => Told(t, i)
                /\ Claimed(t, i)' => Claimed(t, i) \/ t = s
                /\ Answering(t, i)' => Answering(t, i)
      BY <1>1, <1>2, <1>4 DEF Told, Claimed, Answering, Done, LoggingIn, From, Keeps
<1>9. Newest' BY <1>2, <1>7, <1>8, NewestStays DEF LastInv
<1>10. Claims'
  <2> SUFFICES ASSUME NEW t \in Tokens, NEW i \in Ips, ~LostAt(t, i)'
               PROVE  /\ Claimed(t, i)' => Named(t, i)'
                      /\ Told(t, i)' \/ Answering(t, i)' => Stamped'
      BY DEF Claims
  <2>1. ~LostAt(t, i) BY <1>2 DEF LostAt
  <2>2. Stamped => Stamped' BY <1>1, <1>2 DEF Stamped, Keeps
  <2>3. ASSUME Claimed(t, i)' PROVE Named(t, i)'
    <3>1. CASE req[p].open
      <4>1. t = s
        <5> SUFFICES ASSUME Claimed(t, i) PROVE t = s BY <1>8, <2>3
        <5>1. ~(t < s) BY <1>4, <1>6, <2>1, OldIsLost DEF LastInv
        <5>2. ~(t > s) BY <1>2, <1>4, <1>5 DEF LostAt, Overtaken, Everywhere
        <5> QED BY <1>5, <5>1, <5>2
      <4>2. req[p].ip \in {i, Anywhere}
            BY <1>2, <1>4, <3>1, <4>1 DEF LostAt, Pinned
      <4> QED BY <1>3, <1>4, <3>1, <4>1, <4>2 DEF Named
    <3>2. CASE ~req[p].open
      <4>1. t # s BY <1>2, <1>4, <3>2 DEF LostAt, Pinned, Everywhere
      <4>2. Named(t, i) BY <1>8, <2>1, <2>3, <4>1 DEF LastInv, Claims
      <4> QED BY <1>1, <1>2, <3>2, <4>2 DEF Named, Keeps
    <3> QED BY <3>1, <3>2
  <2> QED BY <1>8, <2>1, <2>2, <2>3 DEF LastInv, Claims
<1> QED BY <1>9, <1>10 DEF LastInv

LEMMA SaveCacheLast ==
  ASSUME TokenInv, LastInv, NEW p \in Requests, SaveCache(p)
  PROVE  LastInv'
<1>1. /\ UNCHANGED <<ipfile, stamp, cookie, addr, lost, req>>
      /\ pc[p] = "cache" /\ pc' = [pc EXCEPT ![p] = "truncstamp"]
      BY DEF SaveCache, Goto, files, history
<1>2. Keeps(p) /\ pc'[p] = "truncstamp" /\ (Stamped => Stamped')
      BY <1>1, TokenTypes DEF Keeps, TokenInv, Stamped
<1> QED BY <1>1, <1>2, GoesOnLast DEF Busy, Done, LoggingIn

\* The browser is told: it claims what the login claimed.
LEMMA AnswerLast ==
  ASSUME TokenInv, LastInv, NEW p \in Requests, Answer(p)
  PROVE  LastInv'
<1>1. /\ UNCHANGED <<ipfile, stamp, addr, lost>> /\ pc[p] = "answer"
      /\ pc'[p] = "idle" /\ Keeps(p)
      BY TokenTypes DEF Answer, Finish, Goto, TokenInv, Keeps, files, history
<1>2. cookie' = [cookie EXCEPT ![req[p].browser] =
                   [tok |-> req[p].tok, time |-> req[p].time]]
      BY DEF Answer
<1>3. LoggingIn(p) /\ Done(p)
      BY <1>1 DEF TokenInv, HoldsToken, Busy, LoginSteps, LoggingIn, Done
<1>4. \A t \in Tokens : Written(t)' => Written(t)
      BY <1>1 DEF Written, Keeps, LoggingIn
<1>5. ASSUME NEW t \in Tokens, NEW i \in Ips, Told(t, i)'
      PROVE  Told(t, i) \/ (Answering(t, i) /\ req[p].tok = t)
  <2>1. PICK b \in Browsers : cookie'[b] # None /\ cookie'[b].tok = t /\ addr[b] = i
        BY <1>1, <1>5 DEF Told
  <2>2. CASE b = req[p].browser
    <3>1. cookie'[b].tok = req[p].tok BY <1>2, <2>2, TokenTypes DEF TokenInv
    <3> QED BY <1>1, <1>3, <2>1, <2>2, <3>1 DEF Answering, From
  <2>3. CASE b # req[p].browser
    <3>1. cookie'[b] = cookie[b] BY <1>2, <2>3, TokenTypes DEF TokenInv
    <3> QED BY <2>1, <3>1 DEF Told
  <2> QED BY <2>2, <2>3
<1>6. \A t \in Tokens, i \in Ips : Told(t, i)' => Told(t, i) \/ Written(t)
      BY <1>3, <1>5 DEF Written
<1>7. Newest' BY <1>1, <1>4, <1>6, NewestStays DEF LastInv
<1>8. Claims'
  <2>1. \A t, i : Answering(t, i)' => Answering(t, i)
        BY <1>1 DEF Answering, Done, LoggingIn, From, Keeps
  <2>2. \A t, i : Answering(t, i) => Claimed(t, i) BY DEF Answering, Claimed
  <2>3. \A t \in Tokens, i \in Ips : Claimed(t, i)' => Claimed(t, i)
        BY <1>1, <1>5, <2>2 DEF Claimed, Done, LoggingIn, From, Keeps
  <2>4. \A t, i : Named(t, i) => Named(t, i)' BY <1>1 DEF Named, Keeps
  <2>5. Stamped => Stamped' BY <1>1 DEF Stamped, Keeps
  <2> QED BY <1>1, <1>5, <2>1, <2>3, <2>4, <2>5 DEF LastInv, Claims, LostAt
<1> QED BY <1>7, <1>8 DEF LastInv

LEMMA CrashLast ==
  ASSUME TokenInv, TokenInv', LastInv, NEW p \in Requests, Crash(p)
  PROVE  LastInv'
<1>1. CASE pc[p] \in {"writeip", "writestamp"}
      BY <1>1, AllLost DEF Crash
<1>2. CASE pc[p] \notin {"writeip", "writestamp"}
  <2>1. UNCHANGED <<ipfile, stamp, cookie, addr, lost>> /\ Finish(p)
        BY <1>2 DEF Crash, files
  <2>2. Stamped => Stamped'
        BY <1>2, <2>1, TokenTypes DEF Finish, Goto, Stamped, TokenInv
  <2> QED BY <1>2, <2>1, <2>2, FinishLast
<1> QED BY <1>1, <1>2

LEMMA OtherLast ==
  ASSUME LastInv, UNCHANGED <<ipfile, stamp, cookie, addr, lost, pc, req>>
  PROVE  LastInv'
<1>1. /\ \A t : Written(t)' = Written(t)
      /\ \A t, i : Told(t, i)' = Told(t, i) /\ LostAt(t, i)' = LostAt(t, i)
      /\ \A t, i : Named(t, i)' = Named(t, i)
      /\ Stamped' = Stamped
      /\ \A q \in Requests : Done(q)' = Done(q) /\ From(q)' = From(q)
      BY DEF Written, LoggingIn, Told, LostAt, Named, Stamped, Done, From
<1>2. /\ \A t, i : Answering(t, i)' = Answering(t, i)
      /\ \A t, i : Claimed(t, i)' = Claimed(t, i)
      BY <1>1 DEF Answering, Claimed
<1>3. Newest' BY <1>1 DEF LastInv, Newest
<1>4. Claims' BY <1>1, <1>2 DEF LastInv, Claims
<1> QED BY <1>3, <1>4 DEF LastInv

LEMMA NextLast ==
  ASSUME TokenInv, LastInv, [Next]_vars
  PROVE  LastInv'
<1> TokenInv' BY NextHolds
<1>1. CASE \E p \in Requests, b \in Browsers :
             StartLogin(p, b) \/ \E o \in {"page", "logout"} : Start(p, b, o)
      BY <1>1, StartLast
<1>2. CASE \E p \in Requests : Page(p) BY <1>2, PageLast
<1>3. CASE \E p \in Requests : Login(p)
      BY <1>3, LoginReadsLast, TruncIpLast, WriteIpLast, SaveCacheLast, AnswerLast
      DEF Login
<1>4. CASE \E p \in Requests : Crash(p) BY <1>4, CrashLast
<1>5. CASE Tick \/ Purge \/ UNCHANGED vars
  <2>1. UNCHANGED <<ipfile, stamp, cookie, addr, lost, pc, req>>
        BY <1>5 DEF Tick, Purge, vars, files, local, history
  <2> QED BY <2>1, OtherLast
<1> QED BY <1>1, <1>2, <1>3, <1>4, <1>5 DEF Next

\* A session that has no reason to be refused can be used from its browser,
\* however many requests and logins overlap, time out or fail (main2:
\* "support concurrent login", write_sqconfig).
THEOREM SessionTheorem == Spec => []SessionLasts
<1>1. Init => TokenInv /\ LastInv
  <2> SUFFICES ASSUME Init PROVE TokenInv /\ LastInv OBVIOUS
  <2>1. TokenInv BY InitHolds
  <2>2. \A t, i : ~Told(t, i) /\ ~Claimed(t, i) /\ ~Answering(t, i) /\ ~Written(t)
        BY DEF Init, Told, Claimed, Answering, Done, LoggingIn, Written
  <2> QED BY <2>1, <2>2 DEF LastInv, Newest, Claims
<1>2. TokenInv /\ LastInv /\ [Next]_vars => (TokenInv /\ LastInv)'
      BY NextHolds, NextLast
<1>3. TokenInv /\ LastInv => SessionLasts
  <2> SUFFICES ASSUME TokenInv, LastInv, NEW b \in Browsers, cookie[b] # None,
                      <<cookie[b].tok, addr[b]>> \notin lost
               PROVE  Named(cookie[b].tok, addr[b]) /\ Stamped
      BY DEF SessionLasts, Named, Stamped
  <2>1. cookie[b].tok \in Tokens /\ addr[b] \in Ips
        BY DEF TokenInv, TypeInv, TypeOK, Cookies
  <2>2. Told(cookie[b].tok, addr[b]) BY DEF Told
  <2> QED BY <2>1, <2>2 DEF LastInv, Claims, Claimed, LostAt
<1> QED BY <1>1, <1>2, <1>3, PTL DEF Spec

=============================================================================
