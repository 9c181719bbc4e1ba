----------------------------- MODULE WebSession -----------------------------
(***************************************************************************)
(* Logging in to the web mail, using it and logging out                    *)
(* (sqwebmail/sqwebmail.c main2, sqwebmail/sqconfig.c,                     *)
(* maildir/maildircache.c).                                                *)
(*                                                                         *)
(* A session lives in two files of the maildir: IPFILE holds the address   *)
(* and the token of the login, and its mtime starts the hard timeout; the  *)
(* mtime of TIMESTAMP starts the soft timeout.  The browser keeps the      *)
(* token and the time of the login in cookies.  Every request is a process *)
(* of its own, there is no lock, and a file is written by fopen(f, "w"):   *)
(* it is empty until the line is flushed, and read_sqconfig takes an empty *)
(* file for none.  The login cache has a directory for each interval of    *)
(* TimeoutHard seconds; the names in it are those of the logins then.      *)
(*                                                                         *)
(* This module is about one mailbox.  A token is the number of its issue.  *)
(***************************************************************************)
EXTENDS Naturals, FiniteSets

CONSTANTS
  Requests,     \* slots for processes that serve a request
  Browsers,
  Ips,          \* REMOTE_ADDR
  Anywhere,     \* what IPFILE holds instead of an address: "none"
  None,
  TimeoutSoft, TimeoutHard,
  MaxTime, MaxTokens, MaxOps   \* bounds of the instance

ASSUME SessionAssumption ==
  /\ Anywhere \notin Ips
  /\ TimeoutSoft \in Nat /\ TimeoutHard \in Nat \ {0}
  /\ MaxTime \in Nat /\ MaxTokens \in Nat /\ MaxOps \in Nat

VARIABLES
  now,
  ipfile,    \* None, or the file of that name; tok = 0 while it is empty
  stamp,     \* TIMESTAMP, likewise
  cache,     \* intervals with an entry for this mailbox
  addr,      \* the address of each browser
  cookie,    \* None, or token and time of the browser's last login
  pc, req,   \* the processes
  issued, ops,
  \* History:
  ended,     \* tokens whose IPFILE a logout has unlinked
  lost       \* <<token, address>>: sessions with a reason to be refused

files == <<ipfile, stamp>>
local == <<pc, req>>
history == <<ended, lost>>
vars == <<now, files, cache, addr, cookie, local, issued, ops, history>>

Tokens == 1..MaxTokens
Times == 0..MaxTime
IpFiles == [ip : Ips \cup {Anywhere}, tok : Tokens \cup {0}, at : Times]
Stamps == [whole : BOOLEAN, at : Times]
Cookies == [tok : Tokens, time : Times]

\* None is no file and no cookie.
ASSUME NoneAssumption == None \notin IpFiles \cup Stamps \cup Cookies

\* open: the descriptor that fopen returned still has the name IPFILE.
\* dead: the token had been logged out when the request came.
NoReq == [op |-> "none", browser |-> None, ip |-> Anywhere, seen |-> 0,
          tok |-> 0, time |-> 0, open |-> FALSE, dead |-> FALSE]

Steps == {"idle", "ip", "stamp", "loginip", "loginstamp", "truncip", "writeip",
          "cache", "truncstamp", "writestamp", "answer", "unlink"}

TypeOK ==
  /\ now \in Times
  /\ ipfile \in IpFiles \cup {None}
  /\ stamp \in Stamps \cup {None}
  /\ cache \subseteq Nat
  /\ addr \in [Browsers -> Ips]
  /\ cookie \in [Browsers -> Cookies \cup {None}]
  /\ pc \in [Requests -> Steps]
  /\ req \in [Requests ->
       [op : {"none", "page", "logout", "login"}, browser : Browsers \cup {None},
        ip : Ips \cup {Anywhere}, seen : Times, tok : Tokens \cup {0},
        time : Times, open : BOOLEAN, dead : BOOLEAN]]
  /\ issued \in 0..MaxTokens /\ ops \in 0..MaxOps
  /\ ended \subseteq Tokens
  /\ lost \subseteq Tokens \X Ips

Init ==
  /\ now = 0
  /\ ipfile = None /\ stamp = None /\ cache = {}
  /\ addr \in [Browsers -> Ips]
  /\ cookie = [b \in Browsers |-> None]
  /\ pc = [p \in Requests |-> "idle"]
  /\ req = [p \in Requests |-> NoReq]
  /\ issued = 0 /\ ops = 0
  /\ ended = {} /\ lost = {}

-----------------------------------------------------------------------------
(* What a process finds in the files.                                      *)

From(p) == addr[req[p].browser]

\* read_sqconfig succeeds.
IpReadable == ipfile # None /\ ipfile.tok # 0
StampReadable == stamp # None /\ stamp.whole

HardFresh(t) == ipfile.at + TimeoutHard >= t
SoftFresh(t) == stamp.at + TimeoutSoft >= t

SameAddress(p) == ipfile.ip \in {From(p), Anywhere}

Interval(t) == t \div TimeoutHard

\* Variant: only the current interval is kept.
OnlyCurrent == {i \in cache : i >= Interval(now)}

\* Directories older than the interval before the current one go.
Kept == {i \in cache : i + 1 >= Interval(now)}

Goto(p, step) == pc' = [pc EXCEPT ![p] = step]

Finish(p) ==
  /\ Goto(p, "idle")
  /\ req' = [req EXCEPT ![p] = NoReq]

LoggingIn(q) == pc[q] # "idle" /\ req[q].op = "login"

-----------------------------------------------------------------------------
(* Reasons to lose a session that its owner did not end.                   *)

Everywhere(T) == T \X Ips

\* Tokens that logins in progress write, or have written but not told yet.
Carried(p) == {req[q].tok : q \in {r \in Requests \ {p} : LoggingIn(r)}}

\* The session of IPFILE has timed out, or is that of another address; it may
\* be another than the one that was to be shared.
Outlived(p) ==
  CASE pc[p] = "loginip" /\ ~(SameAddress(p) /\ HardFresh(req[p].seen))
         -> {ipfile.tok}
    [] pc[p] = "loginstamp" /\ ~SoftFresh(req[p].seen)
         -> {req[p].tok} \cup {f.tok : f \in {ipfile} \ {None}}
    [] OTHER -> {}

\* What a login that finds no session to share replaces; when another process
\* has a file truncated just then, nobody knows.
Replaced(p) ==
  IF (pc[p] = "loginip" /\ ~IpReadable) \/ (pc[p] = "loginstamp" /\ ~StampReadable)
  THEN Everywhere(1..issued)
  ELSE Everywhere((Outlived(p) \cup Carried(p)) \ {0})

\* Logins that chose their tokens after p did are overridden.
Overtaken(p) == Everywhere({t \in 1..issued : t > req[p].tok})

\* The line pins the session to an address; without a name it keeps nothing.
Pinned(p) ==
  IF ~req[p].open THEN Everywhere({req[p].tok})
  ELSE IF req[p].ip = Anywhere THEN {}
  ELSE {req[p].tok} \X (Ips \ {req[p].ip})

-----------------------------------------------------------------------------
(* A page, or the request to log out.                                      *)

\* maildir_cache_search or prelogin find the maildir; then the time is taken.
Start(p, b, o) ==
  /\ pc[p] = "idle" /\ ops < MaxOps
  /\ cookie[b] # None
  /\ ops' = ops + 1
  /\ Goto(p, "ip")
  /\ req' = [req EXCEPT ![p] =
       [NoReq EXCEPT !.op = o, !.browser = b, !.seen = now,
                     !.tok = cookie[b].tok,
                     !.dead = cookie[b].tok \in ended]]
  /\ UNCHANGED <<now, files, cache, addr, cookie, issued, history>>

IpAccepted(p) ==
  /\ IpReadable /\ HardFresh(req[p].seen)
  /\ SameAddress(p) /\ ipfile.tok = req[p].tok

CheckIp(p) ==
  /\ pc[p] = "ip" /\ IpAccepted(p)
  /\ Goto(p, "stamp")
  /\ UNCHANGED <<now, files, cache, addr, cookie, req, issued, ops, history>>

StampAccepted(p) == StampReadable /\ SoftFresh(req[p].seen)

CheckStamp(p) ==
  /\ pc[p] = "stamp" /\ StampAccepted(p)
  /\ Goto(p, "truncstamp")
  /\ req' = [req EXCEPT ![p].seen = 0]
  /\ UNCHANGED <<now, files, cache, addr, cookie, issued, ops, history>>

\* expired.html; a logout is taken for one that has happened already.
Refuse(p) ==
  /\ \/ pc[p] = "ip" /\ ~IpAccepted(p)
     \/ pc[p] = "stamp" /\ ~StampAccepted(p)
  /\ Finish(p)
  /\ UNCHANGED <<now, files, cache, addr, cookie, issued, ops, history>>

\* write_sqconfig(TIMESTAMP): fopen truncates, fflush writes.
TruncStamp(p) ==
  /\ pc[p] = "truncstamp"
  /\ stamp' = [whole |-> FALSE, at |-> now]
  /\ Goto(p, "writestamp")
  /\ UNCHANGED <<now, ipfile, cache, addr, cookie, req, issued, ops, history>>

\* What follows: the cookies, the page, or unlink(IPFILE).
AfterStamp(p) ==
  CASE req[p].op = "login"  -> Goto(p, "answer") /\ UNCHANGED req
    [] req[p].op = "logout" -> Goto(p, "unlink") /\ UNCHANGED req
    [] OTHER                -> Finish(p)

WriteStamp(p) ==
  /\ pc[p] = "writestamp"
  /\ stamp' = [whole |-> TRUE, at |-> now]
  /\ AfterStamp(p)
  /\ UNCHANGED <<now, ipfile, cache, addr, cookie, issued, ops, history>>

\* The descriptors of a file that is unlinked lose their name.
Unlinked(q) == [req[q] EXCEPT !.open = FALSE]

\* Variant: the name stays with the file that a login is writing.
StillNamed(q) == req[q]

\* The token is replaced by "NO", which no session has.
LoggedOut == None

\* unlink(IPFILE), whoever's it is by now; then the browser is told.
Logout(p) ==
  /\ pc[p] = "unlink"
  /\ ipfile' = None
  /\ cookie' = [cookie EXCEPT ![req[p].browser] = LoggedOut]
  /\ ended' = ended \cup ({req[p].tok} \ Carried(p))
  /\ lost' = lost \cup Everywhere(1..issued)
  /\ req' = [q \in Requests |-> IF q = p THEN NoReq ELSE Unlinked(q)]
  /\ Goto(p, "idle")
  /\ UNCHANGED <<now, stamp, cache, addr, issued, ops>>

-----------------------------------------------------------------------------
(* A login with the right password.                                        *)

StartLogin(p, b) ==
  /\ pc[p] = "idle" /\ ops < MaxOps /\ issued < MaxTokens
  /\ ops' = ops + 1
  /\ Goto(p, "loginip")
  /\ req' = [req EXCEPT ![p] =
       [NoReq EXCEPT !.op = "login", !.browser = b, !.seen = now]]
  /\ UNCHANGED <<now, files, cache, addr, cookie, issued, history>>

\* What goes to IPFILE: the address, or none for a form with "nosecure".
Chosen(p, tok) ==
  \E ip \in {From(p), Anywhere} :
    req' = [req EXCEPT ![p] = [@ EXCEPT !.tok = tok, !.ip = ip, !.seen = 0]]

\* Variant: the browser goes on with the token of its cookie.
CookieToken(p) ==
  LET c == cookie[req[p].browser] IN IF c = None THEN issued + 1 ELSE c.tok

\* random128
FreshToken(p) == issued + 1

NewToken(p) ==
  /\ issued < MaxTokens
  /\ issued' = issued + 1
  /\ Chosen(p, FreshToken(p))
  /\ lost' = lost \cup Replaced(p)
  /\ Goto(p, "truncip")

\* Variant: only the browser that has the session finds it again.
SharableBySame(p) ==
  /\ IpReadable /\ HardFresh(req[p].seen) /\ SameAddress(p)
  /\ cookie[req[p].browser] # None

\* "support concurrent login"
Sharable(p) == IpReadable /\ HardFresh(req[p].seen) /\ SameAddress(p)

LoginReadsIp(p) ==
  /\ pc[p] = "loginip"
  /\ \/ /\ Sharable(p)
        /\ req' = [req EXCEPT ![p].tok = ipfile.tok]
        /\ Goto(p, "loginstamp")
        /\ UNCHANGED <<issued, lost>>
     \/ ~Sharable(p) /\ NewToken(p)
  /\ UNCHANGED <<now, files, cache, addr, cookie, ops, ended>>

LoginReadsStamp(p) ==
  /\ pc[p] = "loginstamp"
  /\ \/ /\ StampAccepted(p)
        /\ Chosen(p, req[p].tok)
        /\ Goto(p, "truncip")
        /\ UNCHANGED <<issued, lost>>
     \/ ~StampAccepted(p) /\ NewToken(p)
  /\ UNCHANGED <<now, files, cache, addr, cookie, ops, ended>>

\* write_sqconfig(IPFILE): fopen(f, "w"), ...
TruncIp(p) ==
  /\ pc[p] = "truncip"
  /\ ipfile' = [ip |-> Anywhere, tok |-> 0, at |-> now]
  /\ req' = [req EXCEPT ![p].open = TRUE]
  /\ lost' = lost \cup Overtaken(p)
  /\ Goto(p, "writeip")
  /\ UNCHANGED <<now, stamp, cache, addr, cookie, issued, ops, ended>>

\* ... fprintf and fflush, perhaps to a file that has lost its name;
\* time(&login_time).
WriteIp(p) ==
  /\ pc[p] = "writeip"
  /\ ipfile' = IF req[p].open
               THEN [ip |-> req[p].ip, tok |-> req[p].tok, at |-> now]
               ELSE ipfile
  /\ lost' = lost \cup Overtaken(p) \cup Pinned(p)
  /\ req' = [req EXCEPT ![p] = [@ EXCEPT !.open = FALSE, !.time = now]]
  /\ Goto(p, "cache")
  /\ UNCHANGED <<now, stamp, cache, addr, cookie, issued, ops, ended>>

\* maildir_cache_save: the child writes the entry, the parent waits for it.
SaveCache(p) ==
  /\ pc[p] = "cache"
  /\ cache' = cache \cup {Interval(req[p].time)}
  /\ Goto(p, "truncstamp")
  /\ UNCHANGED <<now, files, addr, cookie, req, issued, ops, history>>

\* The answer sets the cookies.
Answer(p) ==
  /\ pc[p] = "answer"
  /\ cookie' = [cookie EXCEPT ![req[p].browser] =
                  [tok |-> req[p].tok, time |-> req[p].time]]
  /\ Finish(p)
  /\ UNCHANGED <<now, files, cache, addr, issued, ops, history>>

-----------------------------------------------------------------------------
(* The rest of the world.                                                  *)

Tick ==
  /\ now < MaxTime
  /\ now' = now + 1
  /\ UNCHANGED <<files, cache, addr, cookie, local, issued, ops, history>>

\* cleancache.pl from cron, or maildir_cache_purge.
Purge ==
  /\ cache' = Kept
  /\ UNCHANGED <<now, files, addr, cookie, local, issued, ops, history>>

\* The web server kills the process, or fopen or fflush fail (enomem): what
\* it truncated stays empty.
Crash(p) ==
  /\ pc[p] # "idle"
  /\ lost' = IF pc[p] \in {"writeip", "writestamp"}
             THEN lost \cup Everywhere(1..issued) ELSE lost
  /\ Finish(p)
  /\ UNCHANGED <<now, files, cache, addr, cookie, issued, ops, ended>>

Page(p) == CheckIp(p) \/ CheckStamp(p) \/ Refuse(p) \/ TruncStamp(p)
           \/ WriteStamp(p) \/ Logout(p)

Login(p) == LoginReadsIp(p) \/ LoginReadsStamp(p) \/ TruncIp(p) \/ WriteIp(p)
            \/ SaveCache(p) \/ Answer(p)

Next ==
  \/ \E p \in Requests, b \in Browsers :
       StartLogin(p, b) \/ \E o \in {"page", "logout"} : Start(p, b, o)
  \/ \E p \in Requests : Page(p) \/ Login(p) \/ Crash(p)
  \/ Tick \/ Purge

Spec == Init /\ [][Next]_vars

-----------------------------------------------------------------------------
(* Properties.                                                             *)

Accepted(p) == pc[p] \in {"truncstamp", "writestamp", "unlink"}
               /\ req[p].op \in {"page", "logout"}

\* A logout takes the token out of IPFILE for good, and a request that comes
\* afterwards is refused, whatever pages and logins were under way or come
\* later; but for a login that had read the token before IPFILE was unlinked,
\* and writes it again.
\* (main2, output_user_form: unlink(IPFILE))
LogoutIsFinal ==
  /\ ipfile # None => ipfile.tok \notin ended
  /\ \A p \in Requests : req[p].dead => ~Accepted(p)

\* A session that has no reason to be refused can be used from its browser:
\* requests that overlap, the logins of other browsers at its address and the
\* failures of others do not end it; a file that is empty for the moment is
\* about to be written with the same token.
\* (main2: "support concurrent login", write_sqconfig)
SessionLasts ==
  \A b \in Browsers :
    cookie[b] # None /\ <<cookie[b].tok, addr[b]>> \notin lost =>
      /\ ipfile # None
      /\ \/ ipfile.tok = cookie[b].tok /\ ipfile.ip \in {addr[b], Anywhere}
         \/ /\ ipfile.tok = 0
            /\ \E q \in Requests :
                 pc[q] = "writeip" /\ req[q].open /\ req[q].tok = cookie[b].tok
      /\ stamp # None
      /\ stamp.whole \/ \E q \in Requests : pc[q] = "writestamp"

\* The entry of a login stays in the cache until its hard timeout is over.
\* (create_cache_name, maildir_cache_purge, cleancache.pl)
CookieFindsCache ==
  \A b \in Browsers :
    cookie[b] # None /\ cookie[b].time + TimeoutHard >= now =>
      Interval(cookie[b].time) \in cache

=============================================================================
