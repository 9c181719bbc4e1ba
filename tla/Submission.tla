----------------------------- MODULE Submission -----------------------------
(***************************************************************************)
(* Writing a message in the web mail: saving the draft, adding and         *)
(* removing attachments, sending (sqwebmail/newmsg.c, newmsg_create.c,     *)
(* attachments.c, token.c, and maildir_recreatemsg, maildir_closemsg of    *)
(* sqwebmail/maildir.c).                                                   *)
(*                                                                         *)
(* Every page has a token of its own.  A request to send stores the draft, *)
(* makes the copy in Sent, gives that copy to sendit.sh, removes the draft *)
(* and at last writes the token to TOKENFILE, where a repeated request of  *)
(* the page would find it.  A draft is rewritten in tmp, under its own     *)
(* name, and renamed; there is no lock, and requests are processes that    *)
(* overlap or are killed.                                                  *)
(*                                                                         *)
(* Requests are numbered.  A name in Drafts or Sent, and a file, is known  *)
(* by the number of the request that created it, a page and its token by   *)
(* the number of its issue, 0 is none.  What maildir_quota_add_start says  *)
(* is a choice here; MaildirQuota is about it.                             *)
(***************************************************************************)
EXTENDS Integers, FiniteSets, Functions

CONSTANTS
  Requests,          \* slots for processes that serve a request
  Size,              \* bytes of the text typed on each page
  MaxPages, MaxOps   \* bounds of the instance

ASSUME SubmissionAssumption ==
  /\ MaxPages \in Nat /\ MaxOps \in Nat
  /\ Size \in [1..MaxPages -> Nat \ {0}]

VARIABLES
  pages,       \* the draft each page is about
  issued, ops,
  savedtoken,  \* TOKENFILE
  tmp, cur,    \* the files of the Drafts folder by name
  data,        \* what is in the files
  sent,        \* the Sent folder
  account,     \* the sum of maildirsize
  pc, req,     \* the processes
  \* History:
  log,         \* what sendit.sh has taken
  stored,      \* the last version of each draft that was stored
  calm,        \* no two requests of one page or one draft have overlapped
  unharmed,    \* no request has been killed
  excused      \* pages whose repetition cannot be recognised

drafts == <<tmp, cur, data>>
local == <<pc, req>>
history == <<stored, calm, unharmed, excused>>
vars == <<pages, issued, ops, savedtoken, drafts, sent, account, local, log,
          history>>

Numbers == 1..MaxOps
Names == 0..MaxOps

\* No file, one just created, one that two requests wrote; a text with a number
\* of attachments.
Blank(state) == [state |-> state, text |-> 0, parts |-> 0]
Whole(text, parts) == [state |-> "whole", text |-> text, parts |-> parts]

Contents == {Blank("none"), Blank("empty"), Blank("mixed")}
            \cup [state : {"whole"}, text : 1..MaxPages, parts : Nat]

\* d and fd: the draft's name and the descriptor of the file in tmp; base and
\* prev: the draft as it was found, and its size.
NoReq == [op |-> "none", n |-> 0, page |-> 0, fcc |-> FALSE, d |-> 0, fd |-> 0,
          base |-> Blank("none"), prev |-> 0]

Ops == {"save", "send", "post", "attach", "detach"}

Records == [op : Ops \cup {"none"}, n : Names, page : 0..MaxPages, fcc : BOOLEAN,
            d : Names, fd : Names, base : Contents, prev : Nat]

Messages == [n : Numbers, page : 1..MaxPages, op : Ops, fcc : BOOLEAN,
             msg : Contents]

Steps == {"idle", "check", "open", "write", "close", "copy", "fork", "deliver",
          "drop", "token", "unfile", "purge"}

TypeOK ==
  /\ pages \in [1..MaxPages -> Names]
  /\ issued \in 0..MaxPages /\ ops \in Names
  /\ savedtoken \in 0..MaxPages
  /\ tmp \in [Numbers -> Names] /\ cur \in [Numbers -> Names]
  /\ data \in [Numbers -> Contents] /\ sent \in [Numbers -> Contents]
  /\ account \in Int
  /\ pc \in [Requests -> Steps]
  /\ req \in [Requests -> Records]
  /\ \A p \in Requests : pc[p] \in {"write", "close"} => req[p].fd # 0
  /\ log \subseteq Messages
  /\ stored \in [Numbers -> Contents]
  /\ calm \in BOOLEAN /\ unharmed \in BOOLEAN
  /\ excused \subseteq 1..MaxPages

Init ==
  /\ pages = [k \in 1..MaxPages |-> 0]
  /\ issued = 0 /\ ops = 0
  /\ savedtoken = 0
  /\ tmp = [d \in Numbers |-> 0] /\ cur = [d \in Numbers |-> 0]
  /\ data = [i \in Numbers |-> Blank("none")]
  /\ sent = [n \in Numbers |-> Blank("none")]
  /\ account = 0
  /\ pc = [p \in Requests |-> "idle"]
  /\ req = [p \in Requests |-> NoReq]
  /\ log = {}
  /\ stored = [d \in Numbers |-> Blank("none")]
  /\ calm = TRUE /\ unharmed = TRUE /\ excused = {}

-----------------------------------------------------------------------------

Active(p) == pc[p] # "idle"

Goto(p, step) == pc' = [pc EXCEPT ![p] = step]

Finish(p) ==
  /\ Goto(p, "idle")
  /\ req' = [req EXCEPT ![p] = NoReq]

Bytes(c) == IF c.state = "whole" THEN Size[c.text] + c.parts ELSE 0

\* maildir_find in Drafts.
Exists(d) == d # 0 /\ cur[d] # 0

File(d) == data[cur[d]]

\* The draft a request is about: that of its page, until it has a new one.
Subject(p) == IF req[p].d # 0 THEN req[p].d ELSE pages[req[p].page]

-----------------------------------------------------------------------------
(* Pages and requests.                                                     *)

\* newmsg_init, attachments.html: a new page, blank or about a draft, with a
\* fresh token (tokennew).
NewPage ==
  /\ issued < MaxPages
  /\ issued' = issued + 1
  /\ \E d \in Names :
       /\ d = 0 \/ Exists(d)
       /\ pages' = [pages EXCEPT ![issued + 1] = d]
  /\ UNCHANGED <<ops, savedtoken, drafts, sent, account, local, log, history>>

\* Requests under way of the same page, or about the same draft.
SamePage(k) == \E q \in Requests : Active(q) /\ req[q].page = k
SameDraft(k) ==
  \E q \in Requests : Active(q) /\ pages[k] # 0 /\ Subject(q) = pages[k]

\* Any page may be submitted, also one that was submitted before: the user
\* goes back to it, or clicks twice.  Attachments belong to a draft.
Start(p, k, o, fcc) ==
  /\ ~Active(p) /\ ops < MaxOps /\ k <= issued
  /\ o \in {"post", "attach", "detach"} => pages[k] # 0
  /\ fcc => o \in {"send", "post"}
  /\ ops' = ops + 1
  /\ req' = [req EXCEPT ![p] =
       [NoReq EXCEPT !.op = o, !.n = ops + 1, !.page = k, !.fcc = fcc]]
  /\ Goto(p, IF o = "save" THEN "open" ELSE "check")
  /\ calm' = (calm /\ ~SamePage(k) /\ ~SameDraft(k))
  /\ excused' = IF SamePage(k) THEN excused \cup {k} ELSE excused
  /\ UNCHANGED <<pages, issued, savedtoken, drafts, sent, account, log, stored,
                 unharmed>>

\* Variant: the token is not compared.
NeverRepeated(p) == FALSE

\* tokencheck: "Duplicate submission - message was already sent".
Repeated(p) == savedtoken = req[p].page

Check(p) ==
  /\ pc[p] = "check"
  /\ IF Repeated(p) THEN Finish(p)
     ELSE /\ Goto(p, IF req[p].op = "post" THEN "copy" ELSE "open")
          /\ UNCHANGED req
  /\ UNCHANGED <<pages, issued, ops, savedtoken, drafts, sent, account, log,
                 history>>

-----------------------------------------------------------------------------
(* Rewriting the draft.                                                    *)

\* maildir_recreatemsg under the name that was found, maildir_createmsg under
\* a new one.
Draft(p) == IF Exists(pages[req[p].page]) THEN pages[req[p].page] ELSE req[p].n

Found(p) ==
  LET d == pages[req[p].page]
  IN  IF Exists(d) THEN File(d) ELSE Blank("none")

\* Variant: the draft itself is opened for rewriting.
InPlace(p, d) == IF cur[d] # 0 THEN cur[d] ELSE req[p].n

\* Variant: O_CREAT is not given.
OnlyThere(p, d) == tmp[d]

\* open(tmp/name, O_CREAT|O_TRUNC) finds what a killed or concurrent request
\* has there.
Scratch(p, d) == IF tmp[d] # 0 THEN tmp[d] ELSE req[p].n

Open(p) ==
  /\ pc[p] = "open"
  /\ req[p].op \in {"save", "send"} \/ Exists(pages[req[p].page])
  /\ req[p].op = "detach" => Found(p).parts # 0 \/ Found(p).state # "whole"
  /\ LET d == Draft(p)
         i == Scratch(p, d)
     IN  /\ tmp' = [tmp EXCEPT ![d] = i]
         /\ data' = [data EXCEPT ![i] = Blank("empty")]
         /\ req' = [req EXCEPT ![p] =
              [@ EXCEPT !.d = d, !.fd = i, !.base = Found(p),
                        !.prev = Bytes(Found(p))]]
  /\ Goto(p, "write")
  /\ UNCHANGED <<pages, issued, ops, savedtoken, cur, sent, account, log,
                 history>>

\* attachment_open: the draft is gone.
OpenFails(p) ==
  /\ pc[p] = "open"
  /\ req[p].op = "detach" /\ ~Exists(pages[req[p].page])
  /\ Finish(p)
  /\ UNCHANGED <<pages, issued, ops, savedtoken, drafts, sent, account, log,
                 history>>

\* The upload is unreadable or too large, or its draft is gone; the draft has
\* no attachment to remove.
NoChange(p) ==
  /\ pc[p] = "open"
  /\ \/ req[p].op = "attach"
     \/ req[p].op = "detach" /\ Found(p).state = "whole" /\ Found(p).parts = 0
  /\ Goto(p, "token")
  /\ UNCHANGED <<pages, issued, ops, savedtoken, drafts, sent, account, req,
                 log, history>>

\* The new version: another text with the old attachments, or the old text
\* with one attachment more, or without.
Version(p) ==
  LET r == req[p] IN
  IF r.op \in {"save", "send"} THEN Whole(r.page, r.base.parts)
  ELSE IF r.base.state # "whole" THEN Blank("mixed")
  ELSE Whole(r.base.text, IF r.op = "attach" THEN r.base.parts + 1 ELSE 0)

\* The descriptor writes from its own position, over what others wrote there.
Write(p) ==
  /\ pc[p] = "write"
  /\ data' = [data EXCEPT ![req[p].fd] =
       IF @.state = "empty" \/ @ = Version(p) THEN Version(p) ELSE Blank("mixed")]
  /\ Goto(p, "close")
  /\ UNCHANGED <<pages, issued, ops, savedtoken, tmp, cur, sent, account, req,
                 log, history>>

\* writeerr: the file in tmp is unlinked, enomem.
WriteFails(p) ==
  /\ pc[p] = "write"
  /\ tmp' = [tmp EXCEPT ![req[p].d] = 0]
  /\ Finish(p)
  /\ UNCHANGED <<pages, issued, ops, savedtoken, cur, data, sent, account, log,
                 history>>

AfterDraft(p) ==
  CASE req[p].op = "save" -> Finish(p)
    [] req[p].op = "send" -> Goto(p, "copy") /\ UNCHANGED req
    [] OTHER              -> Goto(p, "token") /\ UNCHANGED req

\* Variant: the whole size is added, as for a new message.
AddAll(p) == Bytes(data[req[p].fd])

Growth(p) == Bytes(data[req[p].fd]) - req[p].prev

\* maildir_closemsg: the quota, and the file that now has the name in tmp.
Close(p) ==
  /\ pc[p] = "close"
  /\ LET d == req[p].d IN
       /\ cur' = IF tmp[d] # 0 THEN [cur EXCEPT ![d] = tmp[d]] ELSE cur
       /\ tmp' = [tmp EXCEPT ![d] = 0]
       /\ stored' = [stored EXCEPT ![d] = Version(p)]
  /\ account' = account + Growth(p)
  /\ AfterDraft(p)
  /\ UNCHANGED <<pages, issued, ops, savedtoken, data, sent, log, calm,
                 unharmed, excused>>

\* An attachment over quota, or one that makemime fails on, is dropped; a
\* removal that fails ends the request.  A text is kept also over quota.
CloseRefused(p) ==
  /\ pc[p] = "close"
  /\ req[p].op \in {"attach", "detach"}
  /\ tmp' = [tmp EXCEPT ![req[p].d] = 0]
  /\ IF req[p].op = "attach" THEN Goto(p, "token") /\ UNCHANGED req ELSE Finish(p)
  /\ UNCHANGED <<pages, issued, ops, savedtoken, cur, data, sent, account, log,
                 history>>

-----------------------------------------------------------------------------
(* Sending.                                                                *)

\* newmsg_createsentmsg.
Copy(p) ==
  /\ pc[p] = "copy" /\ Exists(Subject(p))
  /\ sent' = [sent EXCEPT ![req[p].n] = File(Subject(p))]
  /\ account' = account + Bytes(File(Subject(p)))
  /\ Goto(p, "fork")
  /\ UNCHANGED <<pages, issued, ops, savedtoken, drafts, req, log, history>>

\* Over quota, or the draft is gone: "error=quota".
CopyRefused(p) ==
  /\ pc[p] = "copy"
  /\ Finish(p)
  /\ UNCHANGED <<pages, issued, ops, savedtoken, drafts, sent, account, log,
                 history>>

Fork(p) ==
  /\ pc[p] = "fork"
  /\ \/ Goto(p, "deliver")
     \/ Goto(p, "purge")      \* pipe or fork fails
  /\ UNCHANGED <<pages, issued, ops, savedtoken, drafts, sent, account, req,
                 log, history>>

Sending(p) == [n |-> req[p].n, page |-> req[p].page, op |-> req[p].op,
               fcc |-> req[p].fcc, msg |-> sent[req[p].n]]

\* The child runs sendit.sh with the copy as its input; the parent waits.
Deliver(p) ==
  /\ pc[p] = "deliver"
  /\ \/ log' = log \cup {Sending(p)} /\ Goto(p, "drop")
     \/ Goto(p, "purge") /\ UNCHANGED log
  /\ UNCHANGED <<pages, issued, ops, savedtoken, drafts, sent, account, req,
                 history>>

\* The copy in Sent and its line go.
Unsend(p) ==
  /\ sent' = [sent EXCEPT ![req[p].n] = Blank("none")]
  /\ account' = account - Bytes(sent[req[p].n])

\* maildir_msgpurgefile, and back to the page with an error.
Purge(p) ==
  /\ pc[p] = "purge"
  /\ Unsend(p)
  /\ Finish(p)
  /\ UNCHANGED <<pages, issued, ops, savedtoken, drafts, log, history>>

\* "Remove draft file".
Drop(p) ==
  /\ pc[p] = "drop"
  /\ IF Exists(Subject(p))
     THEN /\ account' = account - Bytes(File(Subject(p)))
          /\ cur' = [cur EXCEPT ![Subject(p)] = 0]
     ELSE UNCHANGED <<account, cur>>
  /\ Goto(p, "token")
  /\ UNCHANGED <<pages, issued, ops, savedtoken, tmp, data, sent, req, log,
                 history>>

\* Variant: the copy always stays.
AlwaysFiled(p) == TRUE

Filed(p) == req[p].fcc \/ req[p].op \in {"attach", "detach"}

\* tokensave: TOKENFILE forgets the pages before.
SaveToken(p) ==
  /\ pc[p] = "token"
  /\ savedtoken' = req[p].page
  /\ excused' = excused \cup ({l.page : l \in log} \ {req[p].page})
  /\ IF Filed(p) THEN Finish(p) ELSE Goto(p, "unfile") /\ UNCHANGED req
  /\ UNCHANGED <<pages, issued, ops, drafts, sent, account, log, stored, calm,
                 unharmed>>

\* No copy in Sent is wanted.
Unfile(p) ==
  /\ pc[p] = "unfile"
  /\ Unsend(p)
  /\ Finish(p)
  /\ UNCHANGED <<pages, issued, ops, savedtoken, drafts, log, history>>

-----------------------------------------------------------------------------

\* The request is killed.  A child that is sending goes on, and the token
\* that would tell is not written.
Crash(p) ==
  /\ Active(p)
  /\ \/ UNCHANGED log
     \/ pc[p] = "deliver" /\ log' = log \cup {Sending(p)}
  /\ excused' = IF pc[p] \in {"deliver", "drop", "token"}
                THEN excused \cup {req[p].page} ELSE excused
  /\ unharmed' = FALSE
  /\ Finish(p)
  /\ UNCHANGED <<pages, issued, ops, savedtoken, drafts, sent, account, stored,
                 calm>>

Edit(p) == Open(p) \/ OpenFails(p) \/ NoChange(p) \/ Write(p) \/ WriteFails(p)
           \/ Close(p) \/ CloseRefused(p)

Send(p) == Copy(p) \/ CopyRefused(p) \/ Fork(p) \/ Deliver(p) \/ Purge(p)
           \/ Drop(p) \/ SaveToken(p) \/ Unfile(p)

Next ==
  \/ NewPage
  \/ \E p \in Requests :
       \/ \E k \in 1..MaxPages, o \in Ops, fcc \in BOOLEAN : Start(p, k, o, fcc)
       \/ Check(p) \/ Edit(p) \/ Send(p) \/ Crash(p)

Spec == Init /\ [][Next]_vars

-----------------------------------------------------------------------------
(* Properties.                                                             *)

AllQuiet == \A p \in Requests : ~Active(p)

\* A message is sent once for its page, whatever else is written, sent or
\* fails, unless requests of the page overlap, one is killed on the way from
\* sendit.sh to TOKENFILE, or another page has used TOKENFILE since.
\* (tokencheck, tokensave)
RepeatIsRecognised ==
  \A l, m \in log : l.page = m.page /\ l.n # m.n => l.page \in excused

\* A version of a draft that was stored is in Drafts, or a later one is,
\* until it has been sent, wherever requests are killed or fail.
\* (maildir_recreatemsg, maildir_closemsg, dosendmsg)
NothingLost ==
  calm => \A d \in Numbers :
    stored[d].state = "whole" =>
      \/ cur[d] # 0 /\ File(d) = stored[d]
      \/ \E l \in log : l.msg = stored[d]

\* Drafts and Sent weigh what maildirsize says when everything is done.
\* (maildir_closemsg, dosendmsg, maildir_msgpurgefile)
SubmissionLedger ==
  calm /\ unharmed /\ AllQuiet =>
    account = SumFunction([d \in Numbers |->
                             IF cur[d] = 0 THEN 0 ELSE Bytes(File(d))])
              + SumFunction([n \in Numbers |-> Bytes(sent[n])])

\* Unless a request was killed, Sent holds what was sent and was to be kept,
\* and nothing that was not, also when requests overlap; what was sent is the
\* text of the page, if they did not.
\* (newmsg_createsentmsg, dosendmsg)
SentTellsWhatWasSent ==
  /\ unharmed /\ AllQuiet =>
       \A n \in Numbers : sent[n].state # "none" <=> \E l \in log : l.n = n /\ l.fcc
  /\ unharmed => \A l \in log : l.fcc => sent[l.n] = l.msg
  /\ calm => \A l \in log : l.op = "send" => l.msg.text = l.page

=============================================================================
