--------------------------- MODULE MCMaildirQuota ---------------------------
(***************************************************************************)
(* Small instances of MaildirQuota for TLC.                                *)
(***************************************************************************)
EXTENDS MaildirQuota, TLC

CONSTANTS m1, m2, m3

MCTwoSizes == m1 :> 1 @@ m2 :> 2
MCEqualSizes == m1 :> 2 @@ m2 :> 2 @@ m3 :> 2

MCInbox == <<"INBOX">>
MCTwoFolders == <<"INBOX", "Sent">>

InBytes == [nbytes |-> 2, nmessages |-> 0]
InMessages == [nbytes |-> 0, nmessages |-> 1]
MCQuotas == {InBytes}
MCBothQuotas == {InBytes, InMessages}

\* Inodes are told apart only by their contents; so are the processes.
MCSymmetries == Permutations(Inodes) \cup Permutations(Procs)

\* The quota is in force from the start and stays what it is.  Against a quota
\* in bytes messages are delivered, deleted and recounted within a second;
\* against one of messages two drafts are saved, with time.
Deliveries ==
  /\ file[link].quota = InBytes
  /\ now' = 0 /\ \A p \in Procs : op'[p] # "save"
Drafts ==
  /\ file[link].quota = InMessages
  /\ ops' <= 2 /\ at'[m3] = {}
  /\ \A p \in Procs : op'[p] \in {"set", "save", "forced"} /\ msg'[p] # m3

\* A new maildirsize gets the first inode that is free, for TLC's symmetry is
\* not for liveness.
FirstFree == link' \in {link, CHOOSE i \in Unused : TRUE}

LimitedSpec ==
  /\ Init /\ link = CHOOSE i \in Inodes : TRUE
  /\ [][Normal /\ FirstFree /\ (Deliveries \/ Drafts)]_vars
  /\ \A p \in Procs : WF_vars(Work(p))
=============================================================================
