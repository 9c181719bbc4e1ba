---------------------------- MODULE CalendarStore ----------------------------
(***************************************************************************)
(* The calendar of src/src/pcp/pcpdir.c: a directory with a file for each  *)
(* event and an index that says when each event takes place.               *)
(*                                                                         *)
(* An operation takes the lock, copies the index line by line to           *)
(* .index.tmp, and renames that to index.  A new event is first written to *)
(* a file of its own; it may be booked, which reserves its times, before   *)
(* it is committed, which gives the file its name.  An event is changed by *)
(* committing a new one in place of the old.  Processes are killed at any  *)
(* step, and the disk may be full.                                         *)
(***************************************************************************)
EXTENDS Mutex, Integers, Sequences, SequencesExt

CONSTANTS
  None,         \* no event, no handle, no file
  Events,       \* event ids; each is given to one event
  MaxSlot,      \* bound: time is cut into the slots 1..MaxSlot
  Times,        \* the sets of slots that are asked for
  Ops,          \* the operations that are asked for
  MaxOps        \* bound: operations started in a behaviour

AllOps == {"book", "commit", "cancel", "uncancel", "delete", "destroy",
           "cleanup"}

ASSUME TimesAssumption == Times \subseteq (SUBSET (1..MaxSlot)) \ {{}}
ASSUME OpsAssumption == Ops \subseteq AllOps
ASSUME BoundsAssumption == MaxSlot \in Nat \ {0} /\ MaxOps \in Nat
ASSUME EventsAssumption == None \notin Events

VARIABLES
  index,        \* the lines of the index
  files,        \* the events that have a file
  past,         \* the slots up to this one have expired
  handle,       \* handle[p] : what pcp_new_eventid returned to p
  job,          \* job[p] : the operation for which p has the lock
  ops,          \* operations that got the lock so far
  used,         \* history: event ids given away
  origin,       \* history: origin[e] : what e is to replace, while it is booked
  placed,       \* history: events that were committed, and are to stay
  overridden,   \* history: events that PCP_OK_CONFLICT put over others
  missed,       \* history: events revived though they were in conflict
  whole         \* history: no cleanup met a full disk

store == <<index, files>>
history == <<used, origin, placed, overridden, missed, whole>>
vars == <<holders, store, past, handle, job, ops, history>>

-----------------------------------------------------------------------------
(* Types.                                                                  *)

Slots == 1..MaxSlot

\* A line: the fields t, b, c and d.
Lines == [id : Events, times : Times, booked : BOOLEAN, cancelled : BOOLEAN,
          pendel : Events \cup {None}]

\* A PCPdir_new_eventid; saved: its file has left its temporary name.
Handles == [id : Events, old : Events \cup {None}, booked : BOOLEAN,
            saved : BOOLEAN]

Steps == {"rewrite", "file", "index", "broken", "unlink", "scan"}

\* An operation, with its arguments, and where it is.
\* newindex: the lines of .index.tmp.  What is left in there belongs to no one:
\* the next to open it empties it.
\* noted: the files that it is to unlink, or that cleanup is to keep.
Jobs == [op : AllOps, id : Events \cup {None}, times : SUBSET Slots,
         over : BOOLEAN, step : Steps, newindex : Seq(Lines),
         noted : SUBSET Events]

ASSUME NoneAssumption == None \notin Handles \cup Jobs

Ids(lines) == {lines[i].id : i \in DOMAIN lines}

IsIndex(lines) ==
  /\ lines \in Seq(Lines)
  /\ \A i, j \in DOMAIN lines : lines[i].id = lines[j].id => i = j

TypeOK ==
  /\ holders = {p \in Procs : job[p] # None}
  /\ IsIndex(index)
  /\ files \subseteq Events
  /\ past \in 0..MaxSlot
  /\ handle \in [Procs -> Handles \cup {None}]
  /\ job \in [Procs -> Jobs \cup {None}]
  /\ \A p \in Procs : job[p] # None => IsIndex(job[p].newindex)
  /\ ops \in 0..MaxOps
  /\ used \subseteq Events /\ placed \subseteq used
  /\ overridden \subseteq used /\ missed \subseteq used
  /\ origin \in [Events -> Events \cup {None}]
  /\ whole \in BOOLEAN

\* An empty calendar.
Init ==
  /\ MutexInit
  /\ index = <<>> /\ files = {}
  /\ past = 0
  /\ handle = [p \in Procs |-> None]
  /\ job = [p \in Procs |-> None]
  /\ ops = 0
  /\ used = {} /\ placed = {} /\ overridden = {} /\ missed = {}
  /\ origin = [e \in Events |-> None]
  /\ whole = TRUE

-----------------------------------------------------------------------------
(* Lines of an index.                                                      *)

Line(lines, e) == CHOOSE r \in ToSet(lines) : r.id = e
Has(lines, e) == e \in Ids(lines)

\* The lines that are in keep, in their order.
Select(lines, keep) ==
  LET picked[n \in 0..Len(lines)] ==
        IF n = 0 THEN <<>>
        ELSE IF lines[n] \in keep THEN Append(picked[n - 1], lines[n])
        ELSE picked[n - 1]
  IN picked[Len(lines)]

Without(lines, ids) == Select(lines, {r \in ToSet(lines) : r.id \notin ids})
Replaced(lines, r) ==
  [i \in DOMAIN lines |-> IF lines[i].id = r.id THEN r ELSE lines[i]]

\* pcp_is_conflict, for a line that is not cancelled.
Conflict(r, times) == ~r.cancelled /\ r.times \cap times # {}

\* Variant: an event expires while it takes place.
ExpiredEarly(r) == \A s \in r.times : s <= past + 1

\* event_expired
Expired(r) == \A s \in r.times : s <= past

-----------------------------------------------------------------------------
(* Control.                                                                *)

Op(p) == job[p].op
Idle(p) == job[p] = None
At(p, s) == ~Idle(p) /\ job[p].step = s

Proceed(p, s) == job' = [job EXCEPT ![p].step = s] /\ UNCHANGED holders

\* release_dotlock
Finish(p) == job' = [job EXCEPT ![p] = None] /\ Leave(p)

\* The callers destroy the handle of an event that is committed.
Forget(p, done) == handle' = IF Op(p) \in done
                             THEN [handle EXCEPT ![p] = None] ELSE handle

\* acquire_dotlock, before anything is read.  If that fails so does the
\* operation, and nothing has changed.
Start(p, op, e, times, over) ==
  /\ Idle(p) /\ op \in Ops
  /\ ops < MaxOps /\ ops' = ops + 1
  /\ Take(p)
  /\ job' = [job EXCEPT ![p] =
       [op |-> op, id |-> e, times |-> times, over |-> over,
        step |-> "rewrite", newindex |-> <<>>, noted |-> {}]]
  /\ UNCHANGED <<store, past, origin, placed, overridden, missed, whole>>

Save(p, h) ==
  \E op \in {"book", "commit"}, times \in Times, over \in BOOLEAN :
    Start(p, op, h.id, times, over) /\ handle' = [handle EXCEPT ![p] = h]

\* pcp_new_eventid, which writes a temporary file, and the first attempt to
\* save the event.  An event that is not booked is given up with no trace.
StartNew(p) ==
  /\ handle[p] # None => ~handle[p].booked
  /\ \E e \in Events \ used, old \in used \cup {None} :
       /\ Save(p, [id |-> e, old |-> old, booked |-> FALSE, saved |-> FALSE])
       /\ used' = used \cup {e}

\* Another attempt, or the commit of a booked event.
StartSave(p) ==
  /\ handle[p] # None /\ Save(p, handle[p])
  /\ UNCHANGED used

StartChange(p) ==
  /\ \E op \in {"cancel", "uncancel", "delete"}, e \in used, over \in BOOLEAN :
       (over => op = "uncancel") /\ Start(p, op, e, {}, over)
  /\ UNCHANGED <<handle, used>>

StartCleanup(p) ==
  Start(p, "cleanup", None, {}, FALSE) /\ UNCHANGED <<handle, used>>

\* destroyeventid: a booked event is deleted.
StartDestroy(p) ==
  /\ handle[p] # None /\ handle[p].booked
  /\ Start(p, "destroy", handle[p].id, {}, FALSE)
  /\ UNCHANGED <<handle, used>>

-----------------------------------------------------------------------------
(* docommitevent: an event is booked, or committed.                        *)

Saving(p) == Op(p) \in {"book", "commit"}
Booking(p) == Op(p) = "book"

\* was_booked: the line of an earlier booking.
Own(p) == IF handle[p].booked /\ Has(index, handle[p].id)
          THEN {handle[p].id} ELSE {}

\* "Booked event disappeared"
Vanished(p) == handle[p].booked /\ Own(p) = {}

\* Variant: any update may be booked for an event.
NeverLocked(p) == FALSE

\* "Event is locked by another book/update?"
Locked(p) ==
  LET old == handle[p].old IN
    /\ Booking(p) /\ Has(index, old)
    /\ LET other == Line(index, old).pendel IN
         other \notin {None, handle[p].id} /\ Has(index, other)

\* Those of a booked event were looked for when it was booked.
Looks(p) == Op(p) = "uncancel" \/ Booking(p) \/ (Saving(p) /\ ~handle[p].booked)

Conflicts(p) ==
  /\ Looks(p) /\ ~job[p].over
  /\ \E r \in ToSet(Without(index, Own(p) \cup {handle[p].old})) :
       Conflict(r, job[p].times)

NewLine(p) ==
  [id |-> handle[p].id, times |-> job[p].times, booked |-> Booking(p),
   cancelled |-> Has(index, handle[p].old)
                   /\ Line(index, handle[p].old).cancelled,
   pendel |-> None]

\* Booking marks the event that is to be replaced, ...
Booked(p) ==
  LET Mark(r) == IF r.id = handle[p].old /\ r.pendel = None
                 THEN [r EXCEPT !.pendel = handle[p].id] ELSE r
      others == Without(index, Own(p))
  IN Append([i \in DOMAIN others |-> Mark(others[i])], NewLine(p))

\* Variant: the booking stays beside the committed event.
CommittedTwice(p) == Append(Without(index, {handle[p].old}), NewLine(p))

\* ... and committing drops it.
Committed(p) ==
  LET others == Without(index, {handle[p].old}) IN
    IF Own(p) = {} THEN Append(others, NewLine(p))
    ELSE Replaced(others, [Line(index, handle[p].id) EXCEPT !.booked = FALSE])

-----------------------------------------------------------------------------
(* The operations on one event.                                            *)

\* uncancelevent: each line's answer replaces that of the line before it.
InTheWay(p) ==
  LET others == Select(index, {r \in ToSet(index) :
                                 r.id # job[p].id /\ ~r.cancelled})
  IN /\ ~job[p].over /\ others # <<>>
     /\ Conflict(Last(others), Line(index, job[p].id).times)

\* Variant: a booked event is committed though its booking is gone.
RefusedBlind(p) ==
  IF Saving(p) THEN Conflicts(p) \/ Locked(p)
  ELSE ~Has(index, job[p].id) \/ (Op(p) = "uncancel" /\ InTheWay(p))

Refused(p) ==
  IF Saving(p) THEN Conflicts(p) \/ Locked(p) \/ Vanished(p)
  ELSE ~Has(index, job[p].id) \/ (Op(p) = "uncancel" /\ InTheWay(p))

\* What goes to .index.tmp.
Draft(p) ==
  LET e == job[p].id IN
    CASE Op(p) = "book" -> Booked(p)
      [] Op(p) = "commit" -> Committed(p)
      [] Op(p) \in {"delete", "destroy"} -> Without(index, {e})
      [] OTHER -> IF Has(index, e)
                  THEN Replaced(index, [Line(index, e) EXCEPT
                                          !.cancelled = (Op(p) = "cancel")])
                  ELSE index

\* deleted_event
Doomed(p) ==
  (CASE Op(p) = "commit" -> {handle[p].old}
     [] Op(p) \in {"delete", "destroy"} -> {job[p].id}
     [] OTHER -> {}) \cap Ids(index)

\* Variant: the file of the old event is unlinked before the index is written.
UnlinkFirst(p) ==
  /\ At(p, "rewrite") /\ Op(p) # "cleanup"
  /\ ~Refused(p)
  /\ files' = files \ Doomed(p)
  /\ job' = [job EXCEPT ![p].newindex = Draft(p), ![p].noted = Doomed(p),
                         ![p].step = IF Op(p) = "commit" THEN "file" ELSE "index"]
  /\ UNCHANGED <<holders, index, past, handle, ops, history>>

Rewrite(p) ==
  /\ At(p, "rewrite") /\ Op(p) # "cleanup"
  /\ ~Refused(p)
  /\ job' = [job EXCEPT ![p].newindex = Draft(p), ![p].noted = Doomed(p),
                         ![p].step = IF Op(p) = "commit" THEN "file" ELSE "index"]
  /\ UNCHANGED <<holders, store, past, handle, ops, history>>

\* Refused, or a file could not be opened or written.  That the booking is
\* gone is seen only when the index has been read.
GiveUp(p) ==
  /\ At(p, "rewrite") /\ Op(p) # "cleanup"
  /\ \/ Forget(p, {"destroy"})
     \/ Saving(p) /\ Vanished(p) /\ handle' = [handle EXCEPT ![p].booked = FALSE]
  /\ Finish(p)
  /\ UNCHANGED <<store, past, ops, history>>

-----------------------------------------------------------------------------
(* cleanup                                                                 *)

\* aged: the bookings that are older than an hour.
Keeps(r, aged) ==
  IF r.booked THEN r.id \notin aged ELSE r.id \in files /\ ~Expired(r)

Swept ==
  {Select(index, {r \in ToSet(index) : Keeps(r, aged)}) :
     aged \in SUBSET {r.id : r \in {l \in ToSet(index) : l.booked}}}

Sweep(p) ==
  /\ At(p, "rewrite") /\ Op(p) = "cleanup"
  /\ \E kept \in Swept :
       job' = [job EXCEPT ![p].newindex = kept, ![p].noted = Ids(kept),
                          ![p].step = "index"]
  /\ UNCHANGED <<holders, store, past, handle, ops, history>>

\* A write failed; what was written is renamed all the same.  So is what an
\* operation before has left there, if .index.tmp cannot even be opened: that
\* is left out, for nothing can be said of the calendar from then on.
SweepFails(p) ==
  /\ At(p, "rewrite") /\ Op(p) = "cleanup"
  /\ \E kept \in Swept : \E n \in 0..Len(kept) :
       job' = [job EXCEPT ![p].newindex = SubSeq(kept, 1, n),
                          ![p].step = "broken"]
  /\ UNCHANGED <<holders, store, past, handle, ops, history>>

InstallBroken(p) ==
  /\ At(p, "broken")
  /\ index' = job[p].newindex
  /\ whole' = FALSE
  /\ Finish(p)
  /\ UNCHANGED <<files, past, handle, ops, used, origin, placed,
                 overridden, missed>>

\* The files that are in no line.
Scan(p) ==
  /\ At(p, "scan")
  /\ \/ /\ files \subseteq job[p].noted
        /\ Finish(p)
        /\ UNCHANGED files
     \/ \E e \in files \ job[p].noted :
          /\ files' = files \ {e}
          /\ Proceed(p, "scan")
  /\ UNCHANGED <<index, past, handle, ops, history>>

-----------------------------------------------------------------------------
(* The new index is put in place.                                          *)

\* rename(ae->tmpfile, ae->newfile): only once.
NameFile(p) ==
  /\ At(p, "file") /\ ~handle[p].saved
  /\ files' = files \cup {handle[p].id}
  /\ handle' = [handle EXCEPT ![p].saved = TRUE]
  /\ Proceed(p, "index")
  /\ UNCHANGED <<index, past, ops, history>>

AfterInstall(p) ==
  CASE Op(p) = "cleanup" -> Proceed(p, "scan")
    [] Op(p) \in {"commit", "delete", "destroy"} -> Proceed(p, "unlink")
    [] OTHER -> Finish(p)

\* What the calendar promises from now on.
Promise(p) ==
  LET e == job[p].id
      gone == {r.id : r \in {l \in ToSet(index) : \A s \in l.times : s <= past}}
      times == IF Saving(p) THEN job[p].times ELSE Line(index, e).times
      apart == IF Saving(p) THEN {e, handle[p].old} ELSE {e}
      clashes == \E r \in ToSet(Without(index, apart)) : Conflict(r, times)
  IN
    /\ placed' = CASE Op(p) = "commit" -> (placed \cup {e}) \ {handle[p].old}
                   [] Op(p) \in {"delete", "destroy"} -> placed \ {e}
                   [] Op(p) = "cleanup" -> placed \ gone
                   [] OTHER -> placed
    /\ overridden' = overridden \cup
         (IF Looks(p) /\ job[p].over /\ clashes THEN {e} ELSE {})
    /\ missed' = missed \cup
         (IF Op(p) = "uncancel" /\ ~job[p].over /\ clashes THEN {e} ELSE {})
    /\ origin' = CASE Op(p) = "book" -> [origin EXCEPT ![e] = handle[p].old]
                   [] Op(p) = "commit" -> [origin EXCEPT ![e] = None]
                   [] OTHER -> origin
    /\ UNCHANGED <<used, whole>>

\* rename(.index.tmp, index)
Install(p) ==
  /\ At(p, "index")
  /\ index' = job[p].newindex
  /\ handle' = CASE Op(p) = "book" -> [handle EXCEPT ![p].booked = TRUE]
                 [] Op(p) = "commit" -> [handle EXCEPT ![p].booked = FALSE]
                 [] OTHER -> handle
  /\ AfterInstall(p)
  /\ Promise(p)
  /\ UNCHANGED <<files, past, ops>>

\* A rename failed.  A commit that is tried again fails for good if the file
\* has got its name.
RenameFails(p) ==
  /\ At(p, "file") \/ At(p, "index") \/ At(p, "broken")
  /\ Forget(p, {"destroy"})
  /\ Finish(p)
  /\ UNCHANGED <<store, past, ops, history>>

\* unlink(deleted_event)
UnlinkOld(p) ==
  /\ At(p, "unlink")
  /\ files' = files \ job[p].noted
  /\ Forget(p, {"commit", "destroy"})
  /\ Finish(p)
  /\ UNCHANGED <<index, past, ops, history>>

-----------------------------------------------------------------------------

Tick ==
  /\ past < MaxSlot
  /\ past' = past + 1
  /\ UNCHANGED <<holders, store, handle, job, ops, history>>

\* A process is killed, with what it had in memory, and another takes its
\* place; or destroyeventid does not get the lock.
Kill(p) ==
  /\ handle[p] # None \/ ~Idle(p)
  /\ holders' = holders \ {p}
  /\ handle' = [handle EXCEPT ![p] = None]
  /\ job' = [job EXCEPT ![p] = None]
  /\ UNCHANGED <<store, past, ops, history>>

Begin(p) ==
  StartNew(p) \/ StartSave(p) \/ StartChange(p) \/ StartCleanup(p)
    \/ StartDestroy(p)

Work(p) ==
  \/ Rewrite(p) \/ GiveUp(p) \/ Sweep(p) \/ SweepFails(p)
  \/ NameFile(p) \/ Install(p) \/ InstallBroken(p) \/ RenameFails(p)
  \/ UnlinkOld(p) \/ Scan(p)

Next == Tick \/ \E p \in Procs : Begin(p) \/ Work(p) \/ Kill(p)

Spec == Init /\ [][Next]_vars

-----------------------------------------------------------------------------
(* Properties.                                                             *)

\* A booking may overlap with the event that it is to replace.
Replaces(r, old) == r.booked /\ origin[r.id] = old.id

Clash(i, j) ==
  /\ i # j /\ ~index[i].cancelled /\ ~index[j].cancelled
  /\ index[i].times \cap index[j].times # {}
  /\ ~Replaces(index[i], index[j]) /\ ~Replaces(index[j], index[i])

\* Events that take place at the same time were put there by someone who
\* asked for it, whoever booked, committed, cancelled, expired or died in
\* between.  The one exception is uncancelevent.
\* (docommitevent, pcp_is_conflict)
NoDoubleBooking ==
  \A i, j \in DOMAIN index :
    Clash(i, j) => {index[i].id, index[j].id} \cap (overridden \cup missed) # {}

\* Every line of an event that was committed has its file, at every step of
\* every operation: those who read the calendar take no lock.
\* (docommitevent, deleteevent, cleanup, retrevent)
LinesHaveFiles ==
  \A i \in DOMAIN index : index[i].booked \/ index[i].id \in files

\* An event that was committed stays in the calendar until it is deleted,
\* replaced or expired, as long as no cleanup meets a full disk.
\* (docommitevent, cleanup)
CommittedStays ==
  whole => \A e \in placed :
    e \in files /\ \E i \in DOMAIN index : index[i].id = e /\ ~index[i].booked

\* The lines of the index are those of a calendar in which every operation is
\* one step.  What was written to .index.tmp while others were killed, or tried
\* to get in, is what the lines call for at the moment when it takes the name.
\* (docommitevent, deleteevent, cancelevent, uncancelevent, cleanup)
AsEntries == INSTANCE Calendar WITH lines <- ToSet(index)

ImplementsCalendar == AsEntries!EntriesSpec

=============================================================================
