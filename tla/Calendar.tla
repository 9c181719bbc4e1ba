------------------------------- MODULE Calendar -------------------------------
(***************************************************************************)
(* What the calendar of src/src/pcp/pcpdir.c promises: a set of lines that *)
(* every operation changes in one step or not at all, whoever else is at   *)
(* work or is killed, and who is to blame when events overlap.             *)
(***************************************************************************)
EXTENDS Integers

CONSTANTS None, Events, Times

VARIABLES
  lines,        \* the lines, one for each event at most
  origin,       \* origin[e] : what e is to replace, while it is booked
  overridden,   \* events that were put over others because someone asked
  missed,       \* events that were revived over others unasked
  past,         \* the slots up to this one have expired
  whole         \* no cleanup has lost lines on a full disk

blame == <<overridden, missed>>
entries == <<lines, origin, blame, past, whole>>

EntriesInit ==
  /\ lines = {} /\ origin = [e \in Events |-> None]
  /\ overridden = {} /\ missed = {}
  /\ past = 0 /\ whole = TRUE

Of(e) == {r \in lines : r.id = e}

\* Nothing takes place at these times but what is excepted, or cancelled.
Free(times, but) ==
  \A r \in lines : r.id \in but \/ r.cancelled \/ r.times \cap times = {}

\* An event that replaces a cancelled one is cancelled.
Entry(e, old, times, booked) ==
  [id |-> e, times |-> times, booked |-> booked,
   cancelled |-> \E r \in Of(old) : r.cancelled, pendel |-> None]

\* Who puts an event over others has asked for it.
PutOver(e, old, times) ==
  /\ overridden' = overridden \cup (IF Free(times, {e, old}) THEN {} ELSE {e})
  /\ UNCHANGED <<missed, past, whole>>

\* The event that is to be replaced remembers who booked that first.
Marked(r, e, old) ==
  IF r.id = old /\ r.pendel = None THEN [r EXCEPT !.pendel = e] ELSE r

\* A new event, or one that is booked and shall take place at other times.
Book(e, old, times) ==
  /\ origin' = [origin EXCEPT ![e] = old]
  /\ PutOver(e, old, times)
  /\ \A r \in Of(e) : r.booked
  /\ \A r \in Of(old) : r.pendel \in {None, e} \/ Of(r.pendel) = {}
  /\ lines' = {Marked(r, e, old) : r \in lines \ Of(e)}
                \cup {Entry(e, old, times, TRUE)}

CommitNew(e, old, times) ==
  /\ origin' = [origin EXCEPT ![e] = None]
  /\ PutOver(e, old, times)
  /\ Of(e) = {}
  /\ lines' = (lines \ Of(old)) \cup {Entry(e, old, times, FALSE)}

\* A booked event takes the place of the one that it was booked for.
CommitBooked(e) ==
  /\ origin' = [origin EXCEPT ![e] = None]
  /\ \E r \in Of(e) :
       /\ r.booked
       /\ lines' = (lines \ (Of(origin[e]) \cup Of(e)))
                     \cup {[r EXCEPT !.booked = FALSE]}
  /\ UNCHANGED <<blame, past, whole>>

Cancel(e) ==
  /\ \E r \in Of(e) :
       lines' = (lines \ Of(e)) \cup {[r EXCEPT !.cancelled = TRUE]}
  /\ UNCHANGED <<origin, blame, past, whole>>

\* The code asks only the last line whether the event is in the way.
Revive(e) ==
  /\ \E r \in Of(e) :
       /\ lines' = (lines \ Of(e)) \cup {[r EXCEPT !.cancelled = FALSE]}
       /\ \/ Free(r.times, {e}) /\ UNCHANGED blame
          \/ /\ ~Free(r.times, {e})
             /\ \/ overridden' = overridden \cup {e} /\ UNCHANGED missed
                \/ missed' = missed \cup {e} /\ UNCHANGED overridden
  /\ UNCHANGED <<origin, past, whole>>

Delete(e) ==
  /\ Of(e) # {} /\ lines' = lines \ Of(e)
  /\ UNCHANGED <<origin, blame, past, whole>>

\* Only bookings and what has expired may go.
CleanUp ==
  /\ lines' \subseteq lines
  /\ \A r \in lines \ lines' : r.booked \/ \A s \in r.times : s <= past
  /\ UNCHANGED <<origin, blame, past, whole>>

\* A cleanup for which there is no room.
Lose ==
  /\ lines' \subseteq lines /\ whole' = FALSE
  /\ UNCHANGED <<origin, blame, past>>

Pass == past' = past + 1 /\ UNCHANGED <<lines, origin, blame, whole>>

EntriesNext ==
  \/ \E e \in Events, old \in Events \cup {None}, times \in Times :
       e # old /\ (Book(e, old, times) \/ CommitNew(e, old, times))
  \/ \E e \in Events : CommitBooked(e) \/ Cancel(e) \/ Revive(e) \/ Delete(e)
  \/ CleanUp \/ Lose \/ Pass

EntriesSpec == EntriesInit /\ [][EntriesNext]_entries

===============================================================================
