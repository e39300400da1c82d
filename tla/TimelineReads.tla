---------------------------- MODULE TimelineReads ----------------------------
(***************************************************************************)
(* What session/timeline promises who asks for the events of a session:    *)
(* those of its journal at some moment between the question and the        *)
(* answer, which may hold what was written later, and nothing else.        *)
(***************************************************************************)
EXTENDS Naturals, Sequences

CONSTANT Reader   \* who asks

VARIABLES
  past,   \* all that the journal has held, version by version
  asked,  \* per reader: the version when it asked, 0 when it does not wait
  told    \* per reader: the answer on its way, if there is one: the lines that its
          \* events begin with, and those that have gone into them

reads == <<past, asked, told>>

ReadsInit ==
  /\ Len(past) = 1
  /\ asked = [r \in Reader |-> 0]
  /\ told = [r \in Reader |-> << >>]

Changes ==
  /\ Len(past') = Len(past) + 1 /\ \A v \in 1 .. Len(past) : past'[v] = past[v]
  /\ UNCHANGED <<asked, told>>

Asks(r) ==
  /\ asked[r] = 0 /\ asked' = [asked EXCEPT ![r] = Len(past)]
  /\ UNCHANGED <<past, told>>

Leads(x, y) == Len(x) <= Len(y) /\ x = SubSeq(y, 1, Len(x))

\* The events are those of a version since v0, and hold the first lines of one.
Fresh(v0, events, lines) ==
  /\ \E v \in v0 .. Len(past) : events = past[v]
  /\ \E w \in v0 .. Len(past) : Leads(lines, past[w])
  /\ Leads(events, lines)

\* An answer is found; or on its way it comes to hold more; or it is none, as the
\* journal could not be read or was rewritten and not only appended to.
Tells(r) ==
  \/ told'[r] \in {told[r], << >>}
  \/ /\ asked[r] # 0 /\ told'[r] # << >>
     /\ Fresh(asked[r], told'[r][1], told'[r][2])
     /\ told[r] # << >> => told'[r][1] = told[r][1] /\ Len(told'[r][2]) > Len(told[r][2])

Serves == (\A r \in Reader : Tells(r)) /\ UNCHANGED <<past, asked>>

\* The answer arrives.
Ends(r) ==
  /\ asked[r] # 0 /\ asked' = [asked EXCEPT ![r] = 0]
  /\ told' = [told EXCEPT ![r] = << >>]
  /\ UNCHANGED past

ReadsNext == Changes \/ Serves \/ \E r \in Reader : Asks(r) \/ Ends(r)

ReadsSpec == ReadsInit /\ [][ReadsNext]_reads
=============================================================================
