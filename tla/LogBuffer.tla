------------------------------ MODULE LogBuffer ------------------------------
(* The log of a Helm action (internal/action/log.go): a ring buffer of      *)
(* lines in which repetitions of a message are one line.  Helm's goroutines *)
(* append to it under its mutex while the reconciler may read it for the    *)
(* event of a failure.                                                      *)
EXTENDS Integers, Sequences

CONSTANTS
  Size,        \* of the ring
  Messages,
  MaxAppends

ASSUME LogAssumption == Size \in Nat \ {0} /\ MaxAppends \in Nat

VARIABLES
  ring,   \* the lines, a circle
  buf,    \* where the next line goes
  log     \* ghost: all messages in the order of their appending

logVars == <<ring, buf, log>>

\* The time of an append is its number in the log.  first is the time stamp
\* of the line, last that of its latest repetition.
NoLine == [shown |-> FALSE, msg |-> CHOOSE m \in Messages : TRUE, first |-> 0, last |-> 0, count |-> 0]
Line(m, t) == [shown |-> TRUE, msg |-> m, first |-> t, last |-> t, count |-> 0]
Repeated(l, t) == [l EXCEPT !.count = l.count + 1, !.last = t]

Positions == 0..Size - 1
NextPos(i) == IF i = Size - 1 THEN 0 ELSE i + 1
\* The k-th line back from where the next one goes, for k in 1..Size.
Back(k) == IF buf >= k THEN buf - k ELSE buf - k + Size
Recent(k) == ring[Back(k)]

LogInit ==
  /\ ring = [i \in Positions |-> NoLine]
  /\ buf = 0
  /\ log = << >>

Now == Len(log) + 1

\* Mutant: a message is compared with the line that is about to go.
AppendfComparesOldest(m) ==
  /\ Len(log) < MaxAppends
  /\ log' = Append(log, m)
  /\ IF ring[buf].shown /\ ring[buf].msg = m
     THEN /\ ring' = [ring EXCEPT ![buf] = Repeated(ring[buf], Now)]
          /\ UNCHANGED buf
     ELSE /\ ring' = [ring EXCEPT ![buf] = Line(m, Now)]
          /\ buf' = NextPos(buf)

Appendf(m) ==
  /\ Len(log) < MaxAppends
  /\ log' = Append(log, m)
  /\ IF Recent(1).shown /\ Recent(1).msg = m
     THEN /\ ring' = [ring EXCEPT ![Back(1)] = Repeated(Recent(1), Now)]
          /\ UNCHANGED buf
     ELSE /\ ring' = [ring EXCEPT ![buf] = Line(m, Now)]
          /\ buf' = NextPos(buf)

LogNext == \E m \in Messages : Appendf(m)

LogSpec == LogInit /\ [][LogNext]_logVars

(* ------------------------------ properties ----------------------------- *)

\* A line stands for a stretch of equal messages of the log.
StandsForLog(l) ==
  /\ l.first \in 1..Len(log) /\ l.last \in l.first..Len(log)
  /\ l.count = l.last - l.first
  /\ \A t \in l.first..l.last : log[t] = l.msg

\* The buffer shows the end of the log: its lines stand for adjacent
\* stretches of different messages up to the latest, and reach back to the
\* beginning unless the buffer is full (Appendf and String).
ShowsEndOfLog ==
  /\ Recent(1).shown <=> log # << >>
  /\ Recent(1).shown => Recent(1).last = Len(log)
  /\ \A k \in 1..Size : Recent(k).shown => StandsForLog(Recent(k))
  /\ \A k \in 1..Size - 1 :
       IF Recent(k + 1).shown
       THEN /\ Recent(k).shown
            /\ Recent(k + 1).last + 1 = Recent(k).first
            /\ Recent(k + 1).msg # Recent(k).msg
       ELSE Recent(k).shown => Recent(k).first = 1
=============================================================================
