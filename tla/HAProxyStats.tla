---------------------------- MODULE HAProxyStats ----------------------------
(***************************************************************************)
(* modules/tesora_cyclone/files/git/haproxy-statsd.py: haproxy's counters  *)
(* as statsd increments.                                                   *)
(*                                                                         *)
(* Every ten seconds the daemon reads a table from haproxy's socket, a row *)
(* for each frontend, backend and server, and sends how much each counter  *)
(* has grown since it last looked.  haproxy fills in the rows one after    *)
(* another while it serves, counts from zero after a restart, and may      *)
(* close the socket in the middle of a row.  What the daemon remembers is  *)
(* lost when it is restarted.                                              *)
(*                                                                         *)
(* The values of gauges are left out; a gauge that is missing is not.      *)
(***************************************************************************)
EXTENDS Integers, Sequences, FiniteSets

CONSTANTS
    NRows,          \* rows of the table
    Columns,        \* its columns, in haproxy's order
    GAUGES,         \* the columns that the daemon wants for gauges
    COUNTERS,       \* those of counters, in the daemon's order
    Blank,          \* the <<row, counter>> that haproxy leaves empty
    MaxServed,      \* bound: what haproxy counts in one life
    MaxStops,       \* bound: stops of haproxy
    MaxFaults,      \* bound: answers that are late or cut short
    MaxDeaths       \* bound: restarts of the daemon

Rows == 1..NRows
CounterNames == {COUNTERS[k] : k \in 1..Len(COUNTERS)}
Metrics == (Rows \X CounterNames) \ Blank

ASSUME TableAssumption ==
    /\ NRows \in Nat
    /\ Columns \in Seq(STRING)
    /\ COUNTERS \in Seq(STRING)

VARIABLES
    served,     \* haproxy: metric -> what it counts
    listening,  \* haproxy: it answers on its socket
    pc,         \* the daemon: "sleep", "read" or "report"
    answer,     \* the rows read: how many columns of each, and its counters
    row,        \* the row it reports
    key,        \* the counter it reports, 0 for the row's gauges
    prevdata,   \* metric -> what it last was, for those that were seen
    earlier,    \* history: metric -> what earlier lives of haproxy counted
    sent,       \* history: metric -> the sum of the increments
    base,       \* history: metric -> sum of increments minus first value
    stops, faults, deaths   \* how many there were

haproxy == <<served, listening, earlier, stops>>
position == <<answer, row, key>>
report == <<prevdata, sent, base>>
vars == <<served, listening, pc, answer, row, key, prevdata, earlier, sent,
          base, stops, faults, deaths>>

Zero == [m \in Metrics |-> 0]
Put(f, x, v) == [y \in DOMAIN f \cup {x} |-> IF y = x THEN v ELSE f[y]]

Init ==
    /\ served = Zero /\ listening = TRUE
    /\ pc = "sleep" /\ answer = <<>> /\ row = 1 /\ key = 0
    /\ prevdata = <<>>
    /\ earlier = Zero /\ sent = Zero /\ base = Zero
    /\ stops = 0 /\ faults = 0 /\ deaths = 0

-----------------------------------------------------------------------------
(* haproxy.                                                                *)

Serve(m) ==
    /\ listening /\ served[m] < MaxServed
    /\ served' = [served EXCEPT ![m] = @ + 1]
    /\ UNCHANGED <<listening, pc, position, report, earlier, stops, faults, deaths>>

\* The next row of the table as it is sent now, down to the first n columns,
\* and, for reference, what earlier lives of haproxy have counted for it.  An
\* empty counter is none of the metrics.
RowNow(n) ==
    LET Of(f) == [c \in CounterNames |->
                     IF <<Len(answer) + 1, c>> \in Metrics THEN f[<<Len(answer) + 1, c>>] ELSE 0]
    IN  [columns |-> n, value |-> Of(served), before |-> Of(earlier)]

\* haproxy stops answering: the rows that were read are all there is, and the
\* last one may have broken off.  One without any column left ends the report
\* as no row does.
Broken(n) == IF n = 0 THEN answer ELSE Append(answer, RowNow(n))

\* It exits, and closes its sockets.
Stop ==
    /\ listening /\ stops < MaxStops
    /\ listening' = FALSE /\ stops' = stops + 1
    /\ \/ /\ pc = "read"
          /\ \E n \in 0..(Len(Columns) - 1) :
                answer' = IF Len(answer) < NRows THEN Broken(n) ELSE answer
          /\ pc' = "report" /\ row' = 1 /\ key' = 0
       \/ pc # "read" /\ UNCHANGED <<pc, position>>
    /\ UNCHANGED <<served, report, earlier, faults, deaths>>

\* It comes back, and counts from zero.
Start ==
    /\ ~listening
    /\ listening' = TRUE
    /\ earlier' = [m \in Metrics |-> earlier[m] + served[m]]
    /\ served' = Zero
    /\ UNCHANGED <<pc, position, report, stops, faults, deaths>>

-----------------------------------------------------------------------------
(* The daemon.                                                             *)

\* command: connect and ask.  Where nobody listens this is an exception, and
\* the loop goes on.
Poll ==
    /\ pc = "sleep" /\ listening
    /\ pc' = "read" /\ answer' = <<>>
    /\ UNCHANGED <<haproxy, row, key, report, faults, deaths>>

\* The next row arrives.
ReadRow ==
    /\ pc = "read" /\ Len(answer) < NRows
    /\ answer' = Append(answer, RowNow(Len(Columns)))
    /\ UNCHANGED <<haproxy, pc, row, key, report, faults, deaths>>

\* haproxy has sent everything and closes the connection.
EndOfAnswer ==
    /\ pc = "read" /\ Len(answer) = NRows
    /\ pc' = "report" /\ row' = 1 /\ key' = 0
    /\ UNCHANGED <<haproxy, answer, report, faults, deaths>>

\* haproxy's own timeout closes it before: to the daemon it is the end.
CutShort ==
    /\ pc = "read" /\ Len(answer) < NRows /\ faults < MaxFaults
    /\ \E n \in 0..(Len(Columns) - 1) : answer' = Broken(n)
    /\ pc' = "report" /\ row' = 1 /\ key' = 0 /\ faults' = faults + 1
    /\ UNCHANGED <<haproxy, report, deaths>>

\* No more data for five seconds: the exception drops the answer.
TimedOut ==
    /\ pc = "read" /\ faults < MaxFaults
    /\ pc' = "sleep" /\ answer' = <<>> /\ faults' = faults + 1
    /\ UNCHANGED <<haproxy, row, key, report, deaths>>

\* getStats drops the last field of every line: the empty one behind the last
\* comma, or the one that has broken off.
Columns_(r) == {Columns[i] : i \in 1..answer[r].columns}

Sleep == pc' = "sleep" /\ answer' = <<>> /\ row' = 1 /\ key' = 0

\* Mutant: after an exception the same answer is reported again.
GaugesAgain ==
    /\ pc = "report" /\ row <= Len(answer) /\ key = 0
    /\ IF GAUGES \subseteq Columns_(row)
         THEN key' = 1 /\ UNCHANGED <<pc, answer, row>>
         ELSE row' = 1 /\ UNCHANGED <<pc, answer, key>>
    /\ UNCHANGED <<haproxy, report, faults, deaths>>

\* The row's gauges.  One that the row does not have is an exception, that of
\* run(), and ends the report.
Gauges ==
    /\ pc = "report" /\ row <= Len(answer) /\ key = 0
    /\ IF GAUGES \subseteq Columns_(row)
         THEN key' = 1 /\ UNCHANGED <<pc, answer, row>>
         ELSE Sleep
    /\ UNCHANGED <<haproxy, report, faults, deaths>>

\* Mutant: what is seen first has grown from zero.
IncrementFromZero(m, newvalue) ==
    LET oldvalue == IF m \in DOMAIN prevdata THEN prevdata[m] ELSE 0 IN
    /\ sent' = [sent EXCEPT ![m] = @ + (newvalue - oldvalue)]
    /\ prevdata' = Put(prevdata, m, newvalue)
    /\ UNCHANGED base

\* Mutant: nothing is sent for a counter that went down.
IncrementUpwards(m, newvalue) ==
    /\ IF m \in DOMAIN prevdata
         THEN /\ sent' = [sent EXCEPT ![m] =
                    @ + (IF newvalue > prevdata[m] THEN newvalue - prevdata[m] ELSE 0)]
              /\ UNCHANGED base
         ELSE /\ base' = [base EXCEPT ![m] = sent[m] - newvalue]
              /\ UNCHANGED sent
    /\ prevdata' = Put(prevdata, m, newvalue)

\* Send how much a counter has grown since it was last seen, and remember it.
Increment(m, newvalue) ==
    /\ IF m \in DOMAIN prevdata
         THEN /\ sent' = [sent EXCEPT ![m] = @ + (newvalue - prevdata[m])]
              /\ UNCHANGED base
         ELSE /\ base' = [base EXCEPT ![m] = sent[m] - newvalue]
              /\ UNCHANGED sent
    /\ prevdata' = Put(prevdata, m, newvalue)

\* One counter of the row.
Counter ==
    /\ pc = "report" /\ row <= Len(answer) /\ key \in 1..Len(COUNTERS)
    /\ LET m == <<row, COUNTERS[key]>> IN
         \/ /\ COUNTERS[key] \notin Columns_(row)
            /\ Sleep /\ UNCHANGED report
         \/ /\ COUNTERS[key] \in Columns_(row)
            /\ IF m \in Blank THEN UNCHANGED report
                              ELSE Increment(m, answer[row].value[COUNTERS[key]])
            /\ key' = key + 1 /\ UNCHANGED <<pc, answer, row>>
    /\ UNCHANGED <<haproxy, faults, deaths>>

NextRow ==
    /\ pc = "report" /\ row <= Len(answer) /\ key > Len(COUNTERS)
    /\ row' = row + 1 /\ key' = 0
    /\ UNCHANGED <<haproxy, pc, answer, report, faults, deaths>>

Reported ==
    /\ pc = "report" /\ row > Len(answer)
    /\ Sleep
    /\ UNCHANGED <<haproxy, report, faults, deaths>>

\* The daemon is restarted, for a new version of it, and starts from nothing.
Restart ==
    /\ deaths < MaxDeaths
    /\ prevdata' = <<>> /\ deaths' = deaths + 1
    /\ Sleep
    /\ UNCHANGED <<haproxy, sent, base, faults>>

Daemon == \/ Poll \/ ReadRow \/ EndOfAnswer \/ Gauges \/ Counter \/ NextRow \/ Reported

Next ==
    \/ \E m \in Metrics : Serve(m)
    \/ Stop \/ Start
    \/ Daemon
    \/ CutShort \/ TimedOut \/ Restart

Spec == Init /\ [][Next]_vars

\* haproxy comes back and the daemon's loop never ends.  Nobody has to connect.
FairSpec == Spec /\ WF_vars(Start) /\ WF_vars(Daemon)

-----------------------------------------------------------------------------
(* Properties.                                                             *)

Row == [columns : Nat, value : [CounterNames -> Nat], before : [CounterNames -> Nat]]

TypeOK ==
    /\ served \in [Metrics -> Nat] /\ earlier \in [Metrics -> Nat]
    /\ listening \in BOOLEAN
    /\ pc \in {"sleep", "read", "report"}
    /\ answer \in Seq(Row) /\ Len(answer) <= NRows
    /\ row \in Nat \ {0} /\ key \in Nat
    /\ DOMAIN prevdata \subseteq Metrics
    /\ \A m \in DOMAIN prevdata : prevdata[m] \in Nat
    /\ sent \in [Metrics -> Int] /\ base \in [Metrics -> Int]
    /\ stops \in Nat /\ faults \in Nat /\ deaths \in Nat

\* No connection, byte or error is counted twice, whatever is restarted and
\* however answers break off: the increments of a metric never add up to more
\* than all lives of haproxy have counted.  (reportStats sends nothing for a
\* value that it sees first.)
NoDoubleCount ==
    \A m \in Metrics : sent[m] <= earlier[m] + served[m]

\* Nothing between the first and the last value gets lost, though rows and
\* whole answers do: the increments since the daemon started add up to their
\* difference.  (prevdata is only written together with an increment.)
NothingLost ==
    \A m \in DOMAIN prevdata : sent[m] - prevdata[m] = base[m]

\* A metric goes down only when haproxy has been restarted.
DownOnRestart ==
    [][\A m \in Metrics : sent'[m] < sent[m] => stops > 0]_vars

\* What NoDoubleCount rests on, for every metric and every row that is being
\* read or reported: increments beyond what is remembered are those of earlier
\* lives, and a value in a row is still ahead of what was sent.
Ahead(m) ==
    m \in DOMAIN prevdata => sent[m] - prevdata[m] <= earlier[m]

RowAhead(m, value, before) ==
    /\ before <= earlier[m] /\ before + value <= earlier[m] + served[m]
    /\ m \in DOMAIN prevdata => sent[m] - prevdata[m] <= before
    /\ m \notin DOMAIN prevdata => sent[m] <= before + value

\* Values only go up as long as haproxy runs.
Rising(m) ==
    m \in DOMAIN prevdata => prevdata[m] <= served[m]

RowRising(m, value) ==
    /\ value <= served[m]
    /\ m \in DOMAIN prevdata => prevdata[m] <= value

StatsInv ==
    /\ \A m \in Metrics : Ahead(m)
    /\ \A m \in Metrics : m[1] \in 1..Len(answer) =>
           RowAhead(m, answer[m[1]].value[m[2]], answer[m[1]].before[m[2]])

RisingInv ==
    stops = 0 =>
        /\ listening
        /\ \A m \in Metrics : Rising(m)
        /\ \A m \in Metrics : m[1] \in 1..Len(answer) => RowRising(m, answer[m[1]].value[m[2]])

\* When haproxy is left alone and has no more to count, the daemon gets to
\* report everything, whatever has failed before.
CatchesUp ==
    <>[](\A m \in Metrics : m \in DOMAIN prevdata /\ prevdata[m] = served[m])

=============================================================================
