-------------------------- MODULE HAProxyStatsProofs --------------------------
(* haproxy's counters in statsd, for any table and any number of restarts. *)
EXTENDS HAProxyStats, TLAPS

\* A metric is a row and a counter.
LEMMA MetricParts ==
    ASSUME NEW m \in Metrics
    PROVE  m[1] \in Rows /\ m[2] \in CounterNames /\ m = <<m[1], m[2]>>
BY DEF Metrics, CounterNames

LEMMA RowTyped ==
    ASSUME TypeOK, NEW n \in Nat
    PROVE  /\ RowNow(n) \in Row
           /\ \A m \in Metrics : m[1] = Len(answer) + 1 =>
                RowNow(n).value[m[2]] = served[m] /\ RowNow(n).before[m[2]] = earlier[m]
<1>1. RowNow(n) \in Row
  BY DEF RowNow, Row, TypeOK
<1>2. ASSUME NEW m \in Metrics, m[1] = Len(answer) + 1
      PROVE  RowNow(n).value[m[2]] = served[m] /\ RowNow(n).before[m[2]] = earlier[m]
  BY <1>2, MetricParts DEF RowNow
<1> QED
  BY <1>1, <1>2

\* What appending a row does to the answer.
LEMMA Appended ==
    ASSUME TypeOK, NEW x \in Row
    PROVE  /\ Append(answer, x) \in Seq(Row)
           /\ Len(Append(answer, x)) = Len(answer) + 1
           /\ \A i \in 1..Len(answer) : Append(answer, x)[i] = answer[i]
           /\ Append(answer, x)[Len(answer) + 1] = x
BY DEF TypeOK

\* What an increment changes, and what of other metrics stays.
LEMMA Incremented ==
    ASSUME TypeOK, NEW m \in Metrics, NEW v \in Nat, Increment(m, v)
    PROVE  /\ prevdata'[m] = v /\ DOMAIN prevdata' = DOMAIN prevdata \cup {m}
           /\ m \in DOMAIN prevdata => sent'[m] = sent[m] + (v - prevdata[m]) /\ base'[m] = base[m]
           /\ m \notin DOMAIN prevdata => sent'[m] = sent[m] /\ base'[m] = sent[m] - v
           /\ \A x \in Metrics : x # m =>
                /\ sent'[x] = sent[x] /\ base'[x] = base[x]
                /\ x \in DOMAIN prevdata' <=> x \in DOMAIN prevdata
                /\ x \in DOMAIN prevdata => prevdata'[x] = prevdata[x]
<1>1. prevdata' = Put(prevdata, m, v)
  BY DEF Increment
<1>2. /\ prevdata'[m] = v /\ DOMAIN prevdata' = DOMAIN prevdata \cup {m}
      /\ \A x \in DOMAIN prevdata : x # m => prevdata'[x] = prevdata[x]
  BY <1>1 DEF Put
<1>3. m \in DOMAIN prevdata => sent'[m] = sent[m] + (v - prevdata[m]) /\ base'[m] = base[m]
  BY DEF Increment, TypeOK
<1>4. m \notin DOMAIN prevdata => sent'[m] = sent[m] /\ base'[m] = sent[m] - v
  BY DEF Increment, TypeOK
<1>5. \A x \in Metrics : x # m => sent'[x] = sent[x] /\ base'[x] = base[x]
  BY DEF Increment, TypeOK
<1> QED
  BY <1>2, <1>3, <1>4, <1>5

\* The numbers of a row that was read.
LEMMA RowNumbers ==
    ASSUME TypeOK, NEW m \in Metrics, m[1] \in 1..Len(answer)
    PROVE  answer[m[1]].value[m[2]] \in Nat /\ answer[m[1]].before[m[2]] \in Nat
<1>1. answer[m[1]] \in Row
  BY DEF TypeOK
<1> QED
  BY <1>1, MetricParts DEF Row

\* A step of the report either reports nothing or the value of a metric in the
\* answer.
LEMMA CounterReports ==
    ASSUME TypeOK, Counter
    PROVE  \/ UNCHANGED report
           \/ \E m \in Metrics :
                 /\ m[1] \in 1..Len(answer)
                 /\ answer[m[1]].value[m[2]] \in Nat
                 /\ Increment(m, answer[m[1]].value[m[2]])
                 /\ UNCHANGED answer
<1> DEFINE m == <<row, COUNTERS[key]>>
<1>1. CASE UNCHANGED report
  BY <1>1
<1>2. CASE ~UNCHANGED report
  <2>1. /\ m \notin Blank /\ Increment(m, answer[row].value[COUNTERS[key]])
        /\ UNCHANGED answer
    BY <1>2 DEF Counter
  <2>2. row \in 1..Len(answer) /\ row \in Rows /\ COUNTERS[key] \in CounterNames
    BY TableAssumption DEF Counter, TypeOK, Rows, CounterNames
  <2>3. m \in Metrics /\ m[1] = row /\ m[2] = COUNTERS[key]
    BY <2>1, <2>2 DEF Metrics
  <2>4. answer[row] \in Row
    BY <2>2 DEF TypeOK
  <2>5. answer[row].value[COUNTERS[key]] \in Nat
    BY <2>2, <2>4 DEF Row
  <2> QED
    BY <2>1, <2>2, <2>3, <2>5
<1> QED
  BY <1>1, <1>2

-----------------------------------------------------------------------------

\* The state has its type: whatever is remembered is a value of a metric.
THEOREM TypeCorrect == Spec => []TypeOK
<1>1. Init => TypeOK
  BY TableAssumption DEF Init, TypeOK, Zero
<1>2. TypeOK /\ [Next]_vars => TypeOK'
  <2> SUFFICES ASSUME TypeOK, [Next]_vars PROVE TypeOK'
    OBVIOUS
  <2> USE TableAssumption
  <2>1. ASSUME NEW m \in Metrics, Serve(m) PROVE TypeOK'
    BY <2>1 DEF Serve, TypeOK, position, report
  <2>2. ASSUME NEW n \in Nat, Len(answer) < NRows
        PROVE  /\ Append(answer, RowNow(n)) \in Seq(Row)
               /\ Len(Append(answer, RowNow(n))) <= NRows
    <3>1. RowNow(n) \in Row
      BY RowTyped
    <3> QED
      BY <2>2, <3>1, Appended DEF TypeOK
  <2>3. ASSUME NEW n \in 0..(Len(Columns) - 1), Len(answer) < NRows
        PROVE  Broken(n) \in Seq(Row) /\ Len(Broken(n)) <= NRows
    <3>1. CASE n = 0
      BY <3>1 DEF Broken, TypeOK
    <3>2. CASE n # 0
      BY <2>2, <2>3, <3>2 DEF Broken
    <3> QED
      BY <3>1, <3>2
  <2>4. ASSUME Stop PROVE TypeOK'
    <3>1. pc' \in {"sleep", "read", "report"} /\ row' \in Nat \ {0} /\ key' \in Nat
      BY <2>4 DEF Stop, TypeOK, position
    <3>2. answer' \in Seq(Row) /\ Len(answer') <= NRows
      <4>1. CASE Len(answer) < NRows
        BY <2>3, <2>4, <4>1 DEF Stop, TypeOK, position
      <4>2. CASE ~(Len(answer) < NRows)
        BY <2>4, <4>2 DEF Stop, TypeOK, position
      <4> QED
        BY <4>1, <4>2
    <3>3. stops' \in Nat
      BY <2>4 DEF Stop, TypeOK
    <3>4. listening' \in BOOLEAN /\ UNCHANGED <<served, report, earlier, faults, deaths>>
      BY <2>4, Zenon DEF Stop
    <3> QED
      BY <3>1, <3>2, <3>3, <3>4 DEF TypeOK, report
  <2>5. ASSUME Start PROVE TypeOK'
    BY <2>5 DEF Start, TypeOK, position, report, Zero
  <2>0. <<>> \in Seq(Row) /\ Len(<<>>) <= NRows
    OBVIOUS
  <2>6. ASSUME Poll \/ TimedOut \/ EndOfAnswer PROVE TypeOK'
    <3>1. answer' \in Seq(Row) /\ Len(answer') <= NRows
      BY <2>0, <2>6 DEF Poll, TimedOut, EndOfAnswer, TypeOK
    <3>2. row' \in Nat \ {0} /\ key' \in Nat /\ pc' \in {"sleep", "read", "report"}
      BY <2>6 DEF Poll, TimedOut, EndOfAnswer, TypeOK
    <3>3. faults' \in Nat /\ UNCHANGED <<haproxy, report, deaths>>
      BY <2>6 DEF Poll, TimedOut, EndOfAnswer, TypeOK
    <3> QED
      BY <3>1, <3>2, <3>3 DEF TypeOK, haproxy, report
  <2>7. ASSUME ReadRow PROVE TypeOK'
    <3>1. answer' \in Seq(Row) /\ Len(answer') <= NRows
      BY <2>2, <2>7 DEF ReadRow
    <3> QED
      BY <2>7, <3>1 DEF ReadRow, TypeOK, haproxy, report
  <2>8. ASSUME CutShort PROVE TypeOK'
    <3>1. answer' \in Seq(Row) /\ Len(answer') <= NRows
      BY <2>3, <2>8 DEF CutShort
    <3> QED
      BY <2>8, <3>1 DEF CutShort, TypeOK, haproxy, report
  <2>9. ASSUME Gauges \/ NextRow \/ Reported PROVE TypeOK'
    <3>1. answer' \in Seq(Row) /\ Len(answer') <= NRows
      BY <2>0, <2>9 DEF Gauges, NextRow, Reported, Sleep, TypeOK
    <3>2. row' \in Nat \ {0} /\ key' \in Nat /\ pc' \in {"sleep", "read", "report"}
      BY <2>9 DEF Gauges, NextRow, Reported, Sleep, TypeOK
    <3>3. UNCHANGED <<haproxy, report, faults, deaths>>
      BY <2>9 DEF Gauges, NextRow, Reported
    <3> QED
      BY <3>1, <3>2, <3>3 DEF TypeOK, haproxy, report
  <2>10. ASSUME Counter PROVE TypeOK'
    <3>0. /\ answer' \in Seq(Row) /\ Len(answer') <= NRows
      <4>1. Sleep \/ UNCHANGED answer
        BY <2>10 DEF Counter
      <4> QED
        BY <2>0, <4>1 DEF Sleep, TypeOK
    <3>1. /\ answer' \in Seq(Row) /\ Len(answer') <= NRows
          /\ pc' \in {"sleep", "read", "report"} /\ row' \in Nat \ {0} /\ key' \in Nat
          /\ UNCHANGED <<haproxy, faults, deaths>>
      <4>1. \/ Sleep
            \/ pc' = "report" /\ row' = row /\ key' = key + 1
        BY <2>10 DEF Counter
      <4>2. UNCHANGED <<haproxy, faults, deaths>>
        BY <2>10 DEF Counter
      <4> QED
        BY <3>0, <4>1, <4>2 DEF Sleep, TypeOK
    <3>2. CASE UNCHANGED report
      BY <3>1, <3>2 DEF TypeOK, haproxy, report
    <3>3. ASSUME NEW m \in Metrics, NEW v \in Nat, Increment(m, v)
          PROVE  /\ DOMAIN prevdata' \subseteq Metrics
                 /\ \A x \in DOMAIN prevdata' : prevdata'[x] \in Nat
                 /\ sent' \in [Metrics -> Int] /\ base' \in [Metrics -> Int]
      <4>1. sent' \in [Metrics -> Int] /\ base' \in [Metrics -> Int]
        BY <3>3 DEF Increment, TypeOK
      <4>2. DOMAIN prevdata' \subseteq Metrics
        BY <3>3, Incremented DEF TypeOK
      <4>3. ASSUME NEW x \in DOMAIN prevdata' PROVE prevdata'[x] \in Nat
        <5>1. CASE x = m
          BY <3>3, <5>1, Incremented
        <5>2. CASE x # m
          BY <3>3, <4>2, <5>2, Incremented DEF TypeOK
        <5> QED
          BY <5>1, <5>2
      <4> QED
        BY <4>1, <4>2, <4>3
    <3>4. CASE \E m \in Metrics, v \in Nat : Increment(m, v)
      BY <3>1, <3>3, <3>4 DEF TypeOK, haproxy
    <3> QED
      BY <2>10, <3>2, <3>4, CounterReports
  <2>11. ASSUME Restart PROVE TypeOK'
    BY <2>11 DEF Restart, Sleep, TypeOK, haproxy
  <2>12. ASSUME UNCHANGED vars PROVE TypeOK'
    BY <2>12 DEF vars, TypeOK
  <2> QED
    BY <2>1, <2>4, <2>5, <2>6, <2>7, <2>8, <2>9, <2>10, <2>11, <2>12 DEF Next, Daemon
<1> QED
  BY <1>1, <1>2, PTL DEF Spec

-----------------------------------------------------------------------------

\* Everything between the first and the last value that the daemon saw is
\* sent, for any table and however many answers fail.
THEOREM Telescopes == Spec => []NothingLost
<1>1. Init => NothingLost
  BY DEF Init, NothingLost
<1>2. TypeOK /\ NothingLost /\ [Next]_vars => NothingLost'
  <2> SUFFICES ASSUME TypeOK, NothingLost, [Next]_vars PROVE NothingLost'
    OBVIOUS
  <2>1. CASE UNCHANGED report
    BY <2>1 DEF NothingLost, report
  <2>2. CASE Counter /\ ~UNCHANGED report
    <3>1. PICK m \in Metrics : answer[m[1]].value[m[2]] \in Nat /\ Increment(m, answer[m[1]].value[m[2]])
      BY <2>2, CounterReports
    <3> DEFINE v == answer[m[1]].value[m[2]]
    <3> HIDE DEF v
    <3>2. v \in Nat /\ Increment(m, v)
      BY <3>1 DEF v
    <3>3. ASSUME NEW x \in DOMAIN prevdata' PROVE sent'[x] - prevdata'[x] = base'[x]
      <4>1. x \in Metrics
        BY <3>2, Incremented DEF TypeOK
      <4>2. CASE x = m
        <5>1. CASE m \in DOMAIN prevdata
          <6>1. prevdata[m] \in Nat /\ sent[m] \in Int /\ sent[m] - prevdata[m] = base[m]
            BY <5>1 DEF NothingLost, TypeOK
          <6>2. sent'[m] = sent[m] + (v - prevdata[m]) /\ base'[m] = base[m] /\ prevdata'[m] = v
            BY <3>2, <5>1, Incremented
          <6> QED
            BY <3>2, <4>2, <6>1, <6>2
        <5>2. CASE m \notin DOMAIN prevdata
          BY <3>2, <4>2, <5>2, Incremented DEF TypeOK
        <5> QED
          BY <5>1, <5>2
      <4>3. CASE x # m
        BY <3>2, <4>1, <4>3, Incremented DEF NothingLost
      <4> QED
        BY <4>2, <4>3
    <3> QED
      BY <3>3 DEF NothingLost
  <2>3. CASE Restart
    BY <2>3 DEF Restart, NothingLost
  <2>4. UNCHANGED report \/ Counter \/ Restart
    BY DEF Next, Daemon, Serve, Stop, Start, Poll, ReadRow, EndOfAnswer, CutShort, TimedOut,
           Gauges, NextRow, Reported, vars, report
  <2> QED
    BY <2>1, <2>2, <2>3, <2>4
<1> QED
  BY <1>1, <1>2, TypeCorrect, PTL DEF Spec

-----------------------------------------------------------------------------

\* What haproxy counts in all its lives only grows, and the daemon reports
\* nothing.
Outside ==
    /\ UNCHANGED report /\ answer' \in {answer, <<>>}
    /\ \A m \in Metrics : /\ earlier'[m] >= earlier[m]
                          /\ earlier'[m] + served'[m] >= earlier[m] + served[m]

\* A row is added to the answer.
Reading ==
    /\ UNCHANGED <<served, earlier, report>>
    /\ \E n \in Nat : answer' = Append(answer, RowNow(n))

\* A value of the answer is reported.
Reporting ==
    /\ UNCHANGED <<served, earlier, answer>>
    /\ \E m \in Metrics : /\ m[1] \in 1..Len(answer)
                          /\ Increment(m, answer[m[1]].value[m[2]])

LEMMA Steps ==
    ASSUME TypeOK, [Next]_vars
    PROVE  Outside \/ Reading \/ Reporting \/ Restart
<1>1. ASSUME NEW m \in Metrics, Serve(m) PROVE Outside
  BY <1>1 DEF Serve, Outside, TypeOK, position
<1>2. ASSUME UNCHANGED <<served, earlier, report>>, answer' \in {answer, <<>>} PROVE Outside
  BY <1>2 DEF Outside, TypeOK
<1>3. ASSUME Start PROVE Outside
  BY <1>3 DEF Start, Outside, TypeOK, position, Zero
<1>4. ASSUME NEW n \in 0..(Len(Columns) - 1), answer' = Broken(n), UNCHANGED <<served, earlier, report>>
      PROVE  Outside \/ Reading
  <2>1. CASE n = 0
    BY <1>2, <1>4, <2>1 DEF Broken
  <2>2. CASE n # 0
    <3>1. n \in Nat
      BY TableAssumption
    <3> QED
      BY <1>4, <2>2, <3>1 DEF Broken, Reading
  <2> QED
    BY <2>1, <2>2
<1>5. ASSUME Stop PROVE Outside \/ Reading
  <2>0. UNCHANGED <<served, earlier, report>>
    BY <1>5 DEF Stop
  <2>1. \/ answer' = answer
        \/ \E n \in 0..(Len(Columns) - 1) : answer' = Broken(n)
    BY <1>5 DEF Stop, position
  <2> QED
    BY <1>2, <1>4, <2>0, <2>1
<1>6. ASSUME CutShort PROVE Outside \/ Reading
  <2>1. UNCHANGED <<served, earlier, report>> /\ \E n \in 0..(Len(Columns) - 1) : answer' = Broken(n)
    BY <1>6 DEF CutShort, haproxy
  <2> QED
    BY <1>4, <2>1
<1>7. ASSUME ReadRow PROVE Reading
  BY <1>7, TableAssumption DEF ReadRow, Reading, haproxy
<1>8. ASSUME Poll \/ EndOfAnswer \/ TimedOut \/ Gauges \/ NextRow \/ Reported \/ UNCHANGED vars
      PROVE  UNCHANGED <<served, earlier, report>> /\ answer' \in {answer, <<>>}
  BY <1>8 DEF Poll, EndOfAnswer, TimedOut, Gauges, NextRow, Reported, Sleep, haproxy, vars, report
<1>9. ASSUME Counter PROVE Outside \/ Reporting
  <2>1. UNCHANGED <<served, earlier>> /\ answer' \in {answer, <<>>}
    BY <1>9 DEF Counter, Sleep, haproxy
  <2>2. CASE UNCHANGED report
    BY <1>2, <2>1, <2>2
  <2>3. CASE ~UNCHANGED report
    BY <1>9, <2>1, <2>3, CounterReports DEF Reporting
  <2> QED
    BY <2>2, <2>3
<1> QED
  BY <1>1, <1>2, <1>3, <1>5, <1>6, <1>7, <1>8, <1>9 DEF Next, Daemon

\* When a value is reported, what is sent beyond it is that of earlier lives.
LEMMA IncrementAhead ==
    ASSUME TypeOK, NEW m \in Metrics, NEW v \in Nat, NEW b \in Nat,
           Increment(m, v), RowAhead(m, v, b)
    PROVE  m \in DOMAIN prevdata' /\ prevdata'[m] = v /\ sent'[m] - v <= b /\ sent'[m] \in Int
<1>1. m \in DOMAIN prevdata' /\ prevdata'[m] = v
  BY Incremented
<1>2. CASE m \in DOMAIN prevdata
  <2>1. prevdata[m] \in Nat /\ sent[m] \in Int /\ sent[m] - prevdata[m] <= b
    BY <1>2 DEF TypeOK, RowAhead
  <2>2. sent'[m] = sent[m] + (v - prevdata[m])
    BY <1>2, Incremented
  <2> QED
    BY <1>1, <2>1, <2>2
<1>3. CASE m \notin DOMAIN prevdata
  <2>1. sent[m] \in Int /\ sent[m] <= b + v
    BY <1>3 DEF TypeOK, RowAhead
  <2>2. sent'[m] = sent[m]
    BY <1>3, Incremented
  <2> QED
    BY <1>1, <2>1, <2>2
<1> QED
  BY <1>2, <1>3

\* Nothing is counted twice, for any table, through any number of restarts of
\* haproxy and of the daemon and wherever an answer breaks off.
THEOREM CountedOnce == Spec => [](NoDoubleCount /\ StatsInv)
<1>1. Init => NoDoubleCount /\ StatsInv
  BY DEF Init, NoDoubleCount, StatsInv, Ahead, Zero
<1>2. TypeOK /\ TypeOK' /\ NoDoubleCount /\ StatsInv /\ [Next]_vars => NoDoubleCount' /\ StatsInv'
  <2> SUFFICES ASSUME TypeOK, TypeOK', NoDoubleCount, StatsInv, [Next]_vars
               PROVE  NoDoubleCount' /\ StatsInv'
    OBVIOUS
  <2>1. \A m \in Metrics :
            /\ sent[m] \in Int /\ earlier[m] \in Nat /\ served[m] \in Nat
            /\ m \in DOMAIN prevdata => prevdata[m] \in Nat
            /\ earlier'[m] \in Nat /\ served'[m] \in Nat
    BY DEF TypeOK
  <2>2. CASE Outside
    <3>1. ASSUME NEW m \in Metrics PROVE sent'[m] <= earlier'[m] + served'[m] /\ Ahead(m)'
      BY <2>1, <2>2 DEF Outside, NoDoubleCount, StatsInv, Ahead, report
    <3>2. ASSUME NEW m \in Metrics, m[1] \in 1..Len(answer')
          PROVE  RowAhead(m, answer[m[1]].value[m[2]], answer[m[1]].before[m[2]])' 
      <4>1. answer' = answer
        BY <2>2, <3>2, MetricParts DEF Outside, Rows
      <4> QED
        <5>1. answer[m[1]].value[m[2]] \in Nat /\ answer[m[1]].before[m[2]] \in Nat
          BY <3>2, <4>1, RowNumbers
        <5>2. RowAhead(m, answer[m[1]].value[m[2]], answer[m[1]].before[m[2]])
          BY <3>2, <4>1 DEF StatsInv
        <5>3. /\ UNCHANGED <<sent, prevdata>> /\ earlier'[m] >= earlier[m]
              /\ earlier'[m] + served'[m] >= earlier[m] + served[m]
          BY <2>2 DEF Outside, report
        <5>4. /\ answer[m[1]].before[m[2]] <= earlier'[m]
              /\ answer[m[1]].before[m[2]] + answer[m[1]].value[m[2]] <= earlier'[m] + served'[m]
          BY <2>1, <5>1, <5>2, <5>3 DEF RowAhead
        <5> QED
          BY <4>1, <5>2, <5>3, <5>4 DEF RowAhead
    <3> QED
      BY <3>1, <3>2 DEF NoDoubleCount, StatsInv
  <2>3. CASE Reading
    <3>1. PICK n \in Nat : answer' = Append(answer, RowNow(n))
      BY <2>3 DEF Reading
    <3>2. UNCHANGED <<served, earlier, sent, prevdata>>
      BY <2>3 DEF Reading, report
    <3>3. ASSUME NEW m \in Metrics, m[1] \in 1..Len(answer')
          PROVE  RowAhead(m, answer[m[1]].value[m[2]], answer[m[1]].before[m[2]])'
      <4>1. CASE m[1] \in 1..Len(answer)
        <5>1. answer'[m[1]] = answer[m[1]]
          BY <3>1, <4>1, RowTyped, Appended
        <5> QED
          BY <3>2, <4>1, <5>1 DEF StatsInv, RowAhead
      <4>2. CASE m[1] = Len(answer) + 1
        <5>1. answer'[m[1]].value[m[2]] = served[m] /\ answer'[m[1]].before[m[2]] = earlier[m]
          BY <3>1, <4>2, RowTyped, Appended
        <5> QED
          BY <2>1, <3>2, <5>1 DEF StatsInv, RowAhead, Ahead, NoDoubleCount
      <4>3. m[1] \in 1..(Len(answer) + 1)
        BY <3>1, <3>3, RowTyped, Appended
      <4> QED
        <5>1. Len(answer) \in Nat
          BY DEF TypeOK
        <5> QED
          BY <4>1, <4>2, <4>3, <5>1
    <3> QED
      BY <3>2, <3>3 DEF NoDoubleCount, StatsInv, Ahead
  <2>4. CASE Reporting
    <3>1. PICK m \in Metrics : m[1] \in 1..Len(answer) /\ Increment(m, answer[m[1]].value[m[2]])
      BY <2>4 DEF Reporting
    <3>2. UNCHANGED <<served, earlier, answer>>
      BY <2>4 DEF Reporting
    <3> DEFINE v == answer[m[1]].value[m[2]]
               b == answer[m[1]].before[m[2]]
    <3>3. v \in Nat /\ b \in Nat /\ RowAhead(m, v, b) /\ Increment(m, v)
      BY <3>1, RowNumbers DEF StatsInv
    <3>4. m \in DOMAIN prevdata' /\ prevdata'[m] = v /\ sent'[m] - v <= b /\ sent'[m] \in Int
      BY <3>3, IncrementAhead
    <3>5. \A x \in Metrics : x # m =>
                /\ sent'[x] = sent[x]
                /\ x \in DOMAIN prevdata' <=> x \in DOMAIN prevdata
                /\ x \in DOMAIN prevdata => prevdata'[x] = prevdata[x]
      BY <3>3, Incremented
    <3>6. ASSUME NEW x \in Metrics PROVE sent'[x] <= earlier'[x] + served'[x] /\ Ahead(x)'
      <4>1. CASE x = m
        <5>1. sent'[m] - v <= b /\ b <= earlier[m] /\ b + v <= earlier[m] + served[m]
          BY <3>3, <3>4 DEF RowAhead
        <5> HIDE DEF v, b
        <5>2. sent'[m] <= earlier[m] + served[m] /\ sent'[m] - v <= earlier[m]
          BY <2>1, <3>3, <3>4, <5>1
        <5> QED
          BY <3>2, <3>4, <4>1, <5>2 DEF Ahead
      <4>2. CASE x # m
        BY <3>2, <3>5, <4>2 DEF NoDoubleCount, StatsInv, Ahead
      <4> QED
        BY <4>1, <4>2
    <3>7. ASSUME NEW x \in Metrics, x[1] \in 1..Len(answer')
          PROVE  RowAhead(x, answer[x[1]].value[x[2]], answer[x[1]].before[x[2]])'
      <4>1. CASE x = m
        <5>1. RowAhead(m, v, b)'
          BY <2>1, <3>2, <3>3, <3>4 DEF RowAhead
        <5> QED
          BY <4>1, <5>1
      <4>2. CASE x # m
        BY <3>2, <3>5, <3>7, <4>2 DEF StatsInv, RowAhead
      <4> QED
        BY <4>1, <4>2
    <3> QED
      BY <3>6, <3>7 DEF NoDoubleCount, StatsInv
  <2>5. CASE Restart
    BY <2>5 DEF Restart, Sleep, NoDoubleCount, StatsInv, Ahead, haproxy
  <2> QED
    BY <2>2, <2>3, <2>4, <2>5, Steps
<1> QED
  BY <1>1, <1>2, TypeCorrect, PTL DEF Spec

-----------------------------------------------------------------------------

\* As long as haproxy has not been stopped, it listens and counts upwards.
LEMMA Upwards ==
    ASSUME TypeOK, RisingInv, [Next]_vars, stops' = 0
    PROVE  stops = 0 /\ listening' /\ \A m \in Metrics : served'[m] >= served[m]
<1>1. ~Stop
  BY DEF Stop, TypeOK
<1>2. stops = 0
  BY <1>1 DEF Next, Daemon, Serve, Start, Poll, ReadRow, EndOfAnswer, CutShort, TimedOut, Gauges,
         Counter, NextRow, Reported, Restart, vars, haproxy, TypeOK
<1>3. listening
  BY <1>2 DEF RisingInv
<1>4. ~Start
  BY <1>3 DEF Start
<1>5. listening' = listening
  BY <1>1, <1>4, Zenon DEF Next, Daemon, Serve, Poll, ReadRow, EndOfAnswer, CutShort, TimedOut, Gauges,
         Counter, NextRow, Reported, Restart, vars, haproxy
<1>6. \A m \in Metrics : served'[m] >= served[m]
  <2>1. CASE \E m \in Metrics : Serve(m)
    BY <2>1 DEF Serve, TypeOK
  <2>2. CASE served' = served
    BY <2>2 DEF TypeOK
  <2>3. (\E m \in Metrics : Serve(m)) \/ served' = served
    BY <1>1, <1>4 DEF Next, Daemon, Poll, ReadRow, EndOfAnswer, CutShort, TimedOut, Gauges,
           Counter, NextRow, Reported, Restart, vars, haproxy
  <2> QED
    BY <2>1, <2>2, <2>3
<1> QED
  BY <1>2, <1>3, <1>5, <1>6

LEMMA RisingStep ==
    ASSUME TypeOK, TypeOK', RisingInv, [Next]_vars
    PROVE  RisingInv'
<1> SUFFICES ASSUME stops' = 0
             PROVE  /\ listening'
                    /\ \A m \in Metrics :
                         /\ Rising(m)'
                         /\ m[1] \in 1..Len(answer') => RowRising(m, answer[m[1]].value[m[2]])'
  BY DEF RisingInv
<1>1. stops = 0 /\ listening' /\ \A m \in Metrics : served'[m] >= served[m]
  BY Upwards
<1>2. \A m \in Metrics : Rising(m)
  BY <1>1 DEF RisingInv
<1>3. \A m \in Metrics : m[1] \in 1..Len(answer) => RowRising(m, answer[m[1]].value[m[2]])
  BY <1>1 DEF RisingInv
<1> SUFFICES ASSUME NEW m \in Metrics
             PROVE  /\ Rising(m)'
                    /\ m[1] \in 1..Len(answer') => RowRising(m, answer[m[1]].value[m[2]])'
  BY <1>1
<1>4. served[m] \in Nat /\ served'[m] \in Nat /\ served'[m] >= served[m]
      /\ (m \in DOMAIN prevdata => prevdata[m] \in Nat)
  BY <1>1 DEF TypeOK
<1>5. CASE Outside
  <2>1. prevdata' = prevdata /\ answer' \in {answer, <<>>}
    BY <1>5 DEF Outside, report
  <2>2. Rising(m)'
    BY <1>2, <1>4, <2>1 DEF Rising
  <2>3. ASSUME m[1] \in 1..Len(answer') PROVE RowRising(m, answer[m[1]].value[m[2]])'
    <3>1. answer' = answer
      BY <2>1, <2>3, MetricParts DEF Rows
    <3>2. answer[m[1]].value[m[2]] \in Nat
      BY <2>3, <3>1, RowNumbers
    <3>3. RowRising(m, answer[m[1]].value[m[2]])
      BY <1>3, <2>3, <3>1
    <3> QED
      BY <1>4, <2>1, <3>1, <3>2, <3>3 DEF RowRising
  <2> QED
    BY <2>2, <2>3
<1>6. CASE Reading
  <2>1. PICK n \in Nat : answer' = Append(answer, RowNow(n))
    BY <1>6 DEF Reading
  <2>2. UNCHANGED <<served, prevdata>>
    BY <1>6 DEF Reading, report
  <2>3. Rising(m)'
    BY <1>2, <2>2 DEF Rising
  <2>4. ASSUME m[1] \in 1..Len(answer') PROVE RowRising(m, answer[m[1]].value[m[2]])'
    <3>1. CASE m[1] \in 1..Len(answer)
      <4>1. answer'[m[1]] = answer[m[1]]
        BY <2>1, <3>1, RowTyped, Appended
      <4> QED
        BY <1>3, <2>2, <3>1, <4>1 DEF RowRising
    <3>2. CASE m[1] = Len(answer) + 1
      <4>1. answer'[m[1]].value[m[2]] = served[m]
        BY <2>1, <3>2, RowTyped, Appended
      <4> QED
        BY <1>2, <1>4, <2>2, <4>1 DEF RowRising, Rising
    <3>3. m[1] \in 1..(Len(answer) + 1)
      BY <2>1, <2>4, RowTyped, Appended
    <3>4. Len(answer) \in Nat
      BY DEF TypeOK
    <3> QED
      BY <3>1, <3>2, <3>3, <3>4
  <2> QED
    BY <2>3, <2>4
<1>7. CASE Reporting
  <2>1. PICK k \in Metrics : k[1] \in 1..Len(answer) /\ Increment(k, answer[k[1]].value[k[2]])
    BY <1>7 DEF Reporting
  <2>2. UNCHANGED <<served, answer>>
    BY <1>7 DEF Reporting
  <2>3. answer[k[1]].value[k[2]] \in Nat
    BY <2>1, RowNumbers
  <2>4. CASE m = k
    <3>1. m \in DOMAIN prevdata' /\ prevdata'[m] = answer[m[1]].value[m[2]]
      BY <2>1, <2>3, <2>4, Incremented
    <3>2. RowRising(m, answer[m[1]].value[m[2]])
      BY <1>3, <2>1, <2>4
    <3>3. answer[m[1]].value[m[2]] <= answer[m[1]].value[m[2]]
      BY <2>3, <2>4
    <3> QED
      BY <2>2, <3>1, <3>2, <3>3 DEF RowRising, Rising
  <2>5. CASE m # k
    <3>1. /\ m \in DOMAIN prevdata' <=> m \in DOMAIN prevdata
          /\ m \in DOMAIN prevdata => prevdata'[m] = prevdata[m]
      BY <2>1, <2>3, <2>5, Incremented
    <3> QED
      BY <1>2, <1>3, <2>2, <3>1 DEF RowRising, Rising
  <2> QED
    BY <2>4, <2>5
<1>8. CASE Restart
  BY <1>8, MetricParts DEF Restart, Sleep, Rising, Rows
<1> QED
  BY <1>5, <1>6, <1>7, <1>8, Steps

\* No metric goes down in statsd before haproxy has been stopped, for any table
\* and however often the daemon is restarted.
THEOREM NeverDown == Spec => DownOnRestart
<1>1. Init => RisingInv
  BY DEF Init, RisingInv, Rising
<1>2. TypeOK /\ TypeOK' /\ RisingInv /\ [Next]_vars => RisingInv'
  BY RisingStep
<1>3. TypeOK /\ TypeOK' /\ RisingInv /\ [Next]_vars
        => [\A m \in Metrics : sent'[m] < sent[m] => stops > 0]_vars
  <2> SUFFICES ASSUME TypeOK, TypeOK', RisingInv, [Next]_vars, NEW m \in Metrics, sent'[m] < sent[m]
               PROVE  stops > 0
    OBVIOUS
  <2>1. sent[m] \in Int /\ sent'[m] \in Int /\ stops \in Nat
    BY DEF TypeOK
  <2>2. sent' # sent
    BY <2>1
  <2>3. Reporting
    BY <2>2, Steps DEF Outside, Reading, Restart, report
  <2>4. PICK k \in Metrics : k[1] \in 1..Len(answer) /\ Increment(k, answer[k[1]].value[k[2]])
    BY <2>3 DEF Reporting
  <2>5. answer[k[1]].value[k[2]] \in Nat
    BY <2>4, RowNumbers
  <2>6. m = k /\ m \in DOMAIN prevdata
    <3>0. sent'[m] # sent[m]
      BY <2>1
    <3>1. m = k
      BY <2>4, <2>5, <3>0, Incremented, Zenon
    <3>2. m \in DOMAIN prevdata
      BY <2>4, <2>5, <3>0, <3>1, Incremented
    <3> QED
      BY <3>1, <3>2
  <2>7. sent'[m] = sent[m] + (answer[m[1]].value[m[2]] - prevdata[m]) /\ prevdata[m] \in Nat
    BY <2>4, <2>5, <2>6, Incremented DEF TypeOK
  <2>8. ~(prevdata[m] <= answer[m[1]].value[m[2]])
    BY <2>1, <2>5, <2>6, <2>7
  <2>9. ~(stops = 0)
    BY <2>4, <2>6, <2>8 DEF RisingInv, RowRising
  <2> QED
    BY <2>1, <2>9
<1> QED
  BY <1>1, <1>2, <1>3, TypeCorrect, PTL DEF Spec, DownOnRestart

=============================================================================
