----------------------- MODULE ThroughputMeterProofs ------------------------
(***************************************************************************)
(* Theorems about ThroughputMeter, for any number of flows, any window and *)
(* any traffic.                                                            *)
(***************************************************************************)
EXTENDS ThroughputMeter, TLAPS

Report == [at : Nat, bytes : Nat, period : Nat, total : Nat]

TypeOK ==
  /\ now \in Nat
  /\ bytes \in [Flow -> Nat] /\ time \in [Flow -> Nat] /\ period \in [Flow -> Nat]
  /\ total \in [Flow -> Nat] /\ reports \in [Flow -> Seq(Report)]

\* The present window of f: what is counted is what came since it began.
InWindow(f) ==
  LET n == Len(reports[f]) + 1
  IN  /\ BeganAt(f, n) <= time[f] /\ time[f] <= now
      /\ period[f] = time[f] - BeganAt(f, n) /\ period[f] < Window
      /\ BeganWith(f, n) <= total[f]
      /\ bytes[f] = total[f] - BeganWith(f, n)

Tiled(f) ==
  \A n \in 1 .. Len(reports[f]) :
     LET r == reports[f][n]
     IN  /\ r.period = r.at - BeganAt(f, n) /\ r.period >= Window
         /\ r.bytes = r.total - BeganWith(f, n)

IInv == TypeOK /\ \A f \in Flow : InWindow(f) /\ Tiled(f)

-----------------------------------------------------------------------------
LEMMA AppendFacts ==
  ASSUME NEW s \in Seq(Report), NEW r \in Report
  PROVE  /\ Append(s, r) \in Seq(Report)
         /\ Len(s) \in Nat
         /\ Len(Append(s, r)) = Len(s) + 1
         /\ \A n \in 1 .. Len(s) : Append(s, r)[n] = s[n]
         /\ Append(s, r)[Len(s) + 1] = r
  OBVIOUS

\* Where the present window began is a time and an amount.
LEMMA BeganTyped ==
  ASSUME TypeOK, NEW f \in Flow, NEW n \in 1 .. Len(reports[f]) + 1
  PROVE  BeganAt(f, n) \in Nat /\ BeganWith(f, n) \in Nat
  <1>1. reports[f] \in Seq(Report) /\ Len(reports[f]) \in Nat
    BY DEF TypeOK
  <1>2. CASE n = 1
    BY <1>2, MeterAssumption DEF BeganAt, BeganWith
  <1>3. CASE n # 1
    <2>1. n - 1 \in 1 .. Len(reports[f])
      BY <1>1, <1>3
    <2>2. reports[f][n - 1] \in Report
      BY <1>1, <2>1
    <2> QED
      BY <1>3, <2>2 DEF BeganAt, BeganWith, Report
  <1> QED
    BY <1>2, <1>3

LEMMA InitInv == Init => IInv
  <1> SUFFICES ASSUME Init
               PROVE  IInv
    OBVIOUS
  <1>1. << >> \in Seq(Report) /\ Len(<< >>) = 0
    OBVIOUS
  <1>2. TypeOK
    BY <1>1, MeterAssumption DEF Init, TypeOK
  <1>3. \A f \in Flow : InWindow(f) /\ Tiled(f)
    <2>1. SUFFICES ASSUME NEW f \in Flow
                   PROVE  InWindow(f) /\ Tiled(f)
      OBVIOUS
    <2>2. /\ now = Start /\ bytes[f] = 0 /\ time[f] = Start /\ period[f] = 0
          /\ total[f] = 0 /\ reports[f] = << >>
      BY DEF Init
    <2>3. Len(reports[f]) = 0
      BY <1>1, <2>2
    <2>4. BeganAt(f, 1) = Start /\ BeganWith(f, 1) = 0
      BY DEF BeganAt, BeganWith
    <2> QED
      BY <2>2, <2>3, <2>4, MeterAssumption DEF InWindow, Tiled
  <1> QED
    BY <1>2, <1>3 DEF IInv

\* A flow whose variables a step leaves alone stays in order.
LEMMA Untouched ==
  ASSUME IInv, NEW f \in Flow, now' >= now, now' \in Nat,
         bytes'[f] = bytes[f], time'[f] = time[f], period'[f] = period[f],
         total'[f] = total[f], reports'[f] = reports[f]
  PROVE  InWindow(f)' /\ Tiled(f)'
  <1>1. InWindow(f) /\ Tiled(f) /\ time[f] \in Nat /\ now \in Nat
    BY DEF IInv, TypeOK
  <1>2. \A n : BeganAt(f, n)' = BeganAt(f, n) /\ BeganWith(f, n)' = BeganWith(f, n)
    BY DEF BeganAt, BeganWith
  <1>3. Tiled(f)'
    BY <1>1, <1>2 DEF Tiled
  <1>4. InWindow(f)'
    BY <1>1, <1>2 DEF InWindow
  <1> QED
    BY <1>3, <1>4

LEMMA CountStep ==
  ASSUME IInv, NEW f \in Flow, NEW size \in Nat, Count(f, size), UNCHANGED now
  PROVE  IInv'
  <1> DEFINE counted == period[f] + (now - time[f])
             n == Len(reports[f]) + 1
             r == [at |-> now, bytes |-> bytes[f] + size, period |-> counted,
                   total |-> total[f] + size]
  <1>1. /\ now \in Nat /\ bytes[f] \in Nat /\ time[f] \in Nat /\ period[f] \in Nat
        /\ total[f] \in Nat /\ reports[f] \in Seq(Report)
        /\ Len(reports[f]) \in Nat /\ Window \in Nat \ {0}
    BY MeterAssumption DEF IInv, TypeOK
  <1>2. InWindow(f) /\ Tiled(f)
    BY DEF IInv
  <1>3. BeganAt(f, n) \in Nat /\ BeganWith(f, n) \in Nat
    BY <1>1, BeganTyped DEF IInv
  <1>4. /\ counted \in Nat /\ counted = now - BeganAt(f, n)
        /\ bytes[f] + size = (total[f] + size) - BeganWith(f, n)
        /\ BeganAt(f, n) <= now /\ BeganWith(f, n) <= total[f] + size
    <2>1. /\ BeganAt(f, n) <= time[f] /\ time[f] <= now
          /\ period[f] = time[f] - BeganAt(f, n)
          /\ BeganWith(f, n) <= total[f]
          /\ bytes[f] = total[f] - BeganWith(f, n)
      BY <1>2 DEF InWindow
    <2>2. counted = now - BeganAt(f, n)
      <3> HIDE DEF n
      <3> QED
        BY <1>1, <1>3, <2>1
    <2>3. counted \in Nat
      BY <1>1, <1>3, <2>1, <2>2
    <2>4. bytes[f] + size = (total[f] + size) - BeganWith(f, n)
      <3> HIDE DEF n
      <3> QED
        BY <1>1, <1>3, <2>1
    <2>5. BeganAt(f, n) <= now /\ BeganWith(f, n) <= total[f] + size
      BY <1>1, <1>3, <2>1
    <2> QED
      BY <2>2, <2>3, <2>4, <2>5
  <1>5. r \in Report
    BY <1>1, <1>4 DEF Report
  <1>6. /\ total' = [total EXCEPT ![f] = total[f] + size]
        /\ time' = [time EXCEPT ![f] = now]
        /\ bytes' = [bytes EXCEPT ![f] = IF counted >= Window THEN 0 ELSE bytes[f] + size]
        /\ period' = [period EXCEPT ![f] = IF counted >= Window THEN 0 ELSE counted]
        /\ reports' = [reports EXCEPT ![f] =
                         IF counted >= Window THEN Append(reports[f], r) ELSE reports[f]]
    BY DEF Count
  <1>7. r.at = now /\ r.bytes = bytes[f] + size /\ r.period = counted
        /\ r.total = total[f] + size
    OBVIOUS
  <1> HIDE DEF counted, r
  <1>8. TypeOK'
    <2>1. Append(reports[f], r) \in Seq(Report)
      BY <1>1, <1>5, AppendFacts
    <2> QED
      BY <1>1, <1>4, <1>6, <2>1 DEF IInv, TypeOK
  <1>9. ASSUME NEW g \in Flow, g # f
        PROVE  InWindow(g)' /\ Tiled(g)'
    <2>1. /\ bytes'[g] = bytes[g] /\ time'[g] = time[g] /\ period'[g] = period[g]
          /\ total'[g] = total[g] /\ reports'[g] = reports[g]
      BY <1>6, <1>9 DEF IInv, TypeOK
    <2> QED
      BY <1>1, <2>1, Untouched
  <1>10. /\ total'[f] = total[f] + size /\ time'[f] = now
    BY <1>6 DEF IInv, TypeOK
  <1>11. CASE counted >= Window
    <2>1. /\ bytes'[f] = 0 /\ period'[f] = 0
          /\ reports'[f] = Append(reports[f], r)
      BY <1>6, <1>11 DEF IInv, TypeOK
    <2>2. /\ Len(reports'[f]) = n
          /\ \A j \in 1 .. Len(reports[f]) : reports'[f][j] = reports[f][j]
          /\ reports'[f][n] = r
      BY <1>1, <1>5, <2>1, AppendFacts
    <2>3. \A j \in 1 .. n : /\ BeganAt(f, j)' = BeganAt(f, j)
                            /\ BeganWith(f, j)' = BeganWith(f, j)
      BY <1>1, <2>2 DEF BeganAt, BeganWith
    <2>4. /\ BeganAt(f, Len(reports[f]) + 1)' = now
          /\ BeganWith(f, Len(reports[f]) + 1)' = total[f] + size
      BY <1>1, <1>7, <2>2 DEF BeganAt, BeganWith
    <2>5. InWindow(f)'
      BY <1>1, <1>10, <2>1, <2>2, <2>4 DEF InWindow
    <2>6. ASSUME NEW j \in 1 .. n
          PROVE  /\ reports'[f][j].period = reports'[f][j].at - BeganAt(f, j)'
                 /\ reports'[f][j].period >= Window
                 /\ reports'[f][j].bytes = reports'[f][j].total - BeganWith(f, j)'
      <3>1. CASE j = n
        BY <1>4, <1>7, <1>11, <2>2, <2>3, <3>1
      <3>2. CASE j # n
        <4>1. j \in 1 .. Len(reports[f])
          BY <1>1, <3>2
        <4> QED
          BY <1>2, <2>2, <2>3, <4>1 DEF Tiled
      <3> QED
        BY <3>1, <3>2
    <2>7. Tiled(f)'
      BY <2>2, <2>6 DEF Tiled
    <2> QED
      BY <1>8, <1>9, <2>5, <2>7 DEF IInv
  <1>12. CASE ~ (counted >= Window)
    <2>1. /\ bytes'[f] = bytes[f] + size /\ period'[f] = counted
          /\ reports'[f] = reports[f]
      BY <1>6, <1>12 DEF IInv, TypeOK
    <2>2. \A j : BeganAt(f, j)' = BeganAt(f, j) /\ BeganWith(f, j)' = BeganWith(f, j)
      BY <2>1 DEF BeganAt, BeganWith
    <2>3. Tiled(f)'
      BY <1>2, <2>1, <2>2 DEF Tiled
    <2>4. InWindow(f)'
      BY <1>1, <1>4, <1>10, <1>12, <2>1, <2>2 DEF InWindow
    <2> QED
      BY <1>8, <1>9, <2>3, <2>4 DEF IInv
  <1> QED
    BY <1>11, <1>12

LEMMA InvStep == IInv /\ [Next]_vars => IInv'
  <1> SUFFICES ASSUME IInv, [Next]_vars
               PROVE  IInv'
    OBVIOUS
  <1>1. ASSUME now' \in Nat, now' >= now, UNCHANGED <<bytes, time, period, total, reports>>
        PROVE  IInv'
    <2>1. TypeOK'
      BY <1>1 DEF IInv, TypeOK
    <2>2. \A f \in Flow : InWindow(f)' /\ Tiled(f)'
      BY <1>1, Untouched
    <2> QED
      BY <2>1, <2>2 DEF IInv
  <1>2. now \in Nat
    BY DEF IInv, TypeOK
  <1>3. CASE Tick
    BY <1>1, <1>2, <1>3 DEF Tick
  <1>4. ASSUME NEW s \in Source, NEW size \in Size, Receive(s, size)
        PROVE  IInv'
    <2>1. CASE flowOf[s] \in Flow
      <3>1. Count(flowOf[s], size) /\ UNCHANGED now
        BY <1>4, <2>1, MeterAssumption DEF Receive
      <3>2. size \in Nat
        BY MeterAssumption
      <3> QED
        BY <2>1, <3>1, <3>2, CountStep
    <2>2. CASE flowOf[s] \notin Flow
      BY <1>1, <1>2, <1>4, <2>2 DEF Receive
    <2> QED
      BY <2>1, <2>2
  <1>5. CASE UNCHANGED vars
    BY <1>1, <1>2, <1>5 DEF vars
  <1> QED
    BY <1>3, <1>4, <1>5 DEF Next

LEMMA Invariance == Spec => []IInv
  BY InitInv, InvStep, PTL DEF Spec

(* Every reported rate is that of exactly the time and the bytes since the *)
(* report before it.                                                       *)
THEOREM RatesAreExact == Spec => []ReportsTile
  <1>1. IInv => ReportsTile
    BY DEF IInv, Tiled, ReportsTile
  <1> QED
    BY <1>1, Invariance, PTL

\* No full window is left unreported once a packet shows that it is full.
THEOREM ReportsInTime == Spec => []NothingOverdue
  <1>1. IInv => NothingOverdue
    BY DEF IInv, InWindow, NothingOverdue
  <1> QED
    BY <1>1, Invariance, PTL
=============================================================================
