-------------------------- MODULE ThroughputMeter ---------------------------
(***************************************************************************)
(* The callbacks with which scratch/p2p-performance-test.cc (RxTime) and   *)
(* scratch/wifi-performance-test.cc (Throughput) measure two flows: they   *)
(* count bytes and time and report a rate when a flow's count of time has  *)
(* reached a tenth of a second.  Time is a number of ticks.                *)
(***************************************************************************)
EXTENDS Integers, Sequences

CONSTANTS
  Flow,      \* the two flows, each with static variables of its own
  Source,    \* what tells the flows apart: a trace context or an address
  flowOf,    \* flowOf[s]: the flow that source s is counted for, or "none"
  Size,      \* the packet sizes
  Start,     \* the initial value of time0 and time1, one second
  Window,    \* the ticks of a tenth of a second
  End,       \* bounds the time of the simulation,
  MaxBytes   \* and the bytes that a flow receives

(* The traffic starts when the meters' clocks do (at one second).          *)
ASSUME MeterAssumption ==
  /\ flowOf \in [Source -> Flow \cup {"none"}]
  /\ "none" \notin Flow
  /\ Size \subseteq Nat
  /\ Start \in Nat /\ Window \in Nat \ {0}
  /\ End \in Nat /\ MaxBytes \in Nat

VARIABLES
  now,       \* the simulator's clock
  bytes,     \* per flow: the bytes since the last report,
  time,      \* the time of the last packet,
  period,    \* and the time counted since the last report
  total,     \* all bytes the flow has received
  reports    \* what it reported: at what time, for how many bytes and ticks

vars == <<now, bytes, time, period, total, reports>>

Init ==
  /\ now = Start
  /\ bytes = [f \in Flow |-> 0]
  /\ time = [f \in Flow |-> Start]
  /\ period = [f \in Flow |-> 0]
  /\ total = [f \in Flow |-> 0]
  /\ reports = [f \in Flow |-> <<>>]

Tick ==
  /\ now < End
  /\ now' = now + 1
  /\ UNCHANGED <<bytes, time, period, total, reports>>

\* slip: the clock of a flow is only set when it reports.
CountStale(f, size) ==
  LET counted == period[f] + (now - time[f])
      due == counted >= Window
  IN  /\ total' = [total EXCEPT ![f] = @ + size]
      /\ time' = [time EXCEPT ![f] = IF due THEN now ELSE @]
      /\ bytes' = [bytes EXCEPT ![f] = IF due THEN 0 ELSE @ + size]
      /\ period' = [period EXCEPT ![f] = IF due THEN 0 ELSE counted]
      /\ reports' = [reports EXCEPT ![f] =
           IF due THEN Append(@, [at |-> now, bytes |-> bytes[f] + size, period |-> counted,
                                  total |-> total[f] + size])
                  ELSE @]

\* slip: a window that is just full is not reported.
CountLate(f, size) ==
  LET counted == period[f] + (now - time[f])
      due == counted > Window
  IN  /\ total' = [total EXCEPT ![f] = @ + size]
      /\ time' = [time EXCEPT ![f] = now]
      /\ bytes' = [bytes EXCEPT ![f] = IF due THEN 0 ELSE @ + size]
      /\ period' = [period EXCEPT ![f] = IF due THEN 0 ELSE counted]
      /\ reports' = [reports EXCEPT ![f] =
           IF due THEN Append(@, [at |-> now, bytes |-> bytes[f] + size, period |-> counted,
                                  total |-> total[f] + size])
                  ELSE @]

\* A packet of flow f is counted, and reported if the window is full.
Count(f, size) ==
  LET counted == period[f] + (now - time[f])
      due == counted >= Window
  IN  /\ total' = [total EXCEPT ![f] = @ + size]
      /\ time' = [time EXCEPT ![f] = now]
      /\ bytes' = [bytes EXCEPT ![f] = IF due THEN 0 ELSE @ + size]
      /\ period' = [period EXCEPT ![f] = IF due THEN 0 ELSE counted]
      /\ reports' = [reports EXCEPT ![f] =
           IF due THEN Append(@, [at |-> now, bytes |-> bytes[f] + size, period |-> counted,
                                  total |-> total[f] + size])
                  ELSE @]

\* The sink receives a packet from source s.
Receive(s, size) ==
  /\ \/ /\ flowOf[s] \in Flow
        /\ total[flowOf[s]] + size <= MaxBytes
        /\ Count(flowOf[s], size)
     \/ /\ flowOf[s] = "none"
        /\ UNCHANGED <<bytes, time, period, total, reports>>
  /\ UNCHANGED now

Next == Tick \/ \E s \in Source, size \in Size : Receive(s, size)

Spec == Init /\ [][Next]_vars

-----------------------------------------------------------------------------
(* Properties *)

\* When the n-th report of f began, and what f had received then.
BeganAt(f, n) == IF n = 1 THEN Start ELSE reports[f][n - 1].at
BeganWith(f, n) == IF n = 1 THEN 0 ELSE reports[f][n - 1].total

(* The reports of a flow tile its time: each covers exactly the time since *)
(* the report before it, at least a window, and exactly the bytes received *)
(* in that time, whatever the other flow does meanwhile.                   *)
ReportsTile ==
  \A f \in Flow : \A n \in 1 .. Len(reports[f]) :
     LET r == reports[f][n]
     IN  /\ r.period = r.at - BeganAt(f, n) /\ r.period >= Window
         /\ r.bytes = r.total - BeganWith(f, n)

(* What was not reported yet is less than a window old: no packet that     *)
(* reaches the tenth of a second goes without a report.                    *)
NothingOverdue ==
  \A f \in Flow : time[f] - BeganAt(f, Len(reports[f]) + 1) < Window
=============================================================================
