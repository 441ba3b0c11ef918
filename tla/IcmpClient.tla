------------------------------- MODULE IcmpClient -------------------------------
(* app/monitoring/icmp_client.py: one run of the operating system's ping and   *)
(* what the code makes of its output.  The text is abstracted to what the two  *)
(* regular expressions tell apart: the "time=N ms" of each reply line, the     *)
(* "N% packet loss" of the summary, and, on platforms that print one, the      *)
(* "time N ms" the summary gives for the whole run.                            *)
EXTENDS Integers, Sequences, FiniteSets

CONSTANTS
  None,             \* Python's None
  Count,            \* settings.icmp_count_per_poll: echo requests per run
  ReplyTimes,       \* round-trip times a reply line may carry, in ms
  RunTime,          \* what a summary of the "linux" form prints as its time, in ms
  Platforms         \* the forms of summary: a subset of {"windows", "linux", "bsd"}

ASSUME IcmpClientAssumption ==
  /\ None \notin Int
  /\ Count \in Nat \ {0}
  /\ ReplyTimes \subseteq Nat
  /\ RunTime \in Nat
  /\ Platforms \subseteq {"windows", "linux", "bsd"}

(* How one echo request ends: a reply with its time, silence, or a router's    *)
(* "destination unreachable" line, which has no time.                          *)
Replied(ms) == [kind |-> "reply", ms |-> ms]
Lost        == [kind |-> "lost", ms |-> 0]
Rejected    == [kind |-> "rejected", ms |-> 0]
Answers     == {Replied(ms) : ms \in ReplyTimes} \cup {Lost, Rejected}

VARIABLES
  platform,         \* the ping utility the process runs
  answers,          \* the answers to the echo requests sent so far
  result            \* None while proc.communicate() waits, then the ICMPResult

vars == <<platform, answers, result>>

IsReply(a) == a.kind = "reply"

(* The summary line.  Windows counts a router's refusal as a packet received.  *)
Received ==
  {i \in DOMAIN answers : \/ IsReply(answers[i])
                          \/ platform = "windows" /\ answers[i].kind = "rejected"}
SummaryLoss == ((Len(answers) - Cardinality(Received)) * 100) \div Len(answers)

(* The times of the reply lines, in the order in which they were printed.      *)
TimesOf(lines) ==
  LET times[n \in 0..Len(lines)] ==
        IF n = 0 THEN <<>>
        ELSE IF IsReply(lines[n]) THEN Append(times[n - 1], lines[n].ms)
        ELSE times[n - 1]
  IN  times[Len(lines)]

(* What _TIME_RE.findall returns: the "[=<]" of the pattern is optional, so    *)
(* the summary's "time 3060ms" is one more sample.                             *)
Samples ==
  IF platform = "linux" THEN Append(TimesOf(answers), RunTime) ELSE TimesOf(answers)

SumOf(s) ==
  LET sum[n \in 0..Len(s)] == IF n = 0 THEN 0 ELSE sum[n - 1] + s[n]
  IN  sum[Len(s)]

Distance(a, b) == IF a > b THEN a - b ELSE b - a

(* The mean of the samples.  The mutant divides by the requests sent.          *)
MeanLatency_OverSent(samples) == SumOf(samples) \div Count
MeanLatency(samples) == SumOf(samples) \div Len(samples)

(* The mean of their successive differences.  The mutant forgets to divide.    *)
Differences(samples) ==
  [i \in 1..(Len(samples) - 1) |-> Distance(samples[i + 1], samples[i])]
MeanDifference_Sum(samples) == SumOf(Differences(samples))
MeanDifference(samples) == SumOf(Differences(samples)) \div (Len(samples) - 1)

(* _parse: reachable as soon as there is one sample (means are rounded down).  *)
(* The mutant believes the summary instead of the samples.                     *)
Parsed(reachable, samples, loss) ==
  [reachable |-> reachable,
   latency   |-> IF samples # <<>> THEN MeanLatency(samples) ELSE None,
   jitter    |-> IF Len(samples) >= 2 THEN MeanDifference(samples) ELSE None,
   loss      |-> IF loss # None THEN loss ELSE IF reachable THEN 0 ELSE 100]

Parse_LossDecides(samples, loss) == Parsed(loss # 100, samples, loss)
Parse(samples, loss) == Parsed(samples # <<>>, samples, loss)

(* The answer of ping() when the utility is missing or overruns its time: the  *)
(* output read so far is thrown away.  The mutant leaves the loss unset.       *)
NoAnswer_NoLoss == [reachable |-> FALSE, latency |-> None, jitter |-> None, loss |-> None]
NoAnswer == [reachable |-> FALSE, latency |-> None, jitter |-> None, loss |-> 100]

---------------------------------------------------------------------------------
Init ==
  /\ platform \in Platforms
  /\ answers = <<>>
  /\ result = None

(* The utility handles one more echo request.                                  *)
Echo(a) ==
  /\ result = None
  /\ Len(answers) < Count
  /\ answers' = Append(answers, a)
  /\ UNCHANGED <<platform, result>>

(* communicate() returns and the output is parsed.                             *)
Finish ==
  /\ result = None
  /\ Len(answers) = Count
  /\ result' = Parse(Samples, SummaryLoss)
  /\ UNCHANGED <<platform, answers>>

(* The utility dies before it prints a summary (at once for an unknown host):  *)
(* what it printed until then is parsed, without a loss.                       *)
FinishWithoutSummary ==
  /\ result = None
  /\ result' = Parse(TimesOf(answers), None)
  /\ UNCHANGED <<platform, answers>>

(* FileNotFoundError, or wait_for's timeout: the process is killed.            *)
NotFoundOrTimedOut ==
  /\ result = None
  /\ result' = NoAnswer
  /\ UNCHANGED <<platform, answers>>

Next ==
  \/ \E a \in Answers : Echo(a)
  \/ Finish
  \/ FinishWithoutSummary
  \/ NotFoundOrTimedOut

Spec == Init /\ [][Next]_vars

---------------------------------------------------------------------------------
HasResult == result # None
Replies   == {answers[i].ms : i \in {j \in DOMAIN answers : IsReply(answers[j])}}

(* The result is an ICMPResult, and None exactly where the code leaves None.   *)
TypeOK ==
  /\ platform \in Platforms
  /\ answers \in Seq(Answers)
  /\ HasResult =>
       /\ result.reachable \in BOOLEAN
       /\ result.loss \in 0..100
       /\ result.latency = None <=> ~result.reachable
       /\ result.jitter # None => result.latency # None

(* A target is called reachable only if it answered an echo request, and the   *)
(* latency stored for it lies between its fastest and its slowest reply        *)
(* (_parse, icmp_client.py:35-58).                                             *)
LatencyComesFromReplies ==
  HasResult /\ result.reachable =>
    /\ \E low \in Replies : low <= result.latency
    /\ \E high \in Replies : result.latency <= high

(* A run whose output was parsed, complete or cut off, calls the target        *)
(* reachable exactly if some echo request was answered, whatever the summary   *)
(* says of the loss (icmp_client.py:50-51).                                    *)
ReachableIffAnswered ==
  HasResult /\ result # NoAnswer =>
    (result.reachable <=> Replies # {})

(* The mean of the successive differences never exceeds the spread of the      *)
(* replies (icmp_client.py:43-46).                                             *)
JitterWithinSpread ==
  HasResult /\ result.jitter # None =>
    \E low, high \in Replies : result.jitter <= high - low

(* alert_engine.py:28 words the outage alert "WAN is unreachable (ICMP: 100%   *)
(* packet loss)": a run that lost every packet is not a reachable target.      *)
TotalLossIsUnreachable ==
  HasResult /\ result.loss = 100 => ~result.reachable
=================================================================================
