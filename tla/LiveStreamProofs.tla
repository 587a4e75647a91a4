--------------------------- MODULE LiveStreamProofs ---------------------------
(***************************************************************************)
(* Proofs about LiveStream, for any pods, clients and tools, any window of *)
(* the log, any capacity of a subscription and any number of failures:     *)
(* what a client that polls is sent, and when a client is told the end.    *)
(***************************************************************************)
EXTENDS LiveStream, SequenceTheorems, TLAPS

-----------------------------------------------------------------------------
(* The window of the log, and what the handler sends of it.                *)

\* What of a sequence comes after its first a elements.
LEMMA RestIs ==
    ASSUME NEW q \in Seq(Nat), NEW a \in Nat
    PROVE  LET rest == SubSeq(q, a + 1, Len(q))
               more == IF a < Len(q) THEN Len(q) - a ELSE 0
           IN  rest \in Seq(Nat) /\ Len(rest) = more /\ \A i \in 1..more : rest[i] = q[a + i]
<1> DEFINE rest == SubSeq(q, a + 1, Len(q))
           more == IF a < Len(q) THEN Len(q) - a ELSE 0
<1>1. Len(q) \in Nat /\ a + 1 \in Int /\ Len(q) \in Int /\ \A i \in (a + 1)..Len(q) : q[i] \in Nat
    OBVIOUS
<1>2. rest \in Seq(Nat)
    BY <1>1, SubSeqProperties, Zenon
<1>3. Len(rest) = IF a + 1 <= Len(q) THEN Len(q) - (a + 1) + 1 ELSE 0
    BY <1>1, SubSeqProperties, Zenon
<1>4. \A i \in 1..(Len(q) - (a + 1) + 1) : rest[i] = q[(a + 1) + i - 1]
    BY <1>1, SubSeqProperties
<1> DEFINE length == Len(rest)
<1>5. length = IF a + 1 <= Len(q) THEN Len(q) - (a + 1) + 1 ELSE 0
    BY <1>3
<1> HIDE DEF length, rest
<1>6. length = more
    BY <1>1, <1>5
<1>7. ASSUME NEW i \in 1..more
      PROVE  rest[i] = q[a + i]
    <2>1. i \in 1..(Len(q) - (a + 1) + 1) /\ (a + 1) + i - 1 = a + i
        BY <1>1, <1>7
    <2> QED
        BY <1>4, <2>1
<1> QED
    BY <1>2, <1>6, <1>7 DEF length, rest

\* How many lines have slid out of the window.
Slid(q) == IF Len(q) <= MaxLog THEN 0 ELSE Len(q) - MaxLog

LEMMA WindowIs ==
    ASSUME NEW q \in Seq(Nat)
    PROVE  /\ Window(q) \in Seq(Nat) /\ Len(Window(q)) \in 0..MaxLog
           /\ Slid(q) \in Nat /\ Len(Window(q)) + Slid(q) = Len(q)
           /\ Slid(q) = 0 \/ Len(Window(q)) = MaxLog
           /\ Len(q) <= MaxLog => Slid(q) = 0
           /\ \A i \in 1..Len(Window(q)) : /\ Slid(q) + i \in 1..Len(q)
                                           /\ Window(q)[i] = q[Slid(q) + i]
<1>1. MaxLog \in Nat /\ Len(q) \in Nat
    BY StreamAssumption
<1>2. CASE Len(q) <= MaxLog
    BY <1>1, <1>2 DEF Window, Slid
<1>3. CASE ~ (Len(q) <= MaxLog)
    <2> DEFINE a == Len(q) - MaxLog
    <2>1. a \in Nat /\ a < Len(q) /\ Len(q) - a = MaxLog
        BY <1>1, <1>3, StreamAssumption
    <2>2. Window(q) = SubSeq(q, a + 1, Len(q)) /\ Slid(q) = a
        BY <1>3 DEF Window, Slid
    <2> HIDE DEF a
    <2>3. /\ SubSeq(q, a + 1, Len(q)) \in Seq(Nat) /\ Len(SubSeq(q, a + 1, Len(q))) = MaxLog
          /\ \A i \in 1..MaxLog : SubSeq(q, a + 1, Len(q))[i] = q[a + i]
        BY <2>1, RestIs
    <2> DEFINE w == SubSeq(q, a + 1, Len(q))
    <2> HIDE DEF w
    <2>4. w \in Seq(Nat) /\ Len(w) = MaxLog /\ \A i \in 1..MaxLog : w[i] = q[a + i]
        BY <2>3 DEF w
    <2>5. Window(q) = w
        BY <2>2 DEF w
    <2>6. \A i \in 1..MaxLog : a + i \in 1..Len(q)
        BY <1>1, <2>1
    <2> QED
        BY <1>1, <1>3, <2>1, <2>2, <2>4, <2>5, <2>6
<1> QED
    BY <1>2, <1>3

\* The log in memory.
LEMMA MemoryIs ==
    ASSUME TypeOK
    PROVE  /\ InMemory \in JobFiles /\ InMemory.status = status
           /\ InMemory.log \in Seq(Nat) /\ Len(InMemory.log) = lines /\ lines \in Nat
           /\ \A i \in 1..lines : InMemory.log[i] = i
<1>1. lines \in Nat /\ status \in Statuses
    BY DEF TypeOK
<1>2. [i \in 1..lines |-> i] \in Seq(Nat) /\ Len([i \in 1..lines |-> i]) = lines
    BY <1>1
<1> QED
    BY <1>1, <1>2 DEF InMemory, JobFiles

\* A delivery sends the window from its index on, and moves the index to its end.
LEMMA Delivered ==
    ASSUME TypeOK, NEW s \in Streams, NEW job \in JobFiles, Deliver(s, job)
    PROVE  LET shown == Window(job.log)
               more  == sentLogs'[s] - sentLogs[s]
           IN  /\ sent' \in [Streams -> Seq(Nat)] /\ sentLogs' \in [Streams -> 0..MaxLog]
               /\ \A t \in Streams : t # s => sent'[t] = sent[t] /\ sentLogs'[t] = sentLogs[t]
               /\ more \in Nat /\ Len(shown) <= sentLogs'[s]
               /\ sentLogs'[s] = sentLogs[s] \/ sentLogs'[s] = Len(shown)
               /\ Len(sent'[s]) = Len(sent[s]) + more
               /\ \A i \in 1..Len(sent[s]) : sent'[s][i] = sent[s][i]
               /\ \A i \in 1..more : /\ sentLogs[s] + i \in 1..Len(shown)
                                     /\ sent'[s][Len(sent[s]) + i] = shown[sentLogs[s] + i]
               /\ \E next \in {"check", "tail", "done"} :
                     /\ pc' = [pc EXCEPT ![s] = next]
                     /\ next = "done" <=> job.status = "ended"
<1> DEFINE shown == Window(job.log)
           a     == sentLogs[s]
           size  == Len(shown)
           more  == IF a < size THEN size - a ELSE 0
           part  == SubSeq(shown, a + 1, Len(shown))
<1>1. /\ job.log \in Seq(Nat) /\ shown \in Seq(Nat) /\ size \in 0..MaxLog /\ a \in 0..MaxLog
      /\ MaxLog \in Nat
    <2>1. job.log \in Seq(Nat)
        BY DEF JobFiles
    <2> QED
        BY <2>1, WindowIs, StreamAssumption DEF TypeOK
<1>2. \A i \in 1..size : shown[i] \in Nat
    BY <1>1
<1>3. part \in Seq(Nat) /\ Len(part) = more /\ \A i \in 1..more : part[i] = shown[a + i]
    <2> HIDE DEF shown
    <2>1. shown \in Seq(Nat) /\ a \in Nat
        BY <1>1
    <2> QED
        BY <2>1, RestIs
<1>4. /\ sent' = [sent EXCEPT ![s] = sent[s] \o part]
      /\ sentLogs' = [sentLogs EXCEPT ![s] = IF size > a THEN size ELSE a]
    BY DEF Deliver, NextIndex
<1>5. \E next \in {"check", "tail", "done"} :
         /\ pc' = [pc EXCEPT ![s] = next]
         /\ next = "done" <=> job.status = "ended"
    BY DEF Deliver
<1> HIDE DEF part, shown
<1>6. sent[s] \in Seq(Nat)
    BY DEF TypeOK
<1>7. /\ sent[s] \o part \in Seq(Nat) /\ Len(sent[s] \o part) = Len(sent[s]) + more
      /\ \A i \in 1..Len(sent[s]) : (sent[s] \o part)[i] = sent[s][i]
      /\ \A i \in 1..more : (sent[s] \o part)[Len(sent[s]) + i] = part[i]
    <2>1. more \in Nat
        BY <1>1
    <2> HIDE DEF more
    <2> QED
        BY <1>3, <1>6, <2>1
<1>8. /\ \A t \in Streams : t # s => sent'[t] = sent[t] /\ sentLogs'[t] = sentLogs[t]
      /\ sent'[s] = sent[s] \o part /\ sentLogs'[s] = IF size > a THEN size ELSE a
      /\ sent' \in [Streams -> Seq(Nat)]
    BY <1>4, <1>7 DEF TypeOK
<1>9. /\ sentLogs'[s] - a = more /\ more \in Nat /\ sentLogs'[s] \in 0..MaxLog
      /\ size <= sentLogs'[s] /\ (sentLogs'[s] = a \/ sentLogs'[s] = size)
      /\ \A i \in 1..more : a + i \in 1..size
    BY <1>1, <1>8
<1>10. sentLogs' \in [Streams -> 0..MaxLog]
    BY <1>4, <1>8, <1>9 DEF TypeOK
<1> HIDE DEF more, a
<1>11. \A i \in 1..more : sent'[s][Len(sent[s]) + i] = shown[a + i]
    BY <1>3, <1>7, <1>8
<1> QED
    BY <1>5, <1>7, <1>8, <1>9, <1>10, <1>11 DEF shown, a

-----------------------------------------------------------------------------
(* Types.                                                                  *)

\* What an event or a write is.
LEMMA Events0 ==
    /\ \A n \in Nat : LogEvent(n) \in Events /\ LogEvent(n).kind = "log" /\ LogEvent(n) # Done
    /\ StatusEvent \in Events /\ StatusEvent.kind = "status" /\ StatusEvent # Done
    /\ Done \in Events /\ Done.kind = "done"
    /\ Exec \in Speakers /\ Stray \in Speakers /\ Tools \subseteq Speakers
<1>1. \A n \in Nat : LogEvent(n) \in Events /\ LogEvent(n).kind = "log"
    BY DEF LogEvent, Events
<1>2. /\ StatusEvent \in Events /\ StatusEvent.kind = "status"
      /\ Done \in Events /\ Done.kind = "done"
    BY DEF StatusEvent, Done, Events
<1>3. \A e, f : e.kind # f.kind => e # f
    OBVIOUS
<1> QED
    BY <1>1, <1>2, <1>3 DEF Speakers

LEMMA StreamTypeInit == Init => TypeOK
<1> SUFFICES ASSUME Init PROVE TypeOK
    OBVIOUS
<1>1. <<>> \in Seq(Events) /\ <<>> \in Seq(Writes) /\ <<>> \in Seq(Nat) /\ Len(<<>>) = 0
    OBVIOUS
<1>2. /\ volume \in JobFiles /\ "queued" \in Statuses
      /\ volume = [status |-> "queued", log |-> <<>>]
    BY <1>1 DEF Init, JobFiles, Statuses
<1>7. known \in BOOLEAN /\ torn \in BOOLEAN /\ panicked \in BOOLEAN
    BY StreamAssumption, Zenon DEF Init
<1>8. faults \in 0..MaxFaults /\ dropped \in SUBSET Writes /\ straddled \in SUBSET Streams
    BY StreamAssumption DEF Init
<1>3. /\ status \in Statuses /\ lines \in Nat /\ final \in Nat
      /\ left \in [Tools -> 0..MaxReports] /\ strays \in 0..MaxStrays
      /\ toSay \in [Speakers -> Seq(Events)] /\ writes \in Seq(Writes) /\ draining \in SUBSET Pods
    BY <1>1, <1>2, StreamAssumption DEF Init
<1>4. /\ pc = [t \in Streams |-> "off"] /\ at \in [Streams -> Pods]
      /\ mode = [t \in Streams |-> "open"] /\ got \in [Streams -> JobFiles]
      /\ sentLogs \in [Streams -> 0..MaxLog] /\ connects \in [Streams -> 0..MaxConnects]
    BY <1>2, StreamAssumption DEF Init
<1>5. ch \in [Streams -> Seq(Events)] /\ \A t \in Streams : Len(ch[t]) <= SubCap
    BY <1>1, StreamAssumption DEF Init
<1>6. sent \in [Streams -> Seq(Nat)]
    BY <1>1 DEF Init
<1> QED
    BY <1>2, <1>3, <1>4, <1>5, <1>6, <1>7, <1>8 DEF TypeOK

\* A step of the scan changes the job, what is said of it and what is written.
ScanPart ==
    \/ ExecuteBegins \/ ExecuteSkips \/ ExecuteEnds \/ ExecutePanics \/ StrayLine
    \/ \E t \in Tools : Report(t) \/ Return(t)

LEMMA BecomesTypes ==
    ASSUME TypeOK, NEW st \in Statuses, NEW n \in Nat, NEW kind \in {"job", "line"},
           Becomes(kind, st, n)
    PROVE  status' \in Statuses /\ lines' \in Nat /\ writes' \in Seq(Writes)
<1>1. [kind |-> kind, status |-> st, n |-> n] \in Writes
    BY DEF Writes
<1> QED
    BY <1>1 DEF Becomes, TypeOK

LEMMA FaultTypes ==
    ASSUME TypeOK, Fault
    PROVE  faults' \in 0..MaxFaults /\ faults' # faults
BY StreamAssumption DEF Fault, TypeOK

LEMMA ScanTypes ==
    ASSUME TypeOK, ScanPart
    PROVE  TypeOK'
<1>1. /\ status' \in Statuses /\ lines' \in Nat /\ writes' \in Seq(Writes)
    <2>1. lines \in Nat /\ lines + 1 \in Nat /\ status \in Statuses /\ {"running", "ended", "skipped"} \subseteq Statuses
        BY DEF TypeOK, Statuses
    <2>2. \/ \E st \in Statuses, n \in Nat, kind \in {"job", "line"} : Becomes(kind, st, n)
          \/ UNCHANGED <<lines, writes>> /\ status' \in {status, "skipped"}
        BY <2>1 DEF ScanPart, ExecuteBegins, ExecuteSkips, ExecuteEnds, ExecutePanics, Ends, StrayLine,
                    Report, Return
    <2> QED
        BY <2>1, <2>2, BecomesTypes DEF TypeOK
<1>2. toSay' \in [Speakers -> Seq(Events)]
    <2>1. /\ \A n \in Nat : <<LogEvent(n)>> \in Seq(Events)
          /\ <<StatusEvent>> \in Seq(Events) /\ <<StatusEvent, Done>> \in Seq(Events)
        BY Events0
    <2>2. lines + 1 \in Nat
        BY DEF TypeOK
    <2>3. \/ toSay' = toSay
          \/ \E g \in Speakers, q \in Seq(Events) : toSay' = [toSay EXCEPT ![g] = q]
        BY <2>1, <2>2, Events0 DEF ScanPart, ExecuteBegins, ExecuteSkips, ExecuteEnds, ExecutePanics,
                                   Ends, StrayLine, Report, Return
    <2> QED
        BY <2>3 DEF TypeOK
<1>3. left' \in [Tools -> 0..MaxReports]
    <2>1. ASSUME NEW t \in Tools, Report(t)
          PROVE  left' \in [Tools -> 0..MaxReports]
        <3>1. left[t] - 1 \in 0..MaxReports /\ left' = [left EXCEPT ![t] = left[t] - 1]
            BY <2>1, StreamAssumption DEF Report, TypeOK
        <3> QED
            BY <3>1 DEF TypeOK
    <2>2. ASSUME NEW t \in Tools, Return(t)
          PROVE  left' \in [Tools -> 0..MaxReports]
        BY <2>2, StreamAssumption DEF Return, TypeOK
    <2>3. ASSUME ExecuteBegins \/ ExecuteSkips \/ ExecuteEnds \/ ExecutePanics \/ StrayLine
          PROVE  left' \in [Tools -> 0..MaxReports]
        <3>1. 0 \in 0..MaxReports /\ left \in [Tools -> 0..MaxReports]
            BY StreamAssumption DEF TypeOK
        <3>2. left' = left \/ left' = [t \in Tools |-> IF t \in Outliving THEN left[t] ELSE 0]
            BY <2>3 DEF ExecuteBegins, ExecuteSkips, ExecuteEnds, ExecutePanics, StrayLine
        <3> QED
            BY <3>1, <3>2
    <2>4. ASSUME NEW t \in Tools, Report(t) \/ Return(t)
          PROVE  left' \in [Tools -> 0..MaxReports]
        BY <2>1, <2>2, <2>4
    <2> QED
        BY <2>3, <2>4 DEF ScanPart
<1>4. /\ strays' \in 0..MaxStrays /\ final' \in Nat /\ known' \in BOOLEAN /\ panicked' \in BOOLEAN
    <2>1. strays \in 0..MaxStrays /\ final \in Nat /\ known \in BOOLEAN /\ lines \in Nat
          /\ panicked \in BOOLEAN
        BY DEF TypeOK
    <2>2. ASSUME NEW t \in Tools, Report(t) \/ Return(t)
          PROVE  UNCHANGED <<strays, final, known, panicked>>
        BY <2>2 DEF Report, Return
    <2>3. CASE StrayLine
        BY <2>1, <2>3, StreamAssumption DEF StrayLine
    <2>4. CASE ExecuteBegins \/ ExecuteSkips \/ ExecuteEnds \/ ExecutePanics
        BY <2>1, <2>4 DEF ExecuteBegins, ExecuteSkips, ExecuteEnds, ExecutePanics, Ends
    <2> QED
        BY <2>1, <2>2, <2>3, <2>4 DEF ScanPart
<1>5. /\ UNCHANGED <<volume, torn, dropped, draining, pc, at, mode, got, sentLogs, ch, sent, straddled,
                     connects>>
      /\ UNCHANGED faults \/ Fault
    BY DEF ScanPart, ExecuteBegins, ExecuteSkips, ExecuteEnds, ExecutePanics, Ends, StrayLine, Report,
           Return, Becomes, diskVars, streamVars
<1>6. faults' \in 0..MaxFaults
    BY <1>5, FaultTypes DEF TypeOK
<1> QED
    BY <1>1, <1>2, <1>3, <1>4, <1>5, <1>6 DEF TypeOK

\* What a subscriber's channel is after an event.
LEMMA OfferedIs ==
    ASSUME TypeOK, NEW s \in Streams, NEW event \in Events
    PROVE  /\ Offered(s, event) \in Seq(Events) /\ Len(Offered(s, event)) <= SubCap
           /\ Len(ch[s]) \in Nat
           /\ Offered(s, event) = ch[s] \/
                 /\ Len(Offered(s, event)) = Len(ch[s]) + 1
                 /\ \A i \in 1..Len(ch[s]) : Offered(s, event)[i] = ch[s][i]
                 /\ Offered(s, event)[Len(ch[s]) + 1] = event
<1>1. ch[s] \in Seq(Events) /\ Len(ch[s]) <= SubCap /\ SubCap \in Nat
    BY StreamAssumption DEF TypeOK
<1> QED
    BY <1>1 DEF Offered

LEMMA BroadcastTypes ==
    ASSUME TypeOK, NEW g \in Speakers, Broadcast(g)
    PROVE  TypeOK'
<1>1. toSay[g] \in Seq(Events) /\ toSay[g] # <<>>
    BY DEF TypeOK, Broadcast
<1>2. Head(toSay[g]) \in Events /\ Tail(toSay[g]) \in Seq(Events)
    BY <1>1, HeadTailProperties
<1>3. toSay' \in [Speakers -> Seq(Events)]
    BY <1>2 DEF Broadcast, TypeOK
<1>4. /\ ch' \in [Streams -> Seq(Events)] /\ \A s \in Streams : Len(ch'[s]) <= SubCap
    <2>1. ASSUME NEW s \in Streams
          PROVE  ch'[s] \in Seq(Events) /\ Len(ch'[s]) <= SubCap
        <3>1. ch'[s] = Offered(s, Head(toSay[g])) \/ ch'[s] = ch[s]
            BY DEF Broadcast
        <3> QED
            BY <1>2, <3>1, OfferedIs DEF TypeOK
    <2>2. ch' = [s \in Streams |-> ch'[s]]
        BY DEF Broadcast
    <2> QED
        BY <2>1, <2>2
<1>5. UNCHANGED <<status, known, lines, final, panicked, left, strays, writes, volume, torn, faults,
                  dropped, draining, pc, at, mode, got, sentLogs, sent, straddled, connects>>
    BY DEF Broadcast, jobVars, diskVars
<1> QED
    BY <1>3, <1>4, <1>5 DEF TypeOK

\* What becomes of the oldest write.
LEMMA PersistIs ==
    ASSUME TypeOK, Persist
    PROVE  /\ writes \in Seq(Writes) /\ writes # <<>> /\ writes[1] \in Writes
           /\ writes' = Tail(writes)
           /\ JobWritten(writes[1]) \/ LineWritten(writes[1]) \/ LineUnread(writes[1])
              \/ WriteFails(writes[1])
           /\ UNCHANGED <<jobVars, toSay, draining, streamVars>>
<1>1. writes \in Seq(Writes) /\ writes # <<>> /\ Head(writes) = writes[1] /\ writes[1] \in Writes
    BY DEF Persist, TypeOK
<1> QED
    BY <1>1 DEF Persist

LEMMA PersistTypes ==
    ASSUME TypeOK, Persist \/ \E p \in Pods : Drain(p)
    PROVE  TypeOK'
<1>1. CASE Persist
    <2>1. PICK w \in Writes : w = writes[1]
        BY <1>1, PersistIs
    <2>2. JobWritten(w) \/ LineWritten(w) \/ LineUnread(w) \/ WriteFails(w)
        BY <1>1, <2>1, PersistIs
    <2>3. Tail(writes) \in Seq(Writes) /\ writes' = Tail(writes)
        BY <1>1, PersistIs, HeadTailProperties
    <2>4. volume \in JobFiles /\ volume.log \in Seq(Nat) /\ w.n \in Nat /\ w.status \in Statuses
        BY DEF TypeOK, JobFiles, Writes
    <2>5. volume' \in JobFiles
        <3>1. CASE JobWritten(w)
            BY <2>4, <3>1 DEF JobWritten, JobFiles
        <3>2. CASE LineWritten(w)
            <4>1. Append(volume.log, w.n) \in Seq(Nat)
                BY <2>4
            <4> QED
                BY <2>4, <3>2, <4>1 DEF LineWritten, JobFiles
        <3>3. CASE LineUnread(w) \/ WriteFails(w)
            BY <2>4, <3>3 DEF LineUnread, WriteFails
        <3> QED
            BY <2>2, <3>1, <3>2, <3>3
    <2>6. torn' \in BOOLEAN /\ dropped' \in SUBSET Writes
        BY <2>2 DEF JobWritten, LineWritten, LineUnread, WriteFails, TypeOK
    <2>7. faults' \in 0..MaxFaults
        BY <2>2, FaultTypes DEF JobWritten, LineWritten, LineUnread, WriteFails, TypeOK
    <2>8. UNCHANGED <<jobVars, toSay, draining, streamVars>>
        BY <1>1, PersistIs
    <2> QED
        BY <2>3, <2>5, <2>6, <2>7, <2>8 DEF TypeOK, jobVars, streamVars
<1>2. CASE \E p \in Pods : Drain(p)
    BY <1>2 DEF Drain, TypeOK, jobVars, diskVars, streamVars
<1> QED
    BY <1>1, <1>2

\* The steps in which a handler has got the job, from memory or from the volume.
Gets(s) == GetFromMemory(s) \/ ReadLog(s) \/ ReadLogFails(s)

\* Where the log came from.
FromMemory(s, job) ==
    pc[s] = "get" /\ IsLocal(at[s]) /\ job = InMemory /\ UNCHANGED <<faults, straddled>>

FromVolume(s, job) ==
    /\ pc[s] = "getlog" /\ job.log = volume.log /\ UNCHANGED faults
    /\ straddled' = IF IsLocal(at[s]) THEN straddled \union {s} ELSE straddled

FromNothing(s, job) ==
    pc[s] = "getlog" /\ job.log = <<>> /\ Fault /\ UNCHANGED straddled

LEMMA GetsJob ==
    ASSUME TypeOK, NEW s \in Streams, Gets(s)
    PROVE  \E job \in JobFiles :
             /\ Deliver(s, job)
             /\ FromMemory(s, job) \/ FromVolume(s, job) \/ FromNothing(s, job)
             /\ job.status = IF pc[s] = "getlog" THEN got[s].status ELSE status
             /\ pc[s] \in {"get", "getlog"}
             /\ UNCHANGED <<jobVars, toSay, writes, volume, torn, dropped, draining, at, mode, got, ch,
                            connects>>
<1>1. /\ FullJob(s) \in JobFiles /\ FullJob(s).status = got[s].status
      /\ FullJob(s).log = volume.log
    BY DEF FullJob, TypeOK, JobFiles
<1>2. CASE GetFromMemory(s)
    BY <1>2, MemoryIs DEF GetFromMemory, FromMemory, diskVars
<1>3. CASE ReadLog(s)
    BY <1>1, <1>3 DEF ReadLog, FromVolume, diskVars
<1>4. CASE ReadLogFails(s)
    <2> DEFINE job == [FullJob(s) EXCEPT !.log = <<>>]
    <2>1. job \in JobFiles /\ job.status = got[s].status /\ job.log = <<>>
        <3>1. \A st, q, none : [[status |-> st, log |-> q] EXCEPT !.log = none]
                               = [status |-> st, log |-> none]
            OBVIOUS
        <3>2. job = [status |-> got[s].status, log |-> <<>>]
            BY <3>1 DEF FullJob
        <3>3. got[s].status \in Statuses /\ <<>> \in Seq(Nat)
            BY DEF TypeOK, JobFiles
        <3> HIDE DEF job
        <3> QED
            BY <3>2, <3>3 DEF JobFiles
    <2>2. Deliver(s, job)
        BY <1>4 DEF ReadLogFails
    <2> HIDE DEF job
    <2> QED
        BY <1>4, <2>1, <2>2 DEF ReadLogFails, FromNothing
<1> QED
    BY <1>2, <1>3, <1>4 DEF Gets

\* The steps of a connection that send nothing from the job.
Moves(s) ==
    \/ ReadJobJSON(s) \/ ReadJobFails(s) \/ CheckLocal(s) \/ Subscribe(s) \/ Tick(s)
    \/ DrainEnds(s) \/ Disconnect(s) \/ Receive(s) \/ \E p \in Pods : Connect(s, p)

LEMMA HandlerTypes ==
    ASSUME TypeOK, NEW s \in Streams, Gets(s) \/ Moves(s)
    PROVE  TypeOK'
<1>1. /\ UNCHANGED <<status, known, lines, final, panicked, left, strays, toSay, writes, volume, torn,
                     dropped, draining>>
      /\ UNCHANGED faults \/ Fault
    BY DEF Gets, GetFromMemory, ReadLog, ReadLogFails, Moves, ReadJobJSON, ReadJobFails, CheckLocal,
           Subscribe, Tick, DrainEnds, Disconnect, Leave, Receive, Connect, jobVars, diskVars
<1>0. faults' \in 0..MaxFaults
    BY <1>1, FaultTypes DEF TypeOK
<1>2. CASE Gets(s)
    <2>1. PICK next \in {"check", "tail", "done"} : pc' = [pc EXCEPT ![s] = next]
        BY <1>2, GetsJob, Delivered
    <2>2. sent' \in [Streams -> Seq(Nat)] /\ sentLogs' \in [Streams -> 0..MaxLog]
        BY <1>2, GetsJob, Delivered
    <2>3. UNCHANGED <<at, mode, got, ch, connects>> /\ straddled' \in SUBSET Streams
        BY <1>2 DEF Gets, GetFromMemory, ReadLog, ReadLogFails, TypeOK
    <2> QED
        BY <1>0, <1>1, <2>1, <2>2, <2>3 DEF TypeOK
<1>3. CASE ReadJobJSON(s) \/ CheckLocal(s) \/ Subscribe(s) \/ Tick(s)
    BY <1>0, <1>1, <1>3 DEF ReadJobJSON, CheckLocal, Subscribe, Tick, Goes, WhereTo, TypeOK
<1>7. CASE ReadJobFails(s)
    BY <1>0, <1>1, <1>7 DEF ReadJobFails, Goes, TypeOK
<1>4. CASE DrainEnds(s) \/ Disconnect(s)
    <2>1. <<>> \in Seq(Events) /\ Len(<<>>) = 0
        OBVIOUS
    <2>2. ch' \in [Streams -> Seq(Events)] /\ \A t \in Streams : Len(ch'[t]) <= SubCap
        <3>1. ch' = [ch EXCEPT ![s] = <<>>] /\ ch \in [Streams -> Seq(Events)]
            BY <1>4 DEF DrainEnds, Disconnect, Leave, TypeOK
        <3>2. ch' = [t \in Streams |-> IF t = s THEN <<>> ELSE ch[t]]
            BY <3>1
        <3>3. \A t \in Streams : ch[t] \in Seq(Events) /\ Len(ch[t]) <= SubCap
            BY DEF TypeOK
        <3>4. \A t \in Streams : ch'[t] = IF t = s THEN <<>> ELSE ch[t]
            BY <3>2
        <3>5. 0 <= SubCap
            BY StreamAssumption
        <3>6. \A t \in Streams : ch'[t] \in Seq(Events) /\ Len(ch'[t]) <= SubCap
            BY <2>1, <3>3, <3>4, <3>5
        <3> QED
            BY <3>2, <3>6, Zenon
    <2> QED
        BY <1>0, <1>1, <1>4, <2>2 DEF DrainEnds, Disconnect, Leave, TypeOK
<1>5. CASE Receive(s)
    <2>1. ch[s] \in Seq(Events) /\ ch[s] # <<>> /\ Len(ch[s]) <= SubCap /\ SubCap \in Nat
        BY <1>5, StreamAssumption DEF Receive, TypeOK
    <2>2. Head(ch[s]) \in Events /\ Tail(ch[s]) \in Seq(Events) /\ Len(Tail(ch[s])) <= SubCap
        <3>1. Len(Tail(ch[s])) = Len(ch[s]) - 1 /\ Len(ch[s]) \in Nat
            BY <2>1, HeadTailProperties
        <3> QED
            BY <2>1, <3>1, HeadTailProperties
    <2>3. Head(ch[s]).n \in Nat
        BY <2>2 DEF Events
    <2>4. sent[s] \in Seq(Nat) /\ Append(sent[s], Head(ch[s]).n) \in Seq(Nat)
        BY <2>3 DEF TypeOK
    <2>5. sent' \in [Streams -> Seq(Nat)]
        BY <1>5, <2>4 DEF Receive, TypeOK
    <2>6. <<>> \in Seq(Events) /\ Len(<<>>) = 0
        OBVIOUS
    <2>7. ch' \in [Streams -> Seq(Events)] /\ \A t \in Streams : Len(ch'[t]) <= SubCap
        BY <1>5, <2>1, <2>2, <2>6 DEF Receive, TypeOK
    <2>8. pc' \in [Streams -> {"off", "get", "getlog", "check", "subscribe", "live", "tail", "done"}]
        BY <1>5 DEF Receive, TypeOK
    <2> QED
        BY <1>0, <1>1, <1>5, <2>5, <2>7, <2>8 DEF Receive, TypeOK
<1>6. ASSUME NEW p \in Pods, Connect(s, p)
      PROVE  TypeOK'
    <2>1. <<>> \in Seq(Nat) /\ 0 \in 0..MaxLog
        BY StreamAssumption
    <2>2. connects[s] + 1 \in 0..MaxConnects
        BY <1>6, StreamAssumption DEF Connect, TypeOK
    <2>3. /\ sent' \in [Streams -> Seq(Nat)] /\ sentLogs' \in [Streams -> 0..MaxLog]
          /\ connects' \in [Streams -> 0..MaxConnects]
        BY <1>6, <2>1, <2>2 DEF Connect, TypeOK
    <2> QED
        BY <1>0, <1>1, <1>6, <2>3 DEF Connect, Goes, TypeOK
<1> QED
    BY <1>2, <1>3, <1>4, <1>5, <1>6, <1>7 DEF Moves

\* Every step is one of these.
LEMMA StepIs ==
    ASSUME [Next]_vars
    PROVE  \/ ScanPart \/ Persist \/ UNCHANGED vars
           \/ \E g \in Speakers : Broadcast(g)
           \/ \E s \in Streams : Gets(s) \/ Moves(s)
           \/ \E p \in Pods : Drain(p)
BY Events0
DEF Next, ScanStep, ToolStep, HandlerStep, ScanPart, Gets, Moves, Speakers

LEMMA StreamTypeStep == TypeOK /\ [Next]_vars => TypeOK'
<1> SUFFICES ASSUME TypeOK, [Next]_vars PROVE TypeOK'
    OBVIOUS
<1>1. CASE UNCHANGED vars
    BY <1>1 DEF vars, jobVars, diskVars, streamVars, TypeOK
<1> QED
    BY <1>1, StepIs, ScanTypes, BroadcastTypes, PersistTypes, HandlerTypes

\* No subscriber's channel is ever over its capacity, and the poll's index stays in
\* the window.
THEOREM StreamTypes == Spec => []TypeOK
BY StreamTypeInit, StreamTypeStep, PTL DEF Spec

-----------------------------------------------------------------------------
(* What each goroutine has yet to say.                                     *)

ToolSays == \A t \in Tools : \A i \in DOMAIN toSay[t] : toSay[t][i].kind \in {"log", "status"}

StraySays == \A i \in DOMAIN toSay[Stray] : toSay[Stray][i].kind = "log"

ExecSays == toSay[Exec] \in {<<>>, <<StatusEvent>>, <<StatusEvent, Done>>, <<Done>>}

\* The end is said by executeJob, once, and after the scan unless that panicked.
EndIsSaid ==
    /\ toSay[Exec] \in {<<StatusEvent, Done>>, <<Done>>} => status = "ended"
    /\ \A s \in Streams : \A i \in DOMAIN ch[s] :
          ch[s][i] = Done => status = "ended" /\ toSay[Exec] = <<>>
    /\ status = "ended" /\ ~ panicked => ToolsReturned

Said == ToolSays /\ StraySays /\ ExecSays /\ EndIsSaid

-----------------------------------------------------------------------------
(* What the volume tells, now and after each write that is on its way.     *)

Kept(n) == \E k \in DOMAIN volume.log : volume.log[k] = n

Pending(n) == \E i \in DOMAIN writes : writes[i].kind = "line" /\ writes[i].n = n

NoLineDropped == \A w \in dropped : w.kind # "line"

\* The log grows in order, and counts its lines as memory does while none is lost.
LogGrows ==
    /\ \A i, k \in DOMAIN volume.log : i < k => volume.log[i] < volume.log[k]
    /\ \A k \in DOMAIN volume.log :
          k <= volume.log[k] /\ volume.log[k] <= lines /\ (NoLineDropped => volume.log[k] = k)

\* What is on its way comes after what is there, and in the order of the job.
WritesGrow ==
    \A i \in DOMAIN writes :
        /\ writes[i].n <= lines
        /\ writes[i].kind = "job" /\ writes[i].status = "ended" =>
              status = "ended" /\ final <= writes[i].n
        /\ writes[i].kind = "line" =>
              /\ writes[i].n >= 1
              /\ \A k \in DOMAIN volume.log : volume.log[k] < writes[i].n
              /\ \A k \in DOMAIN writes : k < i => writes[k].n < writes[i].n

\* No line is lost but by a write that failed.
Accounted == \A n \in 1..lines : Kept(n) \/ Dropped("line", n) \/ Pending(n)

\* The scan has ended, and its lines are on the volume.
EndIsThere ==
    status = "ended" /\ \A n \in 1..final : Kept(n) \/ Dropped("line", n)

EndIsTold ==
    /\ volume.status = "ended" => EndIsThere
    /\ \A s \in Streams : got[s].status = "ended" => EndIsThere

\* A job that does not run has no lines.
LinesAreReal ==
    /\ final <= lines
    /\ status \in {"queued", "skipped"} => lines = 0
    /\ ~ known => status \in {"queued", "skipped"}

VolumeTells == LogGrows /\ WritesGrow /\ Accounted /\ EndIsTold /\ LinesAreReal

-----------------------------------------------------------------------------
(* What a client was sent that gets the job as a whole, once or repeatedly. *)

Polls(s) == pc[s] \in {"get", "getlog", "check", "subscribe", "tail"}

\* The lines sent are those of the log q up to the index a, at the latest until the
\* window slides.
Follows(lns, a, q) ==
    /\ a <= Len(q)
    /\ \A i, k \in DOMAIN lns : i < k => lns[i] < lns[k]
    /\ a = MaxLog \/ \A i \in DOMAIN lns : \E k \in 1..a : lns[i] = q[k]
    /\ Len(q) <= MaxLog => \A k \in 1..a : \E i \in DOMAIN lns : lns[i] = q[k]

\* ... of memory, where the k-th line is k.
FollowsMemory(s) ==
    /\ sentLogs[s] <= lines
    /\ \A i, k \in DOMAIN sent[s] : i < k => sent[s][i] < sent[s][k]
    /\ sentLogs[s] = MaxLog \/ \A i \in DOMAIN sent[s] : sent[s][i] \in 1..sentLogs[s]
    /\ lines <= MaxLog => \A k \in 1..sentLogs[s] : \E i \in DOMAIN sent[s] : sent[s][i] = k

FollowsVolume(s) == Follows(sent[s], sentLogs[s], volume.log)

\* The lines up to the index were sent or lost.
Covers(s) ==
    /\ sentLogs[s] <= lines
    /\ lines <= MaxLog =>
          \A k \in 1..sentLogs[s] : (\E i \in DOMAIN sent[s] : sent[s][i] = k) \/ Dropped("line", k)

SentToIndex(s) ==
    /\ at[s] # Runner => FollowsVolume(s)
    /\ at[s] = Runner =>
          /\ Covers(s) /\ (OneNumbering(s) => FollowsMemory(s))
          /\ ~ known \/ pc[s] = "getlog" => sentLogs[s] = 0 /\ sent[s] = <<>>

AllSent == \A s \in Streams : Polls(s) => SentToIndex(s)

-----------------------------------------------------------------------------
(* Steps that disturb less than they might.                                *)

\* A write that follows a change of the job.
Follow(kind) ==
    /\ writes' = Append(writes, [kind |-> kind, status |-> status', n |-> lines'])
    /\ kind \in {"job", "line"} /\ lines' = IF kind = "line" THEN lines + 1 ELSE lines

ScanDoes ==
    /\ UNCHANGED <<volume, torn, dropped, draining, pc, at, mode, got, sentLogs, ch, sent, straddled,
                   connects>>
    /\ lines' \in Nat /\ lines <= lines' /\ final' <= lines'
    /\ status = "ended" => status' = "ended" /\ final' = final
    /\ status' \in {"queued", "skipped"} => status \in {"queued", "skipped"} /\ lines' = lines
    /\ ~ known' => ~ known /\ status' \in {"queued", "skipped"}
    /\ (\E kind \in {"job", "line"} : Follow(kind)) \/ (UNCHANGED <<writes, lines>>)

\* The watchers see nothing of a step of the scan but its writes.
LEMMA ScanIs ==
    ASSUME TypeOK, LinesAreReal, ScanPart
    PROVE  ScanDoes
<1>1. /\ lines \in Nat /\ final \in Nat /\ final <= lines /\ lines + 1 \in Nat
      /\ ~ known => status \in {"queued", "skipped"}
    BY DEF TypeOK, LinesAreReal
<1>2. CASE ExecuteBegins \/ ExecuteEnds \/ ExecutePanics
    <2>1. /\ Follow("job") /\ final' <= lines /\ status \in {"queued", "running"}
          /\ status' \in {"running", "ended"}
        BY <1>1, <1>2 DEF ExecuteBegins, ExecuteEnds, ExecutePanics, Ends, Becomes, Follow
    <2>3. known' \/ (UNCHANGED known /\ status = "running")
        BY <1>2 DEF ExecuteBegins, ExecuteEnds, ExecutePanics, Ends
    <2>2. UNCHANGED <<volume, torn, dropped, draining, pc, at, mode, got, sentLogs, ch, sent, straddled,
                      connects, lines>>
        BY <1>2 DEF ExecuteBegins, ExecuteEnds, ExecutePanics, Ends, Becomes, streamVars, diskVars
    <2>4. known'
        <3>1. ~ known => status # "running"
            BY <1>1, Zenon
        <3>2. CASE known'
            BY <3>2
        <3>3. CASE UNCHANGED known /\ status = "running"
            <4>1. known
                BY <3>1, <3>3, Zenon
            <4> QED
                BY <3>3, <4>1, Zenon
        <3> QED
            BY <2>3, <3>2, <3>3, Zenon
    <2> QED
        BY <1>1, <2>1, <2>2, <2>4 DEF ScanDoes
<1>3. CASE ExecuteSkips
    BY <1>1, <1>3 DEF ExecuteSkips, streamVars, ScanDoes
<1>4. ASSUME StrayLine \/ \E t \in Tools : Report(t)
      PROVE  ScanDoes
    <2>1. /\ status' = status /\ status \in {"running", "ended"} /\ known' = known /\ final' = final
          /\ Follow("line") \/ Follow("job")
        BY <1>4 DEF StrayLine, Report, Becomes, Follow
    <2>2. UNCHANGED <<volume, torn, dropped, draining, pc, at, mode, got, sentLogs, ch, sent, straddled,
                      connects>>
        BY <1>4 DEF StrayLine, Report, Becomes, streamVars, diskVars
    <2>3. lines' \in Nat /\ lines <= lines' /\ final' <= lines'
        BY <1>1, <2>1 DEF Follow
    <2> QED
        BY <1>1, <2>1, <2>2, <2>3 DEF ScanDoes
<1>5. ASSUME \E t \in Tools : Return(t)
      PROVE  ScanDoes
    BY <1>1, <1>5 DEF Return, streamVars, diskVars, ScanDoes
<1> QED
    BY <1>2, <1>3, <1>4, <1>5 DEF ScanPart

\* A connection changes nothing of the job, nor of any other connection.
LEMMA HandlerIs ==
    ASSUME TypeOK, NEW s \in Streams, Gets(s) \/ Moves(s)
    PROVE  /\ UNCHANGED <<status, known, lines, final, panicked, left, strays, toSay, writes, volume, torn,
                         dropped, draining>>
           /\ \A t \in Streams : t # s => /\ pc'[t] = pc[t] /\ at'[t] = at[t] /\ ch'[t] = ch[t] /\ got'[t] = got[t]
                                          /\ sent'[t] = sent[t] /\ sentLogs'[t] = sentLogs[t]
                                          /\ (t \in straddled' <=> t \in straddled)
<1>1. CASE Gets(s)
    <2>1. UNCHANGED <<jobVars, toSay, writes, volume, torn, dropped, draining, at, mode, got, ch, connects>>
        BY <1>1, GetsJob
    <2>2. \A t \in Streams : t # s => sent'[t] = sent[t] /\ sentLogs'[t] = sentLogs[t]
        BY <1>1, GetsJob, Delivered
    <2>3. PICK next \in {"check", "tail", "done"} : pc' = [pc EXCEPT ![s] = next]
        BY <1>1, GetsJob, Delivered
    <2>4. straddled' = straddled \/ straddled' = straddled \union {s}
        BY <1>1 DEF Gets, GetFromMemory, ReadLog, ReadLogFails
    <2> QED
        BY <2>1, <2>2, <2>3, <2>4 DEF jobVars, diskVars, TypeOK
<1>2. CASE ReadJobJSON(s) \/ ReadJobFails(s) \/ CheckLocal(s) \/ Subscribe(s) \/ Tick(s)
    BY <1>2 DEF ReadJobJSON, ReadJobFails, CheckLocal, Subscribe, Tick, Goes, jobVars, diskVars, TypeOK
<1>3. CASE DrainEnds(s) \/ Disconnect(s)
    BY <1>3 DEF DrainEnds, Disconnect, Leave, jobVars, diskVars, TypeOK
<1>4. CASE Receive(s)
    BY <1>4 DEF Receive, jobVars, diskVars, TypeOK
<1>5. ASSUME NEW p \in Pods, Connect(s, p)
      PROVE  /\ UNCHANGED <<status, known, lines, final, panicked, left, strays, toSay, writes, volume, torn,
                         dropped, draining>>
             /\ \A t \in Streams : t # s => /\ pc'[t] = pc[t] /\ at'[t] = at[t] /\ ch'[t] = ch[t] /\ got'[t] = got[t]
                                            /\ sent'[t] = sent[t] /\ sentLogs'[t] = sentLogs[t]
                                            /\ (t \in straddled' <=> t \in straddled)
    BY <1>5 DEF Connect, Goes, jobVars, diskVars, TypeOK
<1> QED
    BY <1>1, <1>2, <1>3, <1>4, <1>5 DEF Moves

-----------------------------------------------------------------------------
(* What is said.                                                           *)

LEMMA SaidScan ==
    ASSUME TypeOK, Said, LinesAreReal, ScanPart
    PROVE  Said'
<1>1. /\ toSay \in [Speakers -> Seq(Events)] /\ lines + 1 \in Nat /\ ch' = ch
      /\ Exec \in Speakers /\ Stray \in Speakers /\ Tools \subseteq Speakers
      /\ Exec \notin Tools /\ Stray \notin Tools /\ Exec # Stray
    BY ScanIs, Events0, StreamAssumption DEF ScanDoes, TypeOK
<1>2. status # "ended" => \A s \in Streams : \A i \in DOMAIN ch[s] : ch[s][i] # Done
    BY DEF Said, EndIsSaid
<1>3. /\ LogEvent(lines + 1).kind = "log" /\ StatusEvent.kind = "status"
      /\ StatusEvent # Done
    BY <1>1, Events0
<1>4. <<StatusEvent>> # <<StatusEvent, Done>> /\ <<StatusEvent>> # <<Done>>
    BY <1>3
<1>5. CASE ExecuteBegins
    <2>1. /\ toSay'[Exec] = <<StatusEvent>> /\ \A g \in Speakers : g # Exec => toSay'[g] = toSay[g]
          /\ status = "queued" /\ status' = "running"
        BY <1>1, <1>5 DEF ExecuteBegins, Becomes
    <2> QED
        BY <1>1, <1>2, <1>4, <2>1 DEF Said, ToolSays, StraySays, ExecSays, EndIsSaid
<1>6. CASE ExecuteEnds \/ ExecutePanics
    <2>1. /\ toSay'[Exec] = <<StatusEvent, Done>>
          /\ \A g \in Speakers : g # Exec => toSay'[g] = toSay[g]
          /\ status = "running" /\ status' = "ended"
        BY <1>1, <1>6 DEF ExecuteEnds, ExecutePanics, Ends, Becomes
    <2>2. ~ panicked' => ToolsReturned'
        <3>1. CASE ExecuteEnds
            <4>1. ToolsReturned /\ left' = left
                BY <3>1 DEF ExecuteEnds
            <4> QED
                BY <1>1, <2>1, <4>1 DEF ToolsReturned
        <3>2. CASE ExecutePanics
            BY <3>2 DEF ExecutePanics
        <3> QED
            BY <1>6, <3>1, <3>2
    <2> QED
        BY <1>1, <1>2, <2>1, <2>2 DEF Said, ToolSays, StraySays, ExecSays, EndIsSaid
<1>7. CASE StrayLine
    <2>1. /\ toSay'[Stray] = <<LogEvent(lines + 1)>>
          /\ \A g \in Speakers : g # Stray => toSay'[g] = toSay[g]
          /\ status' = status /\ left' = left /\ panicked' = panicked
        BY <1>1, <1>7 DEF StrayLine, Becomes
    <2>2. ToolsReturned => ToolsReturned'
        BY <1>1, <2>1 DEF ToolsReturned
    <2>3. StraySays'
        BY <1>3, <2>1 DEF StraySays
    <2>4. ToolSays'
        BY <1>1, <2>1 DEF Said, ToolSays
    <2>5. UNCHANGED <<toSay[Exec], status, panicked>>
        BY <1>1, <2>1
    <2> QED
        BY <1>1, <2>2, <2>3, <2>4, <2>5 DEF Said, ExecSays, EndIsSaid
<1>8. CASE ExecuteSkips
    <2>1. status' = "skipped" /\ toSay' = toSay /\ status = "queued"
        BY <1>8 DEF ExecuteSkips
    <2> QED
        BY <1>1, <1>2, <2>1 DEF Said, ToolSays, StraySays, ExecSays, EndIsSaid
<1>9. ASSUME NEW t \in Tools, Report(t) \/ Return(t)
      PROVE  Said'
    <2>1. /\ \/ toSay'[t] = <<LogEvent(lines + 1)>> \/ toSay'[t] = <<StatusEvent>>
             \/ toSay'[t] = toSay[t]
          /\ \A g \in Speakers : g # t => toSay'[g] = toSay[g]
          /\ status' = status /\ left[t] # 0 /\ panicked' = panicked
        <3>1. left[t] \in 0..MaxReports
            BY DEF TypeOK
        <3>2. CASE Report(t)
            BY <1>1, <3>1, <3>2 DEF Report, Becomes
        <3>3. CASE Return(t)
            BY <3>1, <3>3 DEF Return
        <3> QED
            BY <1>9, <3>2, <3>3
    <2>2. ToolSays'
        BY <1>1, <1>3, <2>1 DEF Said, ToolSays
    <2>3. ~ (status = "ended" /\ ~ panicked)
        BY <2>1 DEF Said, EndIsSaid, ToolsReturned
    <2>4. UNCHANGED <<toSay[Exec], toSay[Stray]>>
        BY <1>1, <2>1
    <2>5. (status' = "ended" /\ ~ panicked') => ToolsReturned'
        BY <2>1, <2>3
    <2> QED
        BY <1>1, <2>1, <2>2, <2>4, <2>5 DEF Said, StraySays, ExecSays, EndIsSaid
<1> QED
    BY <1>5, <1>6, <1>7, <1>8, <1>9 DEF ScanPart

\* What a subscriber may find in its channel after a broadcast that was not there.
LEMMA BroadcastIs ==
    ASSUME TypeOK, NEW g \in Speakers, Broadcast(g)
    PROVE  /\ toSay[g] \in Seq(Events) /\ toSay[g] # <<>> /\ toSay'[g] = Tail(toSay[g])
           /\ \A h \in Speakers : h # g => toSay'[h] = toSay[h]
           /\ \A s \in Streams :
                 /\ Len(ch[s]) \in Nat
                 /\ \/ ch'[s] = ch[s]
                    \/ /\ Len(ch'[s]) = Len(ch[s]) + 1 /\ ch'[s] \in Seq(Events)
                       /\ \A i \in 1..Len(ch[s]) : ch'[s][i] = ch[s][i]
                       /\ ch'[s][Len(ch[s]) + 1] = Head(toSay[g])
           /\ UNCHANGED <<status, known, lines, final, panicked, left, strays, writes, volume, dropped,
                          draining, pc, at, mode, got, sentLogs, sent, straddled, connects>>
<1>1. /\ toSay[g] \in Seq(Events) /\ toSay[g] # <<>> /\ toSay'[g] = Tail(toSay[g])
      /\ \A h \in Speakers : h # g => toSay'[h] = toSay[h]
    BY DEF TypeOK, Broadcast
<1>2. Head(toSay[g]) \in Events
    BY <1>1, HeadTailProperties
<1>3. ASSUME NEW s \in Streams
      PROVE  /\ Len(ch[s]) \in Nat
             /\ \/ ch'[s] = ch[s]
                \/ /\ Len(ch'[s]) = Len(ch[s]) + 1 /\ ch'[s] \in Seq(Events)
                   /\ \A i \in 1..Len(ch[s]) : ch'[s][i] = ch[s][i]
                   /\ ch'[s][Len(ch[s]) + 1] = Head(toSay[g])
    <2>1. PICK event \in Events : event = Head(toSay[g])
        BY <1>2
    <2>2. ch'[s] = Offered(s, event) \/ ch'[s] = ch[s]
        BY <2>1 DEF Broadcast
    <2> QED
        BY <2>1, <2>2, OfferedIs
<1>4. UNCHANGED <<status, known, lines, final, panicked, left, strays, writes, volume, dropped,
                  draining, pc, at, mode, got, sentLogs, sent, straddled, connects>>
    BY DEF Broadcast, jobVars, diskVars
<1> QED
    BY <1>1, <1>3, <1>4

LEMMA TupleEnds ==
    \A a, b : /\ Head(<<a>>) = a /\ Tail(<<a>>) = <<>>
              /\ Head(<<a, b>>) = a /\ Tail(<<a, b>>) = <<b>>
<1> TAKE a, b
<1>1. Tail(<<a>>) = <<>>
    OBVIOUS
<1>2. <<a, b>> \in Seq({a, b}) /\ <<b>> \in Seq({a, b}) /\ <<a, b>> # <<>> /\ Len(<<a, b>>) = 2
    OBVIOUS
<1>3. /\ Tail(<<a, b>>) \in Seq({a, b}) /\ Len(Tail(<<a, b>>)) = 1
      /\ Tail(<<a, b>>)[1] = b
    BY <1>2, HeadTailProperties
<1>4. Tail(<<a, b>>) = <<b>>
    BY <1>2, <1>3, SeqEqual
<1> QED
    BY <1>1, <1>4

\* Who may say the end, and what is left to say after it.
LEMMA WhoSpeaks ==
    ASSUME TypeOK, Said, NEW g \in Speakers, Broadcast(g)
    PROVE  /\ Head(toSay[g]) = Done =>
                  g = Exec /\ toSay'[Exec] = <<>> /\ status = "ended"
           /\ g = Stray => Head(toSay[g]).kind = "log"
           /\ toSay'[Exec] \in {<<>>, <<Done>>, toSay[Exec]}
           /\ ToolSays' /\ StraySays'
<1>1. /\ toSay[g] \in Seq(Events) /\ toSay[g] # <<>> /\ toSay'[g] = Tail(toSay[g])
      /\ \A h \in Speakers : h # g => toSay'[h] = toSay[h]
      /\ Exec \in Speakers /\ Stray \in Speakers /\ Tools \subseteq Speakers
      /\ Done.kind = "done" /\ StatusEvent # Done
    BY BroadcastIs, Events0
<1>2. /\ 1 \in DOMAIN toSay[g] /\ Head(toSay[g]) = toSay[g][1]
      /\ \A i \in DOMAIN toSay'[g] : i + 1 \in DOMAIN toSay[g] /\ toSay'[g][i] = toSay[g][i + 1]
    BY <1>1
<1>3. ToolSays'
    <2>1. ASSUME NEW t \in Tools, NEW i \in DOMAIN toSay'[t]
          PROVE  toSay'[t][i].kind \in {"log", "status"}
        <3>1. \A k \in DOMAIN toSay[t] : toSay[t][k].kind \in {"log", "status"}
            BY DEF Said, ToolSays
        <3>2. t \in Speakers
            BY <1>1
        <3>3. CASE t = g
            <4>1. i + 1 \in DOMAIN toSay[t] /\ toSay'[t][i] = toSay[t][i + 1]
                BY <1>2, <2>1, <3>3
            <4> QED
                BY <3>1, <4>1
        <3>4. CASE t # g
            <4>1. toSay'[t] = toSay[t]
                BY <1>1, <3>2, <3>4
            <4> QED
                BY <2>1, <3>1, <4>1
        <3> QED
            BY <3>3, <3>4
    <2> QED
        BY <2>1 DEF ToolSays
<1>4. StraySays'
    <2>1. ASSUME NEW i \in DOMAIN toSay'[Stray]
          PROVE  toSay'[Stray][i].kind = "log"
        <3>1. \A k \in DOMAIN toSay[Stray] : toSay[Stray][k].kind = "log"
            BY DEF Said, StraySays
        <3>2. CASE g = Stray
            <4>1. i + 1 \in DOMAIN toSay[Stray] /\ toSay'[Stray][i] = toSay[Stray][i + 1]
                BY <1>2, <2>1, <3>2
            <4> QED
                BY <3>1, <4>1
        <3>3. CASE g # Stray
            <4>1. toSay'[Stray] = toSay[Stray]
                BY <1>1, <3>3
            <4> QED
                BY <2>1, <3>1, <4>1
        <3> QED
            BY <3>2, <3>3
    <2> QED
        BY <2>1 DEF StraySays
<1>5. g \in Tools => Head(toSay[g]).kind \in {"log", "status"}
    BY <1>2 DEF Said, ToolSays
<1>6. g = Stray => Head(toSay[g]).kind = "log"
    BY <1>2 DEF Said, StraySays
<1>7. CASE g = Exec
    <2>1. \/ toSay[Exec] = <<StatusEvent>> /\ Head(toSay[Exec]) = StatusEvent
             /\ toSay'[Exec] = <<>>
          \/ toSay[Exec] = <<StatusEvent, Done>> /\ Head(toSay[Exec]) = StatusEvent
             /\ toSay'[Exec] = <<Done>>
          \/ toSay[Exec] = <<Done>> /\ Head(toSay[Exec]) = Done /\ toSay'[Exec] = <<>>
        <3>1. toSay[Exec] \in {<<StatusEvent>>, <<StatusEvent, Done>>, <<Done>>}
            BY <1>1, <1>7 DEF Said, ExecSays
        <3>2. toSay'[Exec] = Tail(toSay[Exec])
            BY <1>1, <1>7
        <3> QED
            BY <3>1, <3>2, TupleEnds
    <2>2. toSay[Exec] = <<Done>> => status = "ended"
        BY DEF Said, EndIsSaid
    <2> QED
        BY <1>1, <1>3, <1>4, <1>6, <1>7, <2>1, <2>2
<1>8. CASE g # Exec
    <2>1. g = Stray \/ g \in Tools
        BY <1>8 DEF Speakers
    <2> QED
        BY <1>1, <1>3, <1>4, <1>5, <1>6, <1>8, <2>1
<1> QED
    BY <1>7, <1>8

LEMMA SaidBroadcast ==
    ASSUME TypeOK, Said, DoneComesLast, NEW g \in Speakers, Broadcast(g)
    PROVE  Said' /\ DoneComesLast'
<1>1. /\ toSay[g] # <<>> /\ \A h \in Speakers : h # g => toSay'[h] = toSay[h]
      /\ status' = status /\ left' = left /\ panicked' = panicked /\ ch \in [Streams -> Seq(Events)]
      /\ Exec \in Speakers /\ Tools \subseteq Speakers /\ Exec \notin Tools /\ StatusEvent # Done
    BY BroadcastIs, Events0, StreamAssumption DEF TypeOK
<1>2. ToolsReturned => ToolsReturned' /\ g \notin Tools
    BY <1>1 DEF ToolsReturned
<1>3. ExecSays' /\ (toSay'[Exec] \in {<<StatusEvent, Done>>, <<Done>>} => status = "ended")
    <2>1. /\ <<>> # <<StatusEvent, Done>> /\ <<>> # <<Done>>
          /\ <<StatusEvent>> # <<StatusEvent, Done>> /\ <<StatusEvent>> # <<Done>>
        BY <1>1
    <2>2. CASE g # Exec
        BY <1>1, <2>2 DEF Said, ExecSays, EndIsSaid
    <2>3. CASE g = Exec
        <3>1. toSay[Exec] \in {<<StatusEvent>>, <<StatusEvent, Done>>, <<Done>>}
            BY <1>1, <2>3 DEF Said, ExecSays
        <3>2. toSay'[Exec] = Tail(toSay[Exec])
            BY <2>3, BroadcastIs
        <3>3. \/ toSay'[Exec] = <<>>
              \/ toSay'[Exec] = <<Done>> /\ toSay[Exec] = <<StatusEvent, Done>>
            BY <3>1, <3>2, TupleEnds
        <3>4. toSay[Exec] = <<StatusEvent, Done>> => status = "ended"
            BY DEF Said, EndIsSaid
        <3> QED
            BY <2>1, <3>3, <3>4 DEF ExecSays
    <2> QED
        BY <2>2, <2>3
<1>4. ASSUME NEW s \in Streams, NEW i \in DOMAIN ch'[s], ch'[s][i] = Done
      PROVE  /\ status = "ended" /\ toSay'[Exec] = <<>>
             /\ ~ panicked => \A k \in DOMAIN ch'[s] : k > i => ch'[s][k].kind = "log"
    <2>1. ch[s] \in Seq(Events) /\ Len(ch[s]) \in Nat /\ DOMAIN ch[s] = 1..Len(ch[s])
        BY <1>1
    <2>2. ASSUME i \in DOMAIN ch[s], ch[s][i] = Done
          PROVE  /\ status = "ended" /\ toSay'[Exec] = <<>>
                 /\ ~ panicked => /\ g = Stray
                                  /\ \A k \in DOMAIN ch[s] : k > i => ch[s][k].kind = "log"
        <3>1. status = "ended" /\ toSay[Exec] = <<>> /\ (~ panicked => ToolsReturned)
            BY <2>2 DEF Said, EndIsSaid
        <3>2. g # Exec /\ (~ panicked => g \notin Tools)
            BY <1>1, <1>2, <3>1
        <3> QED
            BY <1>1, <2>2, <3>1, <3>2 DEF Speakers, DoneComesLast
    <2>3. CASE ch'[s] = ch[s]
        BY <1>4, <2>2, <2>3
    <2>4. CASE /\ Len(ch'[s]) = Len(ch[s]) + 1 /\ ch'[s] \in Seq(Events)
               /\ \A k \in 1..Len(ch[s]) : ch'[s][k] = ch[s][k]
               /\ ch'[s][Len(ch[s]) + 1] = Head(toSay[g])
        <3>1. DOMAIN ch'[s] = 1..(Len(ch[s]) + 1)
            BY <2>4
        <3>2. CASE i \in 1..Len(ch[s])
            <4>1. /\ status = "ended" /\ toSay'[Exec] = <<>>
                  /\ ~ panicked => /\ g = Stray
                                   /\ \A k \in DOMAIN ch[s] : k > i => ch[s][k].kind = "log"
                BY <1>4, <2>1, <2>2, <2>4, <3>2
            <4>2. ~ panicked => Head(toSay[g]).kind = "log"
                BY <4>1, WhoSpeaks
            <4> QED
                BY <2>1, <2>4, <3>1, <4>1, <4>2
        <3>3. CASE i = Len(ch[s]) + 1
            BY <1>4, <2>1, <2>4, <3>1, <3>3, WhoSpeaks
        <3> QED
            BY <1>4, <2>1, <3>1, <3>2, <3>3
    <2> QED
        BY <2>3, <2>4, BroadcastIs
<1>5. Said'
    BY <1>1, <1>2, <1>3, <1>4, WhoSpeaks DEF Said, EndIsSaid
<1>6. status = "ended" /\ ~ panicked => \A t \in Tools : left'[t] = 0 /\ toSay'[t] = <<>>
    BY <1>2 DEF Said, EndIsSaid, ToolsReturned
<1> QED
    BY <1>1, <1>4, <1>5, <1>6 DEF DoneComesLast

\* A handler takes what is first in its channel, or gives the channel up.
LEMMA SaidHandler ==
    ASSUME TypeOK, Said, DoneComesLast, NEW s \in Streams, Gets(s) \/ Moves(s)
    PROVE  Said' /\ DoneComesLast'
<1>1. /\ UNCHANGED <<status, left, toSay, panicked>> /\ ch[s] \in Seq(Events)
      /\ \A t \in Streams : t # s => ch'[t] = ch[t]
    BY HandlerIs DEF TypeOK
<1>2. ch'[s] = ch[s] \/ ch'[s] = <<>> \/ (ch[s] # <<>> /\ ch'[s] = Tail(ch[s]))
    <2>1. CASE Gets(s)
        BY <2>1, GetsJob
    <2>2. CASE ReadJobJSON(s) \/ ReadJobFails(s) \/ CheckLocal(s) \/ Subscribe(s) \/ Tick(s)
        BY <2>2 DEF ReadJobJSON, ReadJobFails, CheckLocal, Subscribe, Tick
    <2>3. CASE DrainEnds(s) \/ Disconnect(s)
        BY <2>3 DEF DrainEnds, Disconnect, Leave, TypeOK
    <2>4. CASE Receive(s)
        BY <2>4 DEF Receive, TypeOK
    <2>5. CASE \E p \in Pods : Connect(s, p)
        BY <2>5 DEF Connect
    <2> QED
        BY <2>1, <2>2, <2>3, <2>4, <2>5 DEF Moves
<1>3. PICK d \in {0, 1} : \A i \in DOMAIN ch'[s] : i + d \in DOMAIN ch[s] /\ ch'[s][i] = ch[s][i + d]
    <2>1. CASE ch'[s] = ch[s] \/ ch'[s] = <<>>
        <3>1. \A i \in DOMAIN ch'[s] : i + 0 \in DOMAIN ch[s] /\ ch'[s][i] = ch[s][i + 0]
            BY <1>1, <2>1
        <3> QED
            BY <3>1
    <2>2. CASE ch[s] # <<>> /\ ch'[s] = Tail(ch[s])
        <3>1. \A i \in DOMAIN ch'[s] : i + 1 \in DOMAIN ch[s] /\ ch'[s][i] = ch[s][i + 1]
            BY <1>1, <2>2
        <3> QED
            BY <3>1
    <2> QED
        BY <1>2, <2>1, <2>2
<1>4. DOMAIN ch'[s] \subseteq Int
    <2>1. ch[s] # <<>> => DOMAIN Tail(ch[s]) \subseteq Int
        BY <1>1
    <2>2. DOMAIN ch[s] \subseteq Int /\ DOMAIN <<>> \subseteq Int
        BY <1>1
    <2> QED
        BY <1>2, <2>1, <2>2, Zenon
<1>5. Said'
    BY <1>1, <1>3 DEF Said, ToolSays, StraySays, ExecSays, EndIsSaid, ToolsReturned
<1>6. DoneComesLast'
    BY <1>1, <1>3, <1>4 DEF DoneComesLast
<1> QED
    BY <1>5, <1>6

-----------------------------------------------------------------------------
(* What the volume tells.                                                  *)

LEMMA VolumeTypes ==
    ASSUME TypeOK
    PROVE  /\ volume.log \in Seq(Nat) /\ volume.status \in Statuses /\ lines \in Nat /\ final \in Nat
           /\ writes \in Seq(Writes) /\ Len(writes) \in Nat /\ DOMAIN writes = 1..Len(writes)
           /\ \A i \in DOMAIN writes : writes[i].n \in Nat
           /\ DOMAIN volume.log = 1..Len(volume.log) /\ Len(volume.log) \in Nat
           /\ \A k \in DOMAIN volume.log : volume.log[k] \in Nat
<1>1. /\ volume.log \in Seq(Nat) /\ volume.status \in Statuses /\ lines \in Nat /\ final \in Nat
      /\ writes \in Seq(Writes)
    BY DEF TypeOK, JobFiles
<1>2. \A w \in Writes : w.n \in Nat
    BY DEF Writes
<1> QED
    BY <1>1, <1>2

LEMMA VolumeScan ==
    ASSUME TypeOK, VolumeTells, ScanPart
    PROVE  VolumeTells'
<1>1. ScanDoes
    BY ScanIs DEF VolumeTells
<1>2. /\ UNCHANGED <<volume, dropped, got>> /\ lines' \in Nat /\ lines <= lines' /\ final' <= lines'
      /\ status = "ended" => status' = "ended" /\ final' = final
    BY <1>1 DEF ScanDoes
<1>3. /\ lines \in Nat /\ writes \in Seq(Writes) /\ Len(writes) \in Nat
      /\ DOMAIN writes = 1..Len(writes)
      /\ \A i \in DOMAIN writes : writes[i].n \in Nat
      /\ \A k \in DOMAIN volume.log : volume.log[k] \in Nat
    BY VolumeTypes
<1>4. LogGrows'
    BY <1>2, <1>3 DEF VolumeTells, LogGrows, NoLineDropped
<1>5. EndIsTold'
    <2>1. EndIsThere => EndIsThere'
        BY <1>2 DEF EndIsThere, Kept, Dropped
    <2> QED
        BY <1>2, <2>1 DEF VolumeTells, EndIsTold
<1>6. LinesAreReal'
    BY <1>1 DEF VolumeTells, LinesAreReal, ScanDoes
<1>7. ASSUME NEW i \in DOMAIN writes, writes'[i] = writes[i],
             \A k \in DOMAIN writes : writes'[k] = writes[k]
      PROVE  /\ writes'[i].n <= lines'
             /\ writes'[i].kind = "job" /\ writes'[i].status = "ended" =>
                  status' = "ended" /\ final' <= writes'[i].n
             /\ writes'[i].kind = "line" =>
                  /\ writes'[i].n >= 1
                  /\ \A k \in DOMAIN volume.log : volume.log[k] < writes'[i].n
                  /\ \A k \in DOMAIN writes : k < i => writes'[k].n < writes'[i].n
    <2>1. writes[i].n <= lines' /\ writes[i].n \in Nat
        BY <1>2, <1>3 DEF VolumeTells, WritesGrow
    <2> QED
        BY <1>2, <1>7, <2>1 DEF VolumeTells, WritesGrow
<1>8. CASE UNCHANGED <<writes, lines>>
    <2>1. WritesGrow'
        BY <1>2, <1>7, <1>8 DEF WritesGrow
    <2>2. Accounted'
        BY <1>2, <1>8 DEF VolumeTells, Accounted, Kept, Dropped, Pending
    <2> QED
        BY <1>4, <1>5, <1>6, <2>1, <2>2 DEF VolumeTells
<1>9. ASSUME NEW kind \in {"job", "line"}, Follow(kind)
      PROVE  VolumeTells'
    <2> DEFINE w == [kind |-> kind, status |-> status', n |-> lines']
               m == Len(writes)
    <2>1. writes' = Append(writes, w)
        BY <1>9 DEF Follow
    <2>2. w.kind = kind /\ w.status = status' /\ w.n = lines'
        OBVIOUS
    <2> HIDE DEF w
    <2>3. /\ DOMAIN writes' = 1..(m + 1) /\ writes'[m + 1] = w
          /\ \A k \in DOMAIN writes : writes'[k] = writes[k]
        BY <1>3, <2>1
    <2>4. lines' = IF kind = "line" THEN lines + 1 ELSE lines
        BY <1>9 DEF Follow
    <2>5. WritesGrow'
        <3>1. ASSUME NEW i \in 1..(m + 1)
              PROVE  /\ writes'[i].n <= lines'
                     /\ writes'[i].kind = "job" /\ writes'[i].status = "ended" =>
                          status' = "ended" /\ final' <= writes'[i].n
                     /\ writes'[i].kind = "line" =>
                          /\ writes'[i].n >= 1
                          /\ \A k \in DOMAIN volume.log : volume.log[k] < writes'[i].n
                          /\ \A k \in 1..(m + 1) : k < i => writes'[k].n < writes'[i].n
            <4>1. CASE i \in DOMAIN writes
                <5>1. \A k \in 1..(m + 1) : k < i => k \in DOMAIN writes
                    BY <1>3, <4>1
                <5> QED
                    BY <1>7, <2>3, <4>1, <5>1
            <4>2. CASE i = m + 1
                <5>1. writes'[i].n = lines' /\ writes'[i].kind = kind /\ writes'[i].status = status'
                    BY <2>2, <2>3, <4>2
                <5>2. \A k \in 1..(m + 1) : k < i => writes'[k].n \in Nat /\ writes'[k].n <= lines
                    <6>1. \A k \in 1..(m + 1) : k < i => k \in DOMAIN writes
                        BY <1>3, <4>2
                    <6> QED
                        BY <1>3, <2>3, <6>1 DEF VolumeTells, WritesGrow
                <5>3. \A k \in DOMAIN volume.log : volume.log[k] <= lines
                    BY DEF VolumeTells, LogGrows
                <5>4. kind = "line" => lines' = lines + 1
                    BY <2>4
                <5> QED
                    BY <1>2, <1>3, <5>1, <5>2, <5>3, <5>4
            <4> QED
                BY <1>3, <4>1, <4>2
        <3> QED
            BY <1>2, <2>3, <3>1 DEF WritesGrow
    <2>6. Accounted'
        <3>1. ASSUME NEW n \in 1..lines'
              PROVE  Kept(n)' \/ Dropped("line", n)' \/ Pending(n)'
            <4>1. CASE n \in 1..lines
                <5>1. Pending(n) => Pending(n)'
                    BY <1>3, <2>3 DEF Pending
                <5> QED
                    BY <1>2, <4>1, <5>1 DEF VolumeTells, Accounted, Kept, Dropped
            <4>2. CASE n \notin 1..lines
                <5>1. kind = "line" /\ n = lines'
                    BY <1>3, <2>4, <4>2
                <5>2. m + 1 \in DOMAIN writes'
                    BY <1>3, <2>3
                <5> QED
                    BY <2>2, <2>3, <5>1, <5>2 DEF Pending
            <4> QED
                BY <4>1, <4>2
        <3> QED
            BY <3>1 DEF Accounted
    <2> QED
        BY <1>4, <1>5, <1>6, <2>5, <2>6 DEF VolumeTells
<1> QED
    BY <1>1, <1>8, <1>9 DEF ScanDoes

\* The oldest write is applied, or it is dropped.
Applied(w) ==
    \/ UNCHANGED dropped /\ w.kind = "job" /\ volume'.log = volume.log /\ volume'.status = w.status
    \/ UNCHANGED dropped /\ w.kind = "line" /\ volume'.log = Append(volume.log, w.n)
                         /\ volume'.status = volume.status
    \/ dropped' = dropped \union {w} /\ UNCHANGED volume

LEMMA AppliedIs ==
    ASSUME TypeOK, NEW w \in Writes,
           JobWritten(w) \/ LineWritten(w) \/ LineUnread(w) \/ WriteFails(w)
    PROVE  Applied(w)
<1>1. volume = [status |-> volume.status, log |-> volume.log]
    BY DEF TypeOK, JobFiles
<1>2. CASE JobWritten(w)
    BY <1>1, <1>2 DEF JobWritten, Applied
<1>3. CASE LineWritten(w)
    BY <1>1, <1>3 DEF LineWritten, Applied
<1>4. CASE LineUnread(w) \/ WriteFails(w)
    BY <1>4 DEF LineUnread, WriteFails, Applied
<1> QED
    BY <1>2, <1>3, <1>4

LEMMA VolumePersist ==
    ASSUME TypeOK, VolumeTells, Persist
    PROVE  VolumeTells'
<1>1. PICK w \in Writes : w = writes[1]
    BY PersistIs
<1>2. Applied(w)
    BY <1>1, PersistIs, AppliedIs
<1>3. /\ UNCHANGED <<status, known, lines, final, got>> /\ writes' = Tail(writes) /\ writes # <<>>
    BY PersistIs DEF jobVars, streamVars
<1>4. /\ lines \in Nat /\ final \in Nat /\ Len(writes) \in Nat /\ w.n \in Nat
      /\ DOMAIN writes = 1..Len(writes) /\ volume.log \in Seq(Nat)
      /\ \A i \in DOMAIN writes : writes[i].n \in Nat
      /\ DOMAIN volume.log = 1..Len(volume.log) /\ Len(volume.log) \in Nat
      /\ \A k \in DOMAIN volume.log : volume.log[k] \in Nat
    BY VolumeTypes DEF Writes
<1>5. /\ 1 \in DOMAIN writes
      /\ \A i \in DOMAIN writes' : i + 1 \in DOMAIN writes /\ writes'[i] = writes[i + 1] /\ i \in Nat \ {0}
      /\ \A i \in DOMAIN writes : i = 1 \/ (i - 1 \in DOMAIN writes' /\ writes'[i - 1] = writes[i])
    <2>1. writes \in Seq(Writes)
        BY DEF TypeOK
    <2>2. /\ DOMAIN writes' = 1..(Len(writes) - 1) /\ Len(writes) >= 1
          /\ \A i \in 1..(Len(writes) - 1) : writes'[i] = writes[i + 1]
        BY <1>3, <2>1
    <2> QED
        BY <1>4, <2>2
<1>6. /\ w.n <= lines
      /\ w.kind = "job" /\ w.status = "ended" => status = "ended" /\ final <= w.n
      /\ w.kind = "line" => w.n >= 1 /\ \A k \in DOMAIN volume.log : volume.log[k] < w.n
    BY <1>1, <1>5 DEF VolumeTells, WritesGrow
<1>7. LinesAreReal'
    BY <1>3 DEF VolumeTells, LinesAreReal
<1>8. \A i \in DOMAIN writes : writes[i].kind = "line" /\ i # 1 => w.n < writes[i].n
    BY <1>1, <1>4, <1>5 DEF VolumeTells, WritesGrow
\* What is kept or lost stays so, and the write adds to it.
<1>9. /\ \A n \in Nat : Kept(n) => Kept(n)'
      /\ \A n \in Nat : Dropped("line", n) => Dropped("line", n)'
      /\ w.kind = "line" => Kept(w.n)' \/ Dropped("line", w.n)'
    <2>1. CASE volume'.log = volume.log /\ UNCHANGED dropped /\ w.kind = "job"
        BY <2>1 DEF Kept, Dropped
    <2>2. CASE volume'.log = Append(volume.log, w.n) /\ UNCHANGED dropped
        <3>1. /\ \A k \in DOMAIN volume.log : k \in DOMAIN volume'.log /\ volume'.log[k] = volume.log[k]
              /\ Len(volume.log) + 1 \in DOMAIN volume'.log /\ volume'.log[Len(volume.log) + 1] = w.n
            BY <1>4, <2>2
        <3> QED
            BY <2>2, <3>1 DEF Kept, Dropped
    <2>3. CASE dropped' = dropped \union {w} /\ UNCHANGED volume
        BY <2>3 DEF Kept, Dropped
    <2> QED
        BY <1>2, <2>1, <2>2, <2>3 DEF Applied
<1>10. Accounted'
    <2>1. ASSUME NEW n \in 1..lines
          PROVE  Kept(n)' \/ Dropped("line", n)' \/ Pending(n)'
        <3>1. CASE Kept(n) \/ Dropped("line", n)
            BY <1>9, <3>1
        <3>2. ASSUME NEW i \in DOMAIN writes, writes[i].kind = "line", writes[i].n = n
              PROVE  Kept(n)' \/ Dropped("line", n)' \/ Pending(n)'
            <4>1. CASE i = 1
                BY <1>1, <1>9, <3>2, <4>1
            <4>2. CASE i # 1
                BY <1>5, <3>2, <4>2 DEF Pending
            <4> QED
                BY <4>1, <4>2
        <3> QED
            BY <3>1, <3>2 DEF VolumeTells, Accounted, Pending
    <2> QED
        BY <1>3, <2>1 DEF Accounted
<1>11. LogGrows'
    <2>1. CASE UNCHANGED volume /\ dropped' = dropped \union {w}
        BY <1>3, <2>1 DEF VolumeTells, LogGrows, NoLineDropped
    <2>2. CASE volume'.log = volume.log /\ UNCHANGED dropped
        BY <1>3, <2>2 DEF VolumeTells, LogGrows, NoLineDropped
    <2>3. CASE volume'.log = Append(volume.log, w.n) /\ UNCHANGED dropped /\ w.kind = "line"
        <3> DEFINE m == Len(volume.log)
        <3>1. /\ DOMAIN volume'.log = 1..(m + 1) /\ volume'.log[m + 1] = w.n
              /\ \A k \in 1..m : volume'.log[k] = volume.log[k]
            BY <1>4, <2>3
        <3>2. m \in Nat /\ DOMAIN volume.log = 1..m
            BY <1>4
        <3>3. /\ \A i, k \in 1..m : i < k => volume.log[i] < volume.log[k]
              /\ \A k \in 1..m : k <= volume.log[k] /\ volume.log[k] <= lines /\ volume.log[k] < w.n
                                 /\ volume.log[k] \in Nat
              /\ NoLineDropped => \A k \in 1..m : volume.log[k] = k
            BY <1>4, <1>6, <2>3, <3>2 DEF VolumeTells, LogGrows
        <3> HIDE DEF m
        <3>4. m + 1 <= w.n
            <4>1. CASE m = 0
                BY <1>4, <1>6, <2>3, <4>1
            <4>2. CASE m # 0
                <5>1. m \in 1..m
                    BY <3>2, <4>2
                <5> QED
                    BY <1>4, <3>2, <3>3, <5>1
            <4> QED
                BY <4>1, <4>2
        <3>5. NoLineDropped => w.n = m + 1
            <4> SUFFICES ASSUME NoLineDropped, w.n # m + 1 PROVE FALSE
                OBVIOUS
            <4>1. m + 1 \in 1..lines /\ m + 1 < w.n
                BY <1>4, <1>6, <3>2, <3>4
            <4>2. ~ Kept(m + 1)
                BY <3>2, <3>3 DEF Kept
            <4>3. ~ Dropped("line", m + 1)
                BY DEF NoLineDropped, Dropped
            <4>4. Pending(m + 1)
                BY <4>1, <4>2, <4>3 DEF VolumeTells, Accounted
            <4>5. PICK i \in DOMAIN writes : writes[i].kind = "line" /\ writes[i].n = m + 1
                BY <4>4 DEF Pending
            <4> QED
                BY <1>1, <1>4, <1>8, <4>1, <4>5
        <3>6. NoLineDropped' <=> NoLineDropped
            BY <2>3 DEF NoLineDropped
        <3>7. ASSUME NEW i \in 1..(m + 1), NEW k \in 1..(m + 1), i < k
              PROVE  volume'.log[i] < volume'.log[k]
            <4>1. i \in 1..m /\ (k \in 1..m \/ k = m + 1)
                BY <3>2, <3>7
            <4> QED
                BY <3>1, <3>3, <3>7, <4>1
        <3>8. ASSUME NEW k \in 1..(m + 1)
              PROVE  /\ k <= volume'.log[k] /\ volume'.log[k] <= lines
                     /\ NoLineDropped => volume'.log[k] = k
            <4>1. k \in 1..m \/ k = m + 1
                BY <3>2
            <4> QED
                BY <1>6, <3>1, <3>3, <3>4, <3>5, <4>1
        <3> QED
            BY <1>3, <3>1, <3>6, <3>7, <3>8 DEF LogGrows
    <2> QED
        BY <1>2, <2>1, <2>2, <2>3 DEF Applied
<1>12. ASSUME NEW k \in DOMAIN volume'.log
       PROVE  volume'.log[k] = w.n \/ \E j \in DOMAIN volume.log : volume'.log[k] = volume.log[j]
    <2>1. CASE volume'.log = volume.log
        BY <1>12, <2>1
    <2>2. CASE volume'.log = Append(volume.log, w.n)
        BY <1>4, <1>12, <2>2
    <2> QED
        BY <1>2, <2>1, <2>2 DEF Applied
<1>13. WritesGrow'
    <2>1. ASSUME NEW i \in DOMAIN writes'
          PROVE  /\ writes'[i].n <= lines
                 /\ writes'[i].kind = "job" /\ writes'[i].status = "ended" =>
                      status = "ended" /\ final <= writes'[i].n
                 /\ writes'[i].kind = "line" =>
                      /\ writes'[i].n >= 1
                      /\ \A k \in DOMAIN volume'.log : volume'.log[k] < writes'[i].n
                      /\ \A k \in DOMAIN writes' : k < i => writes'[k].n < writes'[i].n
        <3>1. PICK j \in DOMAIN writes : j = i + 1 /\ writes'[i] = writes[j] /\ j # 1
            BY <1>5
        <3>2. \A k \in DOMAIN writes' : k < i =>
                 \E h \in DOMAIN writes : h < j /\ writes'[k] = writes[h]
            <4>1. ASSUME NEW k \in DOMAIN writes', k < i
                  PROVE  k + 1 \in DOMAIN writes /\ k + 1 < j /\ writes'[k] = writes[k + 1]
                BY <1>5, <3>1, <4>1
            <4> QED
                BY <4>1
        <3>3. /\ writes[j].n <= lines
              /\ writes[j].kind = "job" /\ writes[j].status = "ended" =>
                   status = "ended" /\ final <= writes[j].n
              /\ writes[j].kind = "line" =>
                   /\ writes[j].n >= 1 /\ w.n < writes[j].n
                   /\ \A k \in DOMAIN volume.log : volume.log[k] < writes[j].n
                   /\ \A k \in DOMAIN writes : k < j => writes[k].n < writes[j].n
            BY <1>8, <3>1 DEF VolumeTells, WritesGrow
        <3> QED
            BY <1>12, <3>1, <3>2, <3>3
    <2> QED
        BY <1>3, <2>1 DEF WritesGrow
<1>14. EndIsThere => EndIsThere'
    <2>1. \A n \in 1..final : n \in Nat
        BY <1>4
    <2> QED
        BY <1>3, <1>9, <2>1 DEF EndIsThere
<1>15. w.kind = "job" /\ w.status = "ended" => EndIsThere'
    <2> SUFFICES ASSUME w.kind = "job", w.status = "ended", NEW n \in 1..final
                 PROVE  Kept(n)' \/ Dropped("line", n)'
        BY <1>3, <1>6 DEF EndIsThere
    <2>1. n \in Nat /\ n \in 1..lines /\ n <= w.n
        BY <1>4, <1>6
    <2>2. ~ Pending(n)
        <3>1. ASSUME NEW i \in DOMAIN writes, writes[i].kind = "line", writes[i].n = n
              PROVE  FALSE
            <4>1. i # 1
                BY <1>1, <3>1
            <4> QED
                BY <1>4, <1>8, <2>1, <3>1, <4>1
        <3> QED
            BY <3>1 DEF Pending
    <2> QED
        BY <1>9, <2>1, <2>2 DEF VolumeTells, Accounted
<1>16. EndIsTold'
    <2>1. volume'.status = "ended" => EndIsThere'
        BY <1>2, <1>14, <1>15 DEF Applied, VolumeTells, EndIsTold
    <2> QED
        BY <1>3, <1>14, <2>1 DEF VolumeTells, EndIsTold
<1> QED
    BY <1>7, <1>10, <1>11, <1>13, <1>16 DEF VolumeTells

\* Nothing else touches the volume; a handler keeps what it read of it.
LEMMA VolumeHandler ==
    ASSUME TypeOK, VolumeTells,
           UNCHANGED <<status, known, lines, final, writes, volume, dropped>>,
           \A t \in Streams : got'[t] = got[t] \/ got'[t] = volume
    PROVE  VolumeTells'
<1>1. LogGrows' /\ WritesGrow' /\ LinesAreReal'
    BY DEF VolumeTells, LogGrows, WritesGrow, LinesAreReal, NoLineDropped
<1>2. Accounted' /\ (EndIsThere => EndIsThere')
    BY DEF VolumeTells, Accounted, EndIsThere, Kept, Dropped, Pending
<1>3. EndIsTold'
    BY <1>2 DEF VolumeTells, EndIsTold
<1> QED
    BY <1>1, <1>2, <1>3 DEF VolumeTells

-----------------------------------------------------------------------------
(* What the client was sent.                                               *)

\* The client had the lines lns and the index a, and was sent what is shown.
Sends(lns, a, new, b, shown) ==
    /\ b - a \in Nat /\ Len(shown) <= b /\ (b = a \/ b = Len(shown))
    /\ Len(new) = Len(lns) + (b - a)
    /\ \A i \in 1..Len(lns) : new[i] = lns[i]
    /\ \A i \in 1..(b - a) : a + i \in 1..Len(shown) /\ new[Len(lns) + i] = shown[a + i]

\* A client that follows a log follows it further.
LEMMA FollowsOn ==
    ASSUME NEW lns \in Seq(Nat), NEW new \in Seq(Nat), NEW a \in 0..MaxLog, NEW b \in 0..MaxLog,
           NEW q \in Seq(Nat), \A i, k \in DOMAIN q : i < k => q[i] < q[k],
           Follows(lns, a, q), Sends(lns, a, new, b, Window(q))
    PROVE  Follows(new, b, q) /\ (Len(q) <= MaxLog => b = Len(q))
<1> DEFINE shown == Window(q)
           z     == Slid(q)
<1>1. /\ shown \in Seq(Nat) /\ Len(shown) \in 0..MaxLog /\ z \in Nat /\ Len(shown) + z = Len(q)
      /\ z = 0 \/ Len(shown) = MaxLog
      /\ Len(q) <= MaxLog => z = 0
      /\ \A i \in 1..Len(shown) : z + i \in 1..Len(q) /\ shown[i] = q[z + i]
    BY WindowIs
<1> HIDE DEF shown, z
<1>0. /\ a \in Nat /\ b \in Nat /\ a <= MaxLog /\ b <= MaxLog /\ MaxLog \in Nat /\ Len(q) \in Nat
      /\ Len(lns) \in Nat /\ DOMAIN lns = 1..Len(lns) /\ DOMAIN new = 1..Len(new)
    BY StreamAssumption
<1>2. PICK more \in Nat, m \in Nat :
         /\ m = Len(lns) /\ DOMAIN lns = 1..m
         /\ b = a + more /\ Len(shown) <= b /\ (more = 0 \/ b = Len(shown))
         /\ DOMAIN new = 1..(m + more)
         /\ \A i \in 1..m : new[i] = lns[i]
         /\ \A i \in 1..more : a + i \in 1..Len(shown) /\ new[m + i] = shown[a + i]
    <2> DEFINE more == b - a
    <2>1. /\ more \in Nat /\ Len(shown) <= b /\ (b = a \/ b = Len(shown))
          /\ Len(new) = Len(lns) + more
          /\ \A i \in 1..Len(lns) : new[i] = lns[i]
          /\ \A i \in 1..more : a + i \in 1..Len(shown) /\ new[Len(lns) + i] = shown[a + i]
        BY DEF Sends, shown
    <2>2. b = a + more /\ (b = a => more = 0)
        BY <1>0
    <2> HIDE DEF more
    <2> QED
        BY <1>0, <2>1, <2>2
<1>3. /\ a <= Len(q)
      /\ \A i, k \in 1..m : i < k => lns[i] < lns[k]
      /\ a = MaxLog \/ \A i \in 1..m : \E k \in 1..a : lns[i] = q[k]
      /\ Len(q) <= MaxLog => \A k \in 1..a : \E i \in 1..m : lns[i] = q[k]
    <2>1. Follows(lns, a, q) /\ DOMAIN lns = 1..m
        BY <1>2
    <2> QED
        BY <2>1 DEF Follows
<1>4. b <= Len(q) /\ \A i \in 1..Len(q) : q[i] \in Nat
    BY <1>0, <1>1, <1>2, <1>3
<1>5. \A j \in 1..more : z + (a + j) \in 1..Len(q) /\ new[m + j] = q[z + (a + j)]
    BY <1>1, <1>2
<1>6. ASSUME NEW i \in DOMAIN new
      PROVE  \/ i \in 1..m /\ new[i] = lns[i]
             \/ \E j \in 1..more : i = m + j /\ new[i] = q[z + (a + j)]
    <2>1. CASE i > m
        <3>1. i - m \in 1..more /\ i = m + (i - m)
            BY <1>2, <1>6, <2>1
        <3> QED
            BY <1>5, <3>1
    <2>2. CASE ~ (i > m)
        <3>1. i \in 1..m
            BY <1>2, <1>6, <2>2
        <3> QED
            BY <1>2, <3>1
    <2> QED
        BY <2>1, <2>2
<1>7. ASSUME NEW i \in DOMAIN new, NEW k \in DOMAIN new, i < k
      PROVE  new[i] < new[k]
    <2>1. CASE k \in 1..m /\ new[k] = lns[k]
        <3>1. i \in 1..m
            BY <1>2, <1>7, <2>1
        <3> QED
            BY <1>2, <1>3, <1>7, <2>1, <3>1
    <2>2. ASSUME NEW j \in 1..more, k = m + j, new[k] = q[z + (a + j)]
          PROVE  new[i] < new[k]
        <3>1. CASE i \in 1..m /\ new[i] = lns[i]
            <4>1. a # MaxLog
                BY <1>0, <1>2, <2>2
            <4>2. PICK h \in 1..a : lns[i] = q[h]
                BY <1>3, <3>1, <4>1
            <4>3. h < z + (a + j)
                BY <1>0, <1>1, <2>2, <4>2
            <4>4. h \in 1..Len(q) /\ z + (a + j) \in 1..Len(q)
                BY <1>0, <1>3, <1>5, <2>2, <4>2
            <4>5. q[h] < q[z + (a + j)]
                BY <4>3, <4>4
            <4> QED
                BY <2>2, <3>1, <4>2, <4>5
        <3>2. ASSUME NEW g \in 1..more, i = m + g, new[i] = q[z + (a + g)]
              PROVE  new[i] < new[k]
            <4>1. z + (a + g) < z + (a + j)
                BY <1>0, <1>1, <1>2, <1>7, <2>2, <3>2
            <4>2. z + (a + g) \in 1..Len(q) /\ z + (a + j) \in 1..Len(q)
                BY <1>5, <2>2, <3>2
            <4>3. q[z + (a + g)] < q[z + (a + j)]
                BY <4>1, <4>2
            <4> QED
                BY <2>2, <3>2, <4>3
        <3> QED
            BY <1>6, <3>1, <3>2
    <2> QED
        BY <1>6, <2>1, <2>2
<1>8. ASSUME b # MaxLog, NEW i \in DOMAIN new
      PROVE  \E k \in 1..b : new[i] = q[k]
    <2>1. a # MaxLog /\ z = 0
        BY <1>0, <1>1, <1>2, <1>8
    <2>2. CASE i \in 1..m /\ new[i] = lns[i]
        <3>1. PICK k \in 1..a : lns[i] = q[k]
            BY <1>3, <2>1, <2>2
        <3>2. k \in 1..b
            BY <1>0, <1>2
        <3> QED
            BY <2>2, <3>1, <3>2
    <2>3. ASSUME NEW j \in 1..more, new[i] = q[z + (a + j)]
          PROVE  \E k \in 1..b : new[i] = q[k]
        <3>1. z + (a + j) \in 1..b
            BY <1>0, <1>2, <2>1
        <3> QED
            BY <2>3, <3>1
    <2> QED
        BY <1>6, <2>2, <2>3
<1>9. ASSUME Len(q) <= MaxLog
      PROVE  b = Len(q) /\ \A k \in 1..b : \E i \in DOMAIN new : new[i] = q[k]
    <2>1. z = 0 /\ b = Len(q)
        BY <1>0, <1>1, <1>2, <1>4, <1>9
    <2>2. ASSUME NEW k \in 1..b
          PROVE  \E i \in DOMAIN new : new[i] = q[k]
        <3>1. CASE k \in 1..a
            <4>1. PICK i \in 1..m : lns[i] = q[k]
                BY <1>3, <1>9, <3>1
            <4>2. i \in DOMAIN new /\ new[i] = lns[i]
                BY <1>2
            <4> QED
                BY <4>1, <4>2
        <3>2. CASE k \notin 1..a
            <4>1. PICK j \in 1..more : k = a + j
                <5>1. k - a \in 1..more /\ k = a + (k - a)
                    BY <1>0, <1>2, <3>2
                <5> QED
                    BY <5>1
            <4>2. z + (a + j) = k
                BY <1>0, <2>1, <4>1
            <4>3. m + j \in DOMAIN new /\ new[m + j] = q[k]
                BY <1>2, <1>5, <4>1, <4>2
            <4> QED
                BY <4>3
        <3> QED
            BY <3>1, <3>2
    <2> QED
        BY <2>1, <2>2
<1> QED
    BY <1>4, <1>7, <1>8, <1>9 DEF Follows

\* Who follows a log follows a longer one.
LEMMA FollowsLonger ==
    ASSUME NEW lns \in Seq(Nat), NEW a \in 0..MaxLog, NEW q \in Seq(Nat), NEW r \in Seq(Nat),
           Follows(lns, a, q), Len(q) <= Len(r), \A k \in 1..Len(q) : r[k] = q[k]
    PROVE  Follows(lns, a, r)
<1>1. a <= Len(q) /\ a \in Nat /\ Len(q) \in Nat /\ Len(r) \in Nat /\ MaxLog \in Nat
    BY StreamAssumption DEF Follows
<1>2. \A k \in 1..a : k \in 1..Len(q) /\ r[k] = q[k]
    BY <1>1
<1>3. a <= Len(r) /\ (Len(r) <= MaxLog => Len(q) <= MaxLog)
    BY <1>1
<1> QED
    BY <1>2, <1>3 DEF Follows

\* Nothing is sent of a log that cannot be read.
LEMMA SendsNothing ==
    ASSUME NEW lns \in Seq(Nat), NEW new \in Seq(Nat), NEW a \in 0..MaxLog, NEW b \in 0..MaxLog,
           Sends(lns, a, new, b, Window(<<>>))
    PROVE  b = a /\ new = lns
<1>1. Window(<<>>) = <<>> /\ Len(<<>>) = 0
    BY StreamAssumption DEF Window
<1>2. b = a
    BY <1>1 DEF Sends
<1>3. Len(new) = Len(lns) /\ \A i \in 1..Len(lns) : new[i] = lns[i]
    BY <1>2 DEF Sends
<1> QED
    BY <1>2, <1>3, SeqEqual

\* Who polls keeps what was sent, as the job and the volume go on.
LEMMA SentRemains ==
    ASSUME TypeOK, AllSent, NEW s \in Streams, Polls(s),
           UNCHANGED <<sent[s], sentLogs[s], at[s]>>, OneNumbering(s)' => OneNumbering(s),
           lines' \in Nat, lines <= lines',
           ~ known' \/ pc'[s] = "getlog" => ~ known \/ pc[s] = "getlog" \/ at[s] # Runner,
           volume'.log \in Seq(Nat), Len(volume.log) <= Len(volume'.log),
           \A k \in 1..Len(volume.log) : volume'.log[k] = volume.log[k],
           \A n \in Nat : Dropped("line", n) => Dropped("line", n)'
    PROVE  SentToIndex(s)'
<1>1. /\ lines \in Nat /\ MaxLog \in Nat /\ (lines' <= MaxLog => lines <= MaxLog)
      /\ sent[s] \in Seq(Nat) /\ sentLogs[s] \in 0..MaxLog
    BY StreamAssumption DEF TypeOK
<1>2. SentToIndex(s)
    BY DEF AllSent
<1>3. CASE at[s] # Runner
    <2>1. PICK q \in Seq(Nat), r \in Seq(Nat), lns \in Seq(Nat), a \in 0..MaxLog :
             q = volume.log /\ r = volume'.log /\ lns = sent[s] /\ a = sentLogs[s]
        BY <1>1, VolumeTypes
    <2>2. Follows(lns, a, q)
        BY <1>2, <1>3, <2>1 DEF SentToIndex, FollowsVolume
    <2>3. Follows(lns, a, r)
        BY <2>1, <2>2, FollowsLonger
    <2> QED
        BY <1>3, <2>1, <2>3 DEF SentToIndex, FollowsVolume, Follows
<1>4. CASE at[s] = Runner
    <2>1. Covers(s)'
        <3>1. /\ sentLogs[s] <= lines
              /\ lines <= MaxLog =>
                    \A k \in 1..sentLogs[s] : (\E i \in DOMAIN sent[s] : sent[s][i] = k) \/ Dropped("line", k)
            BY <1>2, <1>4 DEF SentToIndex, Covers
        <3>2. \A k \in 1..sentLogs[s] : Dropped("line", k) => Dropped("line", k)'
            BY <1>1
        <3> QED
            BY <1>1, <3>1, <3>2 DEF Covers
    <2>2. OneNumbering(s)' => FollowsMemory(s)'
        <3>1. OneNumbering(s) => FollowsMemory(s)
            BY <1>2, <1>4 DEF SentToIndex
        <3>2. FollowsMemory(s) => FollowsMemory(s)'
            BY <1>1 DEF FollowsMemory
        <3> QED
            BY <3>1, <3>2
    <2>3. (~ known' \/ pc'[s] = "getlog") => sentLogs'[s] = 0 /\ sent'[s] = <<>>
        BY <1>2, <1>4 DEF SentToIndex
    <2> QED
        BY <1>4, <2>1, <2>2, <2>3 DEF SentToIndex
<1> QED
    BY <1>3, <1>4

\* A connection begins with nothing, and only sends what it gets until it subscribes.
LEMMA SentMoves ==
    ASSUME TypeOK, AllSent, NEW s \in Streams, Moves(s), Polls(s)'
    PROVE  SentToIndex(s)'
<1>1. lines \in Nat /\ UNCHANGED <<lines, known, volume, dropped>>
    BY HandlerIs DEF TypeOK
<1>2. CASE ReadJobJSON(s) \/ ReadJobFails(s) \/ CheckLocal(s) \/ Subscribe(s) \/ Tick(s)
    <2>1. UNCHANGED <<sent, sentLogs, at, straddled>> /\ (Polls(s) \/ pc'[s] = "off")
        BY <1>2 DEF ReadJobJSON, ReadJobFails, CheckLocal, Subscribe, Tick, Goes, Polls, TypeOK
    <2>2. ~ known' \/ pc'[s] = "getlog" => ~ known \/ pc[s] = "getlog" \/ at[s] # Runner
        <3>1. CASE ReadJobJSON(s)
            BY <1>1, <3>1 DEF ReadJobJSON, IsLocal
        <3>2. CASE ReadJobFails(s) \/ CheckLocal(s) \/ Subscribe(s) \/ Tick(s)
            <4>1. pc'[s] # "getlog"
                BY <3>2 DEF ReadJobFails, CheckLocal, WhereTo, Subscribe, Tick, Goes, TypeOK
            <4> QED
                BY <1>1, <4>1
        <3> QED
            BY <1>2, <3>1, <3>2
    <2>3. OneNumbering(s)' => OneNumbering(s)
        BY <1>1, <2>1 DEF OneNumbering
    <2>4. \A n \in Nat : Dropped("line", n) => Dropped("line", n)'
        BY <1>1 DEF Dropped
    <2>5. /\ lines' \in Nat /\ lines <= lines'
          /\ volume'.log \in Seq(Nat) /\ Len(volume.log) <= Len(volume'.log)
          /\ \A k \in 1..Len(volume.log) : volume'.log[k] = volume.log[k]
        BY <1>1, VolumeTypes
    <2>6. Polls(s)
        BY <2>1 DEF Polls
    <2> QED
        BY <2>1, <2>2, <2>3, <2>4, <2>5, <2>6, SentRemains
<1>3. CASE DrainEnds(s) \/ Disconnect(s)
    BY <1>3 DEF DrainEnds, Disconnect, Leave, Polls, TypeOK
<1>4. CASE Receive(s)
    BY <1>4 DEF Receive, Polls, TypeOK
<1>5. ASSUME NEW p \in Pods, Connect(s, p)
      PROVE  SentToIndex(s)'
    <2>1. sent'[s] = <<>> /\ sentLogs'[s] = 0 /\ DOMAIN <<>> = {}
        BY <1>5 DEF Connect, TypeOK
    <2>2. volume'.log \in Seq(Nat) /\ Len(volume'.log) \in Nat
        BY <1>1, VolumeTypes
    <2>3. /\ sentLogs'[s] <= lines' /\ sentLogs'[s] <= Len(volume'.log)
          /\ \A k \in 1..sentLogs'[s] : FALSE
        BY <1>1, <2>1, <2>2
    <2>4. FollowsMemory(s)' /\ Covers(s)'
        BY <2>1, <2>3 DEF FollowsMemory, Covers
    <2>5. FollowsVolume(s)'
        BY <2>1, <2>3 DEF FollowsVolume, Follows
    <2> QED
        BY <2>1, <2>4, <2>5 DEF SentToIndex
<1> QED
    BY <1>2, <1>3, <1>4, <1>5 DEF Moves

\* What the client has when it is told the end.
Brought(s) ==
    /\ status = "ended" /\ (OneNumbering(s)' => IsOrdered(sent'[s]))
    /\ \A n \in 1..final : Dropped("line", n) \/ \E i \in DOMAIN sent'[s] : sent'[s][i] = n

\* A volume that tells the end lets one read of its log bring the lines.
LEMMA VolumeCovers ==
    ASSUME TypeOK, VolumeTells
    PROVE  /\ Len(volume.log) <= lines
           /\ \A k \in 1..Len(volume.log) : Kept(k) \/ Dropped("line", k)
           /\ lines = 0 => volume.log = <<>>
<1> DEFINE m == Len(volume.log)
<1>1. /\ m \in Nat /\ lines \in Nat /\ DOMAIN volume.log = 1..m /\ volume.log \in Seq(Nat)
      /\ \A k \in 1..m : volume.log[k] \in Nat
      /\ \A i \in DOMAIN writes : writes[i].n \in Nat
    BY VolumeTypes
<1>2. \A k \in 1..m : k <= volume.log[k] /\ volume.log[k] <= lines
    BY <1>1 DEF VolumeTells, LogGrows
<1>3. m = 0 \/ m \in 1..m
    BY <1>1
<1> HIDE DEF m
<1>4. m <= lines
    BY <1>1, <1>2, <1>3
<1>5. ASSUME NEW k \in 1..m
      PROVE  Kept(k) \/ Dropped("line", k)
    <2>1. k \in 1..lines /\ k <= volume.log[m] /\ m \in DOMAIN volume.log
        BY <1>1, <1>2, <1>3, <1>4
    <2>2. ~ Pending(k)
        <3>1. ASSUME NEW i \in DOMAIN writes, writes[i].kind = "line", writes[i].n = k
              PROVE  FALSE
            <4>1. volume.log[m] < writes[i].n
                BY <2>1, <3>1 DEF VolumeTells, WritesGrow
            <4> QED
                BY <1>1, <1>3, <2>1, <3>1, <4>1
        <3> QED
            BY <3>1 DEF Pending
    <2> QED
        BY <2>1, <2>2 DEF VolumeTells, Accounted
<1>6. lines = 0 => volume.log = <<>>
    <2>1. lines = 0 => m = 0
        BY <1>1, <1>4
    <2> QED
        BY <1>1, <2>1 DEF m
<1> QED
    BY <1>4, <1>5, <1>6 DEF m

\* A snapshot or a poll sends what comes after the index, and when it tells the end
\* the client has every line that was not lost.
LEMMA SentGets ==
    ASSUME TypeOK, VolumeTells, AllSent, NEW s \in Streams, Gets(s)
    PROVE  /\ SentToIndex(s)'
           /\ pc'[s] = "done" /\ lines <= MaxLog /\ faults' = faults => Brought(s)
<1>1. PICK job \in JobFiles :
         /\ Deliver(s, job)
         /\ FromMemory(s, job) \/ FromVolume(s, job) \/ FromNothing(s, job)
         /\ job.status = IF pc[s] = "getlog" THEN got[s].status ELSE status
         /\ pc[s] \in {"get", "getlog"}
         /\ UNCHANGED <<jobVars, toSay, writes, volume, torn, dropped, draining, at, mode, got, ch,
                        connects>>
    BY GetsJob
<1>2. UNCHANGED <<status, known, lines, final, volume, dropped, at>>
    BY <1>1 DEF jobVars
<1>3. PICK lns \in Seq(Nat), new \in Seq(Nat), a \in 0..MaxLog, b \in 0..MaxLog, q \in Seq(Nat) :
         /\ lns = sent[s] /\ new = sent'[s] /\ a = sentLogs[s] /\ b = sentLogs'[s] /\ q = job.log
         /\ Sends(lns, a, new, b, Window(q))
    <2>1. job.log \in Seq(Nat) /\ sent[s] \in Seq(Nat) /\ sentLogs[s] \in 0..MaxLog
        BY DEF JobFiles, TypeOK
    <2>2. sent'[s] \in Seq(Nat) /\ sentLogs'[s] \in 0..MaxLog
        BY <1>1, Delivered
    <2>3. Sends(sent[s], sentLogs[s], sent'[s], sentLogs'[s], Window(job.log))
        BY <1>1, Delivered DEF Sends
    <2> QED
        BY <2>1, <2>2, <2>3
<1>4. /\ pc'[s] # "getlog"
      /\ pc'[s] = "done" => job.status = "ended"
    <2>1. PICK next \in {"check", "tail", "done"} :
             pc' = [pc EXCEPT ![s] = next] /\ (next = "done" <=> job.status = "ended")
        BY <1>1, Delivered
    <2>2. pc'[s] = next
        BY <2>1 DEF TypeOK
    <2> QED
        BY <2>1, <2>2
<1>5. SentToIndex(s) /\ lines \in Nat /\ MaxLog \in Nat
    BY <1>1, StreamAssumption DEF AllSent, Polls, TypeOK
<1>6. /\ \A k \in DOMAIN volume.log : volume.log[k] \in Nat
      /\ \A i, k \in DOMAIN volume.log : i < k => volume.log[i] < volume.log[k]
      /\ NoLineDropped => \A k \in DOMAIN volume.log : volume.log[k] = k
      /\ Len(volume.log) <= lines
      /\ \A k \in 1..Len(volume.log) : Kept(k) \/ Dropped("line", k)
    BY VolumeTypes, VolumeCovers DEF VolumeTells, LogGrows
<1>7. CASE FromMemory(s, job)
    <2>1. /\ at[s] = Runner /\ known /\ UNCHANGED straddled /\ job = InMemory /\ pc[s] = "get"
        BY <1>7 DEF FromMemory, IsLocal
    <2>2. /\ Len(q) = lines /\ \A i \in 1..lines : q[i] = i
        BY <1>3, <2>1, MemoryIs
    <2>3. /\ a <= lines
          /\ lines <= MaxLog =>
                \A k \in 1..a : (\E i \in DOMAIN lns : lns[i] = k) \/ Dropped("line", k)
          /\ OneNumbering(s) => FollowsMemory(s)
        BY <1>3, <1>5, <2>1 DEF SentToIndex, Covers
    <2>4. OneNumbering(s)' <=> OneNumbering(s)
        BY <1>2, <2>1 DEF OneNumbering
    <2>5. OneNumbering(s) => Follows(new, b, q)
        <3>1. FollowsMemory(s) => Follows(lns, a, q)
            <4>1. \A k \in 1..a : q[k] = k
                BY <1>5, <2>2, <2>3
            <4> QED
                BY <1>3, <2>2, <4>1 DEF FollowsMemory, Follows
        <3>2. \A i, k \in DOMAIN q : i < k => q[i] < q[k]
            BY <2>2
        <3>3. FollowsMemory(s) => Follows(new, b, q)
            BY <1>3, <3>1, <3>2, FollowsOn
        <3> QED
            BY <2>3, <3>3
    <2>6. b <= lines /\ (lines <= MaxLog => b = lines)
        <3> DEFINE shown == Window(q)
        <3>1. Len(shown) <= Len(q) /\ (Len(q) <= MaxLog => Len(shown) = Len(q)) /\ Len(shown) \in Nat
            BY WindowIs
        <3>2. Len(shown) <= b /\ (b = a \/ b = Len(shown))
            BY <1>3 DEF Sends
        <3> QED
            BY <1>5, <2>2, <2>3, <3>1, <3>2
    <2>7. lines <= MaxLog =>
             \A k \in 1..b : (\E i \in DOMAIN new : new[i] = k) \/ Dropped("line", k)
        <3> SUFFICES ASSUME lines <= MaxLog, NEW k \in 1..b
                     PROVE  (\E i \in DOMAIN new : new[i] = k) \/ Dropped("line", k)
            OBVIOUS
        <3> DEFINE m == Len(lns)
        <3>1. /\ m \in Nat /\ DOMAIN lns = 1..m /\ b - a \in Nat
              /\ DOMAIN new = 1..(m + (b - a))
              /\ \A i \in 1..m : new[i] = lns[i]
              /\ \A i \in 1..(b - a) : new[m + i] = Window(q)[a + i]
            <4>1. /\ b - a \in Nat /\ Len(new) = m + (b - a)
                  /\ \A i \in 1..m : new[i] = lns[i]
                  /\ \A i \in 1..(b - a) : new[m + i] = Window(q)[a + i]
                BY <1>3 DEF Sends
            <4>2. m \in Nat /\ DOMAIN lns = 1..m /\ DOMAIN new = 1..Len(new)
                OBVIOUS
            <4> QED
                BY <4>1, <4>2
        <3> HIDE DEF m
        <3>2. CASE k \in 1..a
            <4>1. \A i \in DOMAIN lns : i \in DOMAIN new /\ new[i] = lns[i]
                BY <3>1
            <4> QED
                BY <2>3, <3>2, <4>1
        <3>3. CASE k \notin 1..a
            <4>1. k - a \in 1..(b - a) /\ a + (k - a) = k
                BY <3>1, <3>3
            <4>2. Window(q) = q
                BY <2>2 DEF Window
            <4>3. new[m + (k - a)] = q[k] /\ q[k] = k
                BY <1>5, <2>2, <2>6, <3>1, <4>1, <4>2
            <4>4. m + (k - a) \in DOMAIN new
                BY <3>1, <4>1
            <4> QED
                BY <4>3, <4>4
        <3> QED
            BY <3>2, <3>3
    <2>8. Covers(s)'
        <3>1. \A n \in 1..b : Dropped("line", n) => Dropped("line", n)'
            BY <1>2 DEF Dropped
        <3> QED
            BY <1>2, <1>3, <2>6, <2>7, <3>1 DEF Covers
    <2>9. OneNumbering(s) => FollowsMemory(s)'
        <3> SUFFICES ASSUME OneNumbering(s) PROVE FollowsMemory(s)'
            OBVIOUS
        <3>1. \A k \in 1..b : q[k] = k /\ k \in 1..b
            BY <1>5, <2>2, <2>6
        <3>2. Follows(new, b, q) /\ Len(q) = lines
            BY <2>2, <2>5
        <3>3. /\ \A i, k \in DOMAIN new : i < k => new[i] < new[k]
              /\ b = MaxLog \/ \A i \in DOMAIN new : new[i] \in 1..b
              /\ lines <= MaxLog => \A k \in 1..b : \E i \in DOMAIN new : new[i] = k
            BY <3>1, <3>2 DEF Follows
        <3>4. sent'[s] = new /\ sentLogs'[s] = b /\ lines' = lines
            BY <1>2, <1>3
        <3> QED
            BY <2>6, <3>3, <3>4 DEF FollowsMemory
    <2>10. SentToIndex(s)'
        BY <1>2, <1>4, <2>1, <2>4, <2>8, <2>9 DEF SentToIndex
    <2>11. ASSUME pc'[s] = "done", lines <= MaxLog
           PROVE  Brought(s)
        <3>1. status = "ended"
            BY <1>1, <1>4, <2>1, <2>11
        <3>2. OneNumbering(s)' => IsOrdered(sent'[s])
            BY <1>3, <2>4, <2>5 DEF Follows, IsOrdered
        <3>3. \A n \in 1..final : n \in 1..b
            BY <1>5, <2>6, <2>11 DEF VolumeTells, LinesAreReal, TypeOK
        <3> QED
            BY <1>3, <2>7, <2>11, <3>1, <3>2, <3>3 DEF Brought
    <2> QED
        BY <2>10, <2>11
<1>8. ASSUME pc[s] = "getlog"
      PROVE  Follows(lns, a, volume.log)
    <2>1. CASE at[s] # Runner
        BY <1>3, <1>5, <2>1 DEF SentToIndex, FollowsVolume
    <2>2. CASE at[s] = Runner
        <3>1. a = 0 /\ lns = <<>> /\ Len(volume.log) \in Nat
            BY <1>3, <1>5, <1>8, <2>2, VolumeTypes DEF SentToIndex
        <3> QED
            BY <3>1 DEF Follows
    <2> QED
        BY <2>1, <2>2
<1>9. CASE FromVolume(s, job)
    <2>1. /\ pc[s] = "getlog" /\ q = volume.log /\ UNCHANGED faults
          /\ straddled' = IF IsLocal(at[s]) THEN straddled \union {s} ELSE straddled
        BY <1>3, <1>9 DEF FromVolume
    <2>2. Follows(new, b, q) /\ (Len(q) <= MaxLog => b = Len(q))
        <3>1. Follows(lns, a, q) /\ \A i, k \in DOMAIN q : i < k => q[i] < q[k]
            BY <1>6, <1>8, <2>1
        <3> QED
            BY <1>3, <3>1, FollowsOn
    <2>3. /\ b <= Len(q) /\ Len(q) <= lines /\ Len(q) \in Nat /\ DOMAIN q = 1..Len(q)
          /\ lines <= MaxLog => b = Len(q) /\ \A k \in 1..b : \E i \in DOMAIN new : new[i] = q[k]
        BY <1>5, <1>6, <2>1, <2>2 DEF Follows
    <2>4. ASSUME lines <= MaxLog, NEW n \in Nat, Kept(n)
          PROVE  \E i \in DOMAIN new : new[i] = n
        <3>1. PICK k \in DOMAIN q : q[k] = n
            BY <2>1, <2>4 DEF Kept
        <3> QED
            BY <2>3, <2>4, <3>1
    <2>5. FollowsVolume(s)'
        BY <1>2, <1>3, <2>1, <2>2 DEF FollowsVolume, Follows
    <2>6. Covers(s)'
        <3>1. lines <= MaxLog =>
                 \A k \in 1..b : (\E i \in DOMAIN new : new[i] = k) \/ Dropped("line", k)
            <4> SUFFICES ASSUME lines <= MaxLog, NEW k \in 1..b
                         PROVE  (\E i \in DOMAIN new : new[i] = k) \/ Dropped("line", k)
                OBVIOUS
            <4>1. k \in Nat /\ k \in 1..Len(volume.log)
                BY <1>5, <2>1, <2>3
            <4> QED
                BY <1>6, <2>4, <4>1
        <3>2. \A n \in 1..b : Dropped("line", n) => Dropped("line", n)'
            BY <1>2 DEF Dropped
        <3> QED
            BY <1>2, <1>3, <1>5, <2>3, <3>1, <3>2 DEF Covers
    <2>7. ASSUME at[s] = Runner, ~ known
          PROVE  b = 0 /\ new = <<>>
        <3>1. q = <<>>
            BY <2>1, <2>7, VolumeCovers DEF VolumeTells, LinesAreReal
        <3>2. a = 0 /\ lns = <<>>
            BY <1>3, <1>5, <2>7 DEF SentToIndex
        <3>3. Sends(lns, a, new, b, Window(<<>>))
            BY <1>3, <3>1
        <3>4. b = a /\ new = lns
            BY <3>3, SendsNothing
        <3> QED
            BY <3>2, <3>4
    <2>11. b <= lines /\ \A k \in 1..b : k \in DOMAIN q
        <3>1. b <= Len(q) /\ Len(q) <= lines /\ Len(q) \in Nat /\ DOMAIN q = 1..Len(q)
            BY <2>3
        <3>2. b \in Nat
            BY <1>3, <1>5
        <3> QED
            BY <1>5, <3>1, <3>2
    <2>12. NoLineDropped =>
              /\ \A i, k \in DOMAIN new : i < k => new[i] < new[k]
              /\ b = MaxLog \/ \A i \in DOMAIN new : new[i] \in 1..b
              /\ lines <= MaxLog => \A k \in 1..b : \E i \in DOMAIN new : new[i] = k
        <3>1. NoLineDropped => \A k \in 1..b : q[k] = k
            BY <1>6, <2>1, <2>11
        <3>2. lines <= MaxLog => Len(q) <= MaxLog
            BY <1>5, <2>3
        <3>3. /\ \A i, k \in DOMAIN new : i < k => new[i] < new[k]
              /\ b = MaxLog \/ \A i \in DOMAIN new : \E k \in 1..b : new[i] = q[k]
              /\ Len(q) <= MaxLog => \A k \in 1..b : \E i \in DOMAIN new : new[i] = q[k]
            BY <2>2 DEF Follows
        <3>4. NoLineDropped => (b = MaxLog \/ \A i \in DOMAIN new : new[i] \in 1..b)
            BY <3>1, <3>3
        <3>5. NoLineDropped /\ lines <= MaxLog => \A k \in 1..b : \E i \in DOMAIN new : new[i] = k
            BY <3>1, <3>2, <3>3
        <3> QED
            BY <3>3, <3>4, <3>5
    <2>13. ~ known /\ at[s] = Runner =>
              /\ \A i, k \in DOMAIN new : i < k => new[i] < new[k]
              /\ b = MaxLog \/ \A i \in DOMAIN new : new[i] \in 1..b
              /\ lines <= MaxLog => \A k \in 1..b : \E i \in DOMAIN new : new[i] = k
        <3>1. DOMAIN <<>> = {} /\ \A k \in 1..0 : FALSE
            OBVIOUS
        <3> QED
            BY <2>7, <3>1
    <2>8. ASSUME at[s] = Runner, OneNumbering(s)'
          PROVE  FollowsMemory(s)'
        <3>1. ~ known \/ NoLineDropped
            BY <1>2, <2>1, <2>8 DEF OneNumbering, IsLocal, NoLineDropped
        <3>2. sent'[s] = new /\ sentLogs'[s] = b /\ lines' = lines
            BY <1>2, <1>3
        <3> QED
            BY <2>8, <2>11, <2>12, <2>13, <3>1, <3>2 DEF FollowsMemory
    <2>9. SentToIndex(s)'
        BY <1>2, <1>3, <1>4, <2>5, <2>6, <2>7, <2>8 DEF SentToIndex
    <2>10. ASSUME pc'[s] = "done", lines <= MaxLog
           PROVE  Brought(s)
        <3>1. EndIsThere
            BY <1>1, <1>4, <2>1, <2>10 DEF VolumeTells, EndIsTold
        <3>2. IsOrdered(sent'[s])
            BY <1>3, <2>2 DEF Follows, IsOrdered
        <3>3. \A n \in 1..final : n \in Nat
            BY DEF TypeOK
        <3> QED
            BY <1>3, <2>4, <2>10, <3>1, <3>2, <3>3 DEF Brought, EndIsThere
    <2> QED
        BY <2>9, <2>10
<1>10. CASE FromNothing(s, job)
    <2>1. pc[s] = "getlog" /\ q = <<>> /\ UNCHANGED straddled /\ faults' # faults
        BY <1>3, <1>10, FaultTypes DEF FromNothing
    <2>2. b = a /\ new = lns
        BY <1>3, <2>1, SendsNothing
    <2>3. UNCHANGED <<sent[s], sentLogs[s], at[s], lines, known, volume, dropped, straddled>>
        BY <1>2, <1>3, <2>1, <2>2
    <2>4. /\ FollowsVolume(s) => FollowsVolume(s)'
          /\ FollowsMemory(s) => FollowsMemory(s)'
        BY <2>3 DEF FollowsVolume, Follows, FollowsMemory
    <2>5. /\ Covers(s) => Covers(s)'
          /\ OneNumbering(s)' <=> OneNumbering(s)
        BY <2>3 DEF Covers, OneNumbering, Dropped
    <2>6. SentToIndex(s)'
        BY <1>4, <1>5, <2>1, <2>3, <2>4, <2>5 DEF SentToIndex
    <2> QED
        BY <2>1, <2>6
<1> QED
    BY <1>1, <1>7, <1>9, <1>10

-----------------------------------------------------------------------------
(* The invariant.                                                          *)

StreamInv == Said /\ VolumeTells /\ AllSent /\ DoneComesLast

LEMMA StreamInit == Init => StreamInv
<1> SUFFICES ASSUME Init PROVE StreamInv
    OBVIOUS
<1>1. /\ status = "queued" /\ lines = 0 /\ final = 0 /\ writes = <<>> /\ DOMAIN <<>> = {}
      /\ volume = [status |-> "queued", log |-> <<>>]
      /\ volume.log = <<>> /\ volume.status = "queued"
      /\ \A t \in Streams : pc[t] = "off" /\ ch[t] = <<>> /\ got[t] = volume
    BY DEF Init
<1>2. \A g \in Speakers : toSay[g] = <<>>
    BY DEF Init
<1>3. <<>> # <<StatusEvent, Done>> /\ <<>> # <<Done>>
    OBVIOUS
<1>4. Said
    BY <1>1, <1>2, <1>3, Events0 DEF Said, ToolSays, StraySays, ExecSays, EndIsSaid
<1>5. VolumeTells
    <2>1. LogGrows /\ WritesGrow /\ EndIsTold /\ LinesAreReal
        BY <1>1 DEF LogGrows, WritesGrow, EndIsTold, LinesAreReal
    <2>2. Accounted
        BY <1>1 DEF Accounted
    <2> QED
        BY <2>1, <2>2 DEF VolumeTells
<1>6. AllSent /\ DoneComesLast
    BY <1>1 DEF AllSent, Polls, DoneComesLast
<1> QED
    BY <1>4, <1>5, <1>6 DEF StreamInv

\* A connection of which a step changes nothing.
LEMMA SentElsewhere ==
    ASSUME TypeOK, AllSent, NEW s \in Streams, Polls(s)',
           UNCHANGED <<pc[s], at[s], sent[s], sentLogs[s], lines, known, volume, dropped>>,
           s \in straddled' <=> s \in straddled
    PROVE  SentToIndex(s)'
<1>1. SentToIndex(s)
    BY DEF AllSent, Polls
<1>2. /\ FollowsVolume(s) => FollowsVolume(s)'
      /\ FollowsMemory(s) => FollowsMemory(s)'
    BY DEF FollowsVolume, Follows, FollowsMemory
<1>3. /\ Covers(s) => Covers(s)'
      /\ OneNumbering(s)' <=> OneNumbering(s)
    BY DEF Covers, OneNumbering, Dropped
<1> QED
    BY <1>1, <1>2, <1>3 DEF SentToIndex

LEMMA StreamStep == TypeOK /\ StreamInv /\ [Next]_vars => StreamInv'
<1> SUFFICES ASSUME TypeOK, StreamInv, [Next]_vars PROVE StreamInv'
    OBVIOUS
<1>1. Said /\ VolumeTells /\ AllSent /\ DoneComesLast
    BY DEF StreamInv
<1>2. CASE ScanPart
    <2>1. ScanDoes
        BY <1>1, <1>2, ScanIs DEF VolumeTells
    <2>2. UNCHANGED <<pc, at, sentLogs, sent, straddled, volume, dropped, ch>> /\ lines' \in Nat
          /\ lines <= lines' /\ (~ known' => ~ known)
        BY <2>1 DEF ScanDoes
    <2>3. AllSent'
        <3>1. ASSUME NEW s \in Streams, Polls(s)'
              PROVE  SentToIndex(s)'
            <4>1. Polls(s) /\ (OneNumbering(s)' => OneNumbering(s))
                BY <2>2, <3>1 DEF Polls, OneNumbering
            <4>2. \A n \in Nat : Dropped("line", n) => Dropped("line", n)'
                BY <2>2 DEF Dropped
            <4>3. /\ volume'.log \in Seq(Nat) /\ Len(volume.log) <= Len(volume'.log)
                  /\ \A k \in 1..Len(volume.log) : volume'.log[k] = volume.log[k]
                BY <2>2, VolumeTypes
            <4> QED
                BY <1>1, <2>2, <4>1, <4>2, <4>3, SentRemains
        <3> QED
            BY <3>1 DEF AllSent
    <2>4. Said' /\ VolumeTells'
        BY <1>1, <1>2, SaidScan, VolumeScan DEF VolumeTells
    <2>5. DoneComesLast'
        <3>1. \A s \in Streams : \A i \in DOMAIN ch[s] :
                 ch[s][i] = Done /\ ~ panicked' => ToolsReturned'
            BY <2>2, <2>4 DEF Said, EndIsSaid
        <3>2. panicked => panicked'
            BY <1>2 DEF ScanPart, ExecuteBegins, ExecuteSkips, ExecuteEnds, ExecutePanics, StrayLine,
                        Report, Return
        <3> QED
            BY <1>1, <2>2, <3>1, <3>2 DEF DoneComesLast, ToolsReturned
    <2> QED
        BY <2>3, <2>4, <2>5 DEF StreamInv
<1>3. ASSUME NEW g \in Speakers, Broadcast(g)
      PROVE  StreamInv'
    <2>1. UNCHANGED <<status, known, lines, final, writes, volume, dropped, pc, at, got, sentLogs, sent,
                      straddled>>
        BY <1>3, BroadcastIs
    <2>2. AllSent' /\ VolumeTells'
        BY <1>1, <2>1, SentElsewhere, VolumeHandler DEF AllSent
    <2> QED
        BY <1>1, <1>3, <2>2, SaidBroadcast DEF StreamInv
<1>4. ASSUME Persist \/ (\E p \in Pods : Drain(p))
      PROVE  StreamInv'
    <2>1. UNCHANGED <<status, known, lines, final, panicked, left, toSay, pc, at, got, sentLogs, ch, sent,
                      straddled>>
        BY <1>4 DEF Persist, Drain, jobVars, streamVars
    <2>2. Said' /\ DoneComesLast'
        BY <1>1, <2>1 DEF Said, ToolSays, StraySays, ExecSays, EndIsSaid, ToolsReturned, DoneComesLast
    <2>3. CASE Persist
        <3>1. PICK w \in Writes : Applied(w)
            BY <2>3, PersistIs, AppliedIs
        <3>2. /\ volume'.log \in Seq(Nat) /\ Len(volume.log) <= Len(volume'.log)
              /\ \A k \in 1..Len(volume.log) : volume'.log[k] = volume.log[k]
            <4>1. w.n \in Nat /\ volume.log \in Seq(Nat)
                BY VolumeTypes DEF Writes
            <4>2. volume'.log = volume.log \/ volume'.log = Append(volume.log, w.n)
                BY <3>1 DEF Applied
            <4>3. CASE volume'.log = volume.log
                BY <4>1, <4>3
            <4>4. CASE volume'.log = Append(volume.log, w.n)
                BY <4>1, <4>4
            <4> QED
                BY <4>2, <4>3, <4>4
        <3>3. \A n \in Nat : Dropped("line", n) => Dropped("line", n)'
            BY <3>1 DEF Applied, Dropped
        <3>4. ASSUME NEW s \in Streams, Polls(s)'
              PROVE  SentToIndex(s)'
            <4>1. Polls(s)
                BY <2>1, <3>4 DEF Polls
            <4>2. OneNumbering(s)' => OneNumbering(s)
                BY <2>1, <3>1 DEF Applied, OneNumbering
            <4>3. lines' \in Nat /\ lines <= lines' /\ (~ known' => ~ known)
                BY <2>1 DEF TypeOK
            <4> QED
                BY <1>1, <2>1, <3>2, <3>3, <4>1, <4>2, <4>3, SentRemains
        <3> QED
            BY <1>1, <2>2, <2>3, <3>4, VolumePersist DEF StreamInv, AllSent
    <2>4. CASE \E p \in Pods : Drain(p)
        <3>1. UNCHANGED <<writes, volume, dropped>>
            BY <2>4 DEF Drain, diskVars
        <3>2. AllSent' /\ VolumeTells'
            BY <1>1, <2>1, <3>1, SentElsewhere, VolumeHandler DEF AllSent
        <3> QED
            BY <2>2, <3>2 DEF StreamInv
    <2> QED
        BY <1>4, <2>3, <2>4
<1>5. ASSUME NEW s \in Streams, Gets(s) \/ Moves(s)
      PROVE  StreamInv'
    <2>1. /\ UNCHANGED <<status, known, lines, final, writes, volume, dropped>>
          /\ \A t \in Streams : t # s => /\ pc'[t] = pc[t] /\ sent'[t] = sent[t] /\ at'[t] = at[t]
                                         /\ sentLogs'[t] = sentLogs[t] /\ got'[t] = got[t]
                                         /\ (t \in straddled' <=> t \in straddled)
        BY <1>5, HandlerIs
    <2>2. ASSUME NEW t \in Streams, Polls(t)'
          PROVE  SentToIndex(t)'
        <3>1. CASE t # s
            BY <1>1, <2>1, <2>2, <3>1, SentElsewhere
        <3>2. CASE t = s
            BY <1>1, <1>5, <2>2, <3>2, SentGets, SentMoves
        <3> QED
            BY <3>1, <3>2
    <2>3. AllSent'
        BY <2>2 DEF AllSent
    <2>4. got'[s] = got[s] \/ got'[s] = volume
        <3>1. CASE Gets(s)
            BY <3>1 DEF Gets, GetFromMemory, ReadLog, ReadLogFails
        <3>2. CASE ReadJobJSON(s)
            BY <3>2 DEF ReadJobJSON, TypeOK
        <3>3. ASSUME Moves(s), ~ ReadJobJSON(s)
              PROVE  got' = got
            BY <3>3 DEF Moves, ReadJobFails, CheckLocal, Subscribe, Tick, DrainEnds, Disconnect, Leave,
                        Receive, Connect
        <3> QED
            BY <1>5, <3>1, <3>2, <3>3
    <2>5. VolumeTells'
        BY <1>1, <2>1, <2>4, VolumeHandler
    <2> QED
        BY <1>1, <1>5, <2>3, <2>5, SaidHandler DEF StreamInv
<1>6. CASE UNCHANGED vars
    <2>1. UNCHANGED <<status, known, lines, final, panicked, left, toSay, writes, volume, dropped, pc, at,
                      got, sentLogs, ch, sent, straddled>>
        BY <1>6 DEF vars, jobVars, diskVars, streamVars
    <2>2. AllSent' /\ VolumeTells'
        BY <1>1, <2>1, SentElsewhere, VolumeHandler DEF AllSent
    <2>3. Said' /\ DoneComesLast'
        BY <1>1, <2>1 DEF Said, ToolSays, StraySays, ExecSays, EndIsSaid, ToolsReturned, DoneComesLast
    <2> QED
        BY <2>2, <2>3 DEF StreamInv
<1> QED
    BY <1>2, <1>3, <1>4, <1>5, <1>6, StepIs

\* What is said, written and sent stays consistent (jobs.go, server.go): the invariant
\* from which the theorems below follow.
THEOREM StreamInvHolds == Spec => [](TypeOK /\ StreamInv)
<1>1. Init => TypeOK /\ StreamInv
    BY StreamTypeInit, StreamInit
<1>2. (TypeOK /\ StreamInv) /\ [Next]_vars => (TypeOK /\ StreamInv)'
    BY StreamTypeStep, StreamStep
<1> QED
    BY <1>1, <1>2, PTL DEF Spec

-----------------------------------------------------------------------------
(* The theorems.                                                           *)

\* A client that polls is sent the lines in order and none twice: the index counts
\* what the window showed, and the window's lines lie beyond it until it slides,
\* from when on it sends nothing (tailFromDisk, server.go).  A line that is dropped
\* leaves a gap, and disturbs the order only for a client that was sent lines of the
\* volume and of memory in one connection.
THEOREM PollsAreOrdered == Spec => []PollInOrder
<1>1. ASSUME StreamInv, NEW s \in Streams, pc[s] \in {"tail", "get", "getlog"}, OneNumbering(s)
      PROVE  IsOrdered(sent[s])
    <2>1. SentToIndex(s)
        BY <1>1 DEF StreamInv, AllSent, Polls
    <2>2. FollowsVolume(s) \/ FollowsMemory(s)
        BY <1>1, <2>1 DEF SentToIndex
    <2> QED
        BY <2>2 DEF FollowsVolume, Follows, FollowsMemory, IsOrdered
<1>2. StreamInv => PollInOrder
    BY <1>1 DEF PollInOrder
<1> QED
    BY <1>2, StreamInvHolds, PTL

\* The end of the scan is the last thing a subscriber reads of it: executeJob says
\* it when RunScan has joined its goroutines and they have broadcast all they had,
\* unless the runner panicked.
THEOREM NothingAfterDone == Spec => []DoneComesLast
<1>1. StreamInv => DoneComesLast
    BY DEF StreamInv
<1> QED
    BY <1>1, StreamInvHolds, PTL

\* A snapshot or a poll that tells the end brings every line the scan had then and
\* persistWorker has not dropped: readFullJob reads job.json before combined.log,
\* and persistWorker applies the writes in order.
THEOREM EndBringsLines == Spec => DoneAfterLines
<1> DEFINE A == \A s \in Streams :
                  /\ pc[s] \in {"get", "getlog"} /\ pc'[s] = "done"
                  /\ lines <= MaxLog /\ faults' = faults
                  =>
                    /\ status = "ended" /\ (OneNumbering(s)' => IsOrdered(sent'[s]))
                    /\ \A n \in 1..final :
                          Dropped("line", n) \/ \E i \in DOMAIN sent'[s] : sent'[s][i] = n
<1>1. ASSUME TypeOK, StreamInv, [Next]_vars, NEW s \in Streams,
             pc[s] \in {"get", "getlog"}, pc'[s] = "done", lines <= MaxLog, faults' = faults
      PROVE  Brought(s)
    <2>1. Said /\ VolumeTells /\ AllSent
        BY <1>1 DEF StreamInv
    <2>2. pc'[s] # pc[s]
        BY <1>1
    <2>3. ~ ScanPart
        BY <1>1, <2>1, <2>2, ScanIs DEF VolumeTells, ScanDoes
    <2>4. ~ Persist /\ ~ UNCHANGED vars /\ ~ \E p \in Pods : Drain(p)
        BY <2>2 DEF Persist, Drain, vars, streamVars
    <2>5. ~ \E g \in Speakers : Broadcast(g)
        BY <1>1, <2>2, BroadcastIs
    <2>6. Gets(s) \/ Moves(s)
        BY <1>1, <2>2, <2>3, <2>4, <2>5, StepIs, HandlerIs
    <2>7. ~ Moves(s)
        BY <1>1 DEF Moves, ReadJobJSON, ReadJobFails, CheckLocal, WhereTo, Subscribe, Tick, DrainEnds,
                    Disconnect, Leave, Receive, Connect, Goes, TypeOK
    <2> QED
        BY <1>1, <2>1, <2>6, <2>7, SentGets
<1>2. TypeOK /\ StreamInv /\ [Next]_vars => A
    BY <1>1 DEF Brought
<1>3. TypeOK /\ StreamInv /\ [Next]_vars => [A]_vars
    BY <1>2
<1>4. Spec => [][A]_vars
    BY <1>3, StreamInvHolds, PTL DEF Spec
<1> QED
    BY <1>4 DEF DoneAfterLines
=============================================================================
