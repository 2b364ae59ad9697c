------------------------------ MODULE AgentProofs ------------------------------
(***************************************************************************)
(* Proofs about Agent: the invariant is inductive, one lemma per part of   *)
(* the next-state relation, and what follows from it.                      *)
(***************************************************************************)
EXTENDS Agent, TLAPS

\* The waits, one by one.
LEMMA WaitsAre ==
  /\ Waits[1] = 1 /\ Waits[2] = 2 /\ Waits[3] = 4
  /\ Waits[4] = 8 /\ Waits[5] = 16 /\ Waits[6] = 32
BY DEF Waits

\* The process begins in the invariant.
LEMMA InitHolds == Init => IInv
BY WorkersAssumption, WaitsAre DEF Init, IInv, Shape, Configuring, ErrorsAreCounted, ConfigIsMerged, ReaperIsServers,
   GroupIsClosed, IDIsOnDisk, GoesOnUnansweredOnlyByDeadline, CleanStopLeavesOnlyLateJoiners,
   PanicIsExplained, AllWorkers, NoFile, Joined

\* The steps of the configuration leave everything as it is at the start.
LEMMA ConfigureStep ==
  ASSUME IInv, Configure, UNCHANGED disk
  PROVE  IInv'
<1> USE DEF IInv, Shape, Configuring, ErrorsAreCounted, ConfigIsMerged, ReaperIsServers, GroupIsClosed, IDIsOnDisk,
            GoesOnUnansweredOnlyByDeadline, CleanStopLeavesOnlyLateJoiners, PanicIsExplained,
            Joined, Goto, Exit, retry, group, server, disk
<1>1. CASE LoadFiles
  BY <1>1 DEF LoadFiles
<1>2. CASE MergeFiles
  BY <1>2 DEF MergeFiles, config
<1>3. CASE MergeFlags
  BY <1>3 DEF MergeFlags
<1>4. CASE Validate
  BY <1>4 DEF Validate, config
<1> QED
  BY <1>1, <1>2, <1>3, <1>4 DEF Configure

\* The steps of New and Start, up to the wait for signals.
LEMMA StartStep ==
  ASSUME IInv, Start, UNCHANGED disk
  PROVE  IInv'
<1> USE DEF IInv, Shape, Configuring, ErrorsAreCounted, ConfigIsMerged, ReaperIsServers, GroupIsClosed, IDIsOnDisk,
            GoesOnUnansweredOnlyByDeadline, CleanStopLeavesOnlyLateJoiners, PanicIsExplained,
            Joined, Goto, Exit, config, retry, group, server, disk
<1>1. CASE New
  BY <1>1, WaitsAre DEF New, NomadClient
<1>2. CASE PingAnswered
  BY <1>2 DEF PingAnswered
<1>3. CASE PingFails
  <2>1. PICK d \in Nat :
          IF elapsed + d + Waits[tries + 1] < 60
          THEN elapsed' = elapsed + d + Waits[tries + 1] /\ Goto("ping")
          ELSE elapsed' = 60 /\ Exit("failed")
    BY <1>3, AttemptTimesAssumption DEF PingFails
  <2>2. /\ pc = "ping" /\ tries' = tries + 1 /\ last' = "error"
        /\ UNCHANGED <<config, pinged, deadline, group, server, signals>>
    BY <1>3 DEF PingFails
  <2>3. tries \in 0 .. 5 /\ elapsed \in Nat /\ Waits[tries + 1] <= elapsed + 1 /\ elapsed < 60
    BY <2>2
  <2>4. /\ tries' \in 0 .. 6 /\ elapsed' \in 0 .. 60
        /\ pc' = "ping" => tries' <= 5 /\ Waits[tries' + 1] <= elapsed' + 1 /\ elapsed' < 60
    <3>1. CASE tries = 0
      BY <2>1, <2>2, <2>3, <3>1, WaitsAre
    <3>2. CASE tries = 1
      BY <2>1, <2>2, <2>3, <3>2, WaitsAre
    <3>3. CASE tries = 2
      BY <2>1, <2>2, <2>3, <3>3, WaitsAre
    <3>4. CASE tries = 3
      BY <2>1, <2>2, <2>3, <3>4, WaitsAre
    <3>5. CASE tries = 4
      BY <2>1, <2>2, <2>3, <3>5, WaitsAre
    <3>6. CASE tries = 5
      BY <2>1, <2>2, <2>3, <3>6, WaitsAre
    <3> QED
      BY <2>3, <3>1, <3>2, <3>3, <3>4, <3>5, <3>6
  <2> QED
    BY <2>1, <2>2, <2>4
<1>4. CASE PingTimesOut
  BY <1>4 DEF PingTimesOut, Returned
<1>5. CASE Setup
  BY <1>5 DEF Setup
<1>6. CASE InitClient
  BY <1>6 DEF InitClient
<1>7. CASE Spawn
  <2>1. /\ Workers[started + 1] \in AllWorkers \ {Reaper}
        /\ pc = "spawn" /\ waiter = "none" /\ status' = status
    BY <1>7, WorkersAssumption DEF Spawn, AllWorkers, ToSet
  <2>2. Shape' /\ ErrorsAreCounted' /\ ConfigIsMerged' /\ IDIsOnDisk' /\ GoesOnUnansweredOnlyByDeadline'
    BY <1>7, <2>1 DEF Spawn
  <2>3. ReaperIsServers'
    BY <1>7, <2>1 DEF Spawn
  <2>4. GroupIsClosed' /\ PanicIsExplained'
    BY <1>7, <2>1 DEF Spawn
  <2>5. CleanStopLeavesOnlyLateJoiners'
    BY <1>7, <2>1 DEF Spawn
  <2> QED
    BY <2>2, <2>3, <2>4, <2>5
<1>8. CASE SpawnReaper
  <2>1. /\ Reaper \in AllWorkers
        /\ pc = "spawn" /\ waiter = "none" /\ status' = status /\ role = "server"
    BY <1>8 DEF SpawnReaper, AllWorkers
  <2>2. Shape' /\ ErrorsAreCounted' /\ ConfigIsMerged' /\ IDIsOnDisk' /\ GoesOnUnansweredOnlyByDeadline'
    BY <1>8, <2>1 DEF SpawnReaper
  <2>3. ReaperIsServers'
    BY <1>8, <2>1 DEF SpawnReaper
  <2>4. GroupIsClosed' /\ PanicIsExplained'
    BY <1>8, <2>1 DEF SpawnReaper
  <2>5. CleanStopLeavesOnlyLateJoiners'
    BY <1>8, <2>1 DEF SpawnReaper
  <2> QED
    BY <2>2, <2>3, <2>4, <2>5
<1>9. CASE EndOfSpawn
  BY <1>9 DEF EndOfSpawn
<1>10. CASE StartHTTP
  BY <1>10 DEF StartHTTP
<1> QED
  BY <1>1, <1>2, <1>3, <1>4, <1>5, <1>6, <1>7, <1>8, <1>9, <1>10 DEF Start

\* A signal and the stop.  Only WaiterLooks and StopFinishes make it a clean one.
LEMMA StopStep ==
  ASSUME IInv, TakeSignal \/ Stop, UNCHANGED disk
  PROVE  IInv'
<1> USE DEF IInv, Shape, Configuring, ErrorsAreCounted, ConfigIsMerged, ReaperIsServers, GroupIsClosed, IDIsOnDisk,
            GoesOnUnansweredOnlyByDeadline, CleanStopLeavesOnlyLateJoiners, PanicIsExplained,
            Joined, Goto, Exit, config, retry, group, server, disk
<1>1. CASE TakeSignal
  BY <1>1 DEF TakeSignal
<1>2. CASE DrainHTTP
  BY <1>2 DEF DrainHTTP
<1>3. CASE Close
  BY <1>3 DEF Close
<1>4. CASE StopFinishes
  BY <1>4 DEF StopFinishes
<1>5. CASE StopTimesOut
  BY <1>5 DEF StopTimesOut
<1> QED
  BY <1>1, <1>2, <1>3, <1>4, <1>5 DEF Stop

\* The steps of generateID, the only ones that touch the file.
LEMMA GenerateIDStep ==
  ASSUME IInv, GenerateID
  PROVE  IInv'
<1> USE DEF IInv, Shape, Configuring, ErrorsAreCounted, ConfigIsMerged, ReaperIsServers, GroupIsClosed, IDIsOnDisk,
            GoesOnUnansweredOnlyByDeadline, CleanStopLeavesOnlyLateJoiners, PanicIsExplained,
            Joined, Goto, Exit, config, retry, group, server
<1>1. CASE ReadID
  BY <1>1 DEF ReadID
<1>2. CASE CreateID
  BY <1>2 DEF CreateID
<1>3. CASE WriteID
  BY <1>3 DEF WriteID
<1> QED
  BY <1>1, <1>2, <1>3 DEF GenerateID

\* The steps of a worker.  The wait group is the set Joined.
LEMMA WorkerStep ==
  ASSUME IInv, NEW w \in AllWorkers, Join(w) \/ Work(w) \/ Finish(w) \/ Leave(w), UNCHANGED disk
  PROVE  IInv'
<1> USE DEF IInv, Shape, Configuring, ErrorsAreCounted, ConfigIsMerged, ReaperIsServers, GroupIsClosed, IDIsOnDisk,
            GoesOnUnansweredOnlyByDeadline, CleanStopLeavesOnlyLateJoiners, PanicIsExplained,
            Running, Becomes, Exit, config, retry, server, disk
<1>1. CASE Join(w)
  BY <1>1 DEF Join, Joined
<1>2. CASE Work(w)
  BY <1>2 DEF Work, Joined
<1>3. CASE Finish(w)
  BY <1>3 DEF Finish, Joined
<1>4. CASE Leave(w)
  BY <1>4 DEF Leave, Joined
<1> QED
  BY <1>1, <1>2, <1>3, <1>4

\* The steps of all goroutines but the main one, and signals.
LEMMA OthersStep ==
  ASSUME IInv, Others, UNCHANGED disk
  PROVE  IInv'
<1>1. CASE \E w \in AllWorkers : Join(w) \/ Work(w) \/ Finish(w) \/ Leave(w)
  BY <1>1, WorkerStep
<1> USE DEF IInv, Shape, Configuring, ErrorsAreCounted, ConfigIsMerged, ReaperIsServers, GroupIsClosed, IDIsOnDisk,
            GoesOnUnansweredOnlyByDeadline, CleanStopLeavesOnlyLateJoiners, PanicIsExplained,
            Joined, Exit, config, retry, group, server, disk
<1>2. CASE WaiterLooks
  BY <1>2 DEF WaiterLooks
<1>3. CASE WaiterWakes
  BY <1>3 DEF WaiterWakes
<1>4. CASE Kill
  BY <1>4 DEF Kill
<1>5. CASE OpenRequest
  BY <1>5 DEF OpenRequest
<1>6. CASE CloseRequest
  BY <1>6 DEF CloseRequest
<1>7. CASE \E sig \in {"HUP", "TERM"} : Notify(sig)
  BY <1>7 DEF Notify
<1> QED
  BY <1>1, <1>2, <1>3, <1>4, <1>5, <1>6, <1>7 DEF Others, Waiter

\* A new process begins in the invariant, with the file of the last one.
LEMMA RestartStep ==
  ASSUME IInv, Restart
  PROVE  IInv'
BY WorkersAssumption, InputsAssumption, WaitsAre DEF Restart, IInv, Shape, Configuring, ErrorsAreCounted, ConfigIsMerged, ReaperIsServers,
   GroupIsClosed, IDIsOnDisk, GoesOnUnansweredOnlyByDeadline, CleanStopLeavesOnlyLateJoiners,
   PanicIsExplained, AllWorkers, Joined, disk

\* Nothing changes.
LEMMA StutterStep ==
  ASSUME IInv, UNCHANGED vars
  PROVE  IInv'
BY DEF IInv, Shape, Configuring, ErrorsAreCounted, ConfigIsMerged, ReaperIsServers, GroupIsClosed, IDIsOnDisk,
       GoesOnUnansweredOnlyByDeadline, CleanStopLeavesOnlyLateJoiners, PanicIsExplained, Joined,
       vars, process, config, retry, group, server, disk

\* The invariant holds: whatever the configuration, however many workers there
\* are, and in whatever order their steps, the signals and the stop come.
THEOREM Invariance == Spec => []IInv
<1>1. IInv /\ [Next]_vars => IInv'
  BY ConfigureStep, StartStep, StopStep, GenerateIDStep, OthersStep, RestartStep, StutterStep
     DEF Next, Main
<1> QED
  BY InitHolds, <1>1, PTL DEF Spec

\* A process goes on after a check of Nomad that was answered, or whose first
\* failure was a deadline's.
THEOREM UnansweredOnlyByDeadline == Spec => []GoesOnUnansweredOnlyByDeadline
<1>1. IInv => GoesOnUnansweredOnlyByDeadline
  BY DEF IInv
<1> QED
  BY <1>1, Invariance, PTL

\* A stop that does not time out leaves behind only workers that joined late.
THEOREM CleanStops == Spec => []CleanStopLeavesOnlyLateJoiners
<1>1. IInv => CleanStopLeavesOnlyLateJoiners
  BY DEF IInv
<1> QED
  BY <1>1, Invariance, PTL

\* The process panics only because of the reaper's interval or a late worker.
THEOREM PanicsAreExplained == Spec => []PanicIsExplained
<1>1. IInv => PanicIsExplained
  BY DEF IInv
<1> QED
  BY <1>1, Invariance, PTL

\* A client keeps the ID it has once run with.
THEOREM IDsAreStable == Spec => IDIsStable
<1> DEFINE Stays == ranAs # NoFile => ranAs' = ranAs
<1>1. ASSUME IInv, [Next]_vars, ranAs # NoFile PROVE ranAs' = ranAs
  <2>1. CASE GenerateID
    BY <1>1, <2>1 DEF GenerateID, ReadID, CreateID, WriteID, IInv, IDIsOnDisk
  <2>2. CASE UNCHANGED disk
    BY <2>2 DEF disk
  <2>3. CASE Restart
    BY <2>3 DEF Restart, disk
  <2> QED
    BY <1>1, <2>1, <2>2, <2>3 DEF Next, Main, vars
<1>2. IInv /\ [Next]_vars => [Stays]_vars
  BY <1>1
<1> QED
  BY <1>2, Invariance, PTL DEF Spec, IDIsStable

-----------------------------------------------------------------------------
(* Types.                                                                  *)

\* An ID that has been made up can be on the file, or a part of it.
LEMMA ContentIs ==
  /\ NoFile \in Content
  /\ [id |-> 0, is |-> "empty"] \in Content
  /\ \A id \in 0 .. MaxIDs :
         /\ [id |-> id, is |-> "part"] \in Content
         /\ [id |-> id, is |-> "whole"] \in Content
BY InputsAssumption DEF Content, NoFile

\* The bounded sequences over a set are its sequences that are no longer.
LEMMA BoundedSeqIs ==
  ASSUME NEW X, NEW n \in Nat, NEW s
  PROVE  s \in BoundedSeq(X, n) <=> s \in Seq(X) /\ Len(s) <= n
<1>1. ASSUME s \in BoundedSeq(X, n)
      PROVE  s \in Seq(X) /\ Len(s) <= n
  <2>1. PICK m \in 0 .. n : s \in [1 .. m -> X]
    BY <1>1 DEF BoundedSeq, SeqOf
  <2>2. s \in Seq(X) /\ Len(s) = m
    BY <2>1
  <2> QED
    BY <2>1, <2>2
<1>2. ASSUME s \in Seq(X), Len(s) <= n
      PROVE  s \in BoundedSeq(X, n)
  <2>1. s \in [1 .. Len(s) -> X] /\ Len(s) \in 0 .. n
    BY <1>2
  <2> QED
    BY <2>1 DEF BoundedSeq, SeqOf
<1> QED
  BY <1>1, <1>2

\* The signals: at most three.
LEMMA SignalsFit ==
  ASSUME NEW s \in BoundedSeq({"HUP", "TERM"}, 3)
  PROVE  /\ Len(s) < 3 => \A sig \in {"HUP", "TERM"} :
                            Append(s, sig) \in BoundedSeq({"HUP", "TERM"}, 3)
         /\ s # <<>> => Tail(s) \in BoundedSeq({"HUP", "TERM"}, 3)
<1> DEFINE Sigs == {"HUP", "TERM"}
<1>1. s \in Seq(Sigs) /\ Len(s) <= 3
  BY BoundedSeqIs
<1>2. ASSUME Len(s) < 3, NEW sig \in Sigs
      PROVE  Append(s, sig) \in BoundedSeq(Sigs, 3)
  <2>1. Append(s, sig) \in Seq(Sigs) /\ Len(Append(s, sig)) <= 3
    BY <1>1, <1>2
  <2> HIDE DEF Sigs
  <2> QED
    BY <2>1, BoundedSeqIs
<1>3. ASSUME s # <<>>
      PROVE  Tail(s) \in BoundedSeq(Sigs, 3)
  <2>1. Tail(s) \in Seq(Sigs) /\ Len(Tail(s)) <= 3
    BY <1>1, <1>3
  <2> HIDE DEF Sigs
  <2> QED
    BY <2>1, BoundedSeqIs
<1> QED
  BY <1>2, <1>3

\* And no signals at all.
LEMMA NothingFits == <<>> \in BoundedSeq({"HUP", "TERM"}, 3)
<1> DEFINE Sigs == {"HUP", "TERM"}
<1>1. <<>> \in Seq(Sigs) /\ Len(<<>>) <= 3
  OBVIOUS
<1> HIDE DEF Sigs
<1>2. <<>> \in BoundedSeq(Sigs, 3)
  BY <1>1, BoundedSeqIs
<1> QED
  BY <1>2 DEF Sigs

\* Each step of the program keeps the values of the variables in their sets.
LEMMA TypeStep ==
  ASSUME TypeOK, IInv, [Next]_vars
  PROVE  TypeOK'
<1> DEFINE States == {"none", "spawned", "select", "busy", "done"}
<1> USE DEF TypeOK, Goto, Exit, config, retry, group, server, disk
<1>1. CASE Configure /\ UNCHANGED disk
  <2>1. CASE LoadFiles
    BY <1>1, <2>1 DEF LoadFiles
  <2>2. CASE MergeFiles
    BY <1>1, <2>2 DEF MergeFiles
  <2>3. CASE MergeFlags
    BY <1>1, <2>3 DEF MergeFlags
  <2>4. CASE Validate
    BY <1>1, <2>4 DEF Validate
  <2> QED
    BY <1>1, <2>1, <2>2, <2>3, <2>4 DEF Configure
<1>2. CASE Start /\ UNCHANGED disk
  <2>1. CASE New
    BY <1>2, <2>1 DEF New, NomadClient
  <2>2. CASE PingAnswered
    BY <1>2, <2>2 DEF PingAnswered
  <2>3. CASE PingFails
    <3>1. ErrorsAreCounted'
      BY <1>2, StartStep DEF IInv
    <3> QED
      BY <1>2, <2>3, <3>1 DEF PingFails, ErrorsAreCounted
  <2>4. CASE PingTimesOut
    BY <1>2, <2>4 DEF PingTimesOut
  <2>5. CASE Setup
    BY <1>2, <2>5 DEF Setup
  <2>6. CASE InitClient
    BY <1>2, <2>6 DEF InitClient
  <2>7. CASE Spawn
    <3>1. started' \in 0 .. Len(Workers)
      BY <2>7, WorkersAssumption DEF Spawn
    <3>2. worker' \in [AllWorkers -> States]
      BY <2>7 DEF Spawn
    <3> QED
      BY <1>2, <2>7, <3>1, <3>2 DEF Spawn
  <2>8. CASE SpawnReaper
    <3>1. worker' \in [AllWorkers -> States]
      BY <2>8 DEF SpawnReaper
    <3> QED
      BY <1>2, <2>8, <3>1 DEF SpawnReaper
  <2>9. CASE EndOfSpawn
    BY <1>2, <2>9 DEF EndOfSpawn
  <2>10. CASE StartHTTP
    BY <1>2, <2>10 DEF StartHTTP
  <2> QED
    BY <1>2, <2>1, <2>2, <2>3, <2>4, <2>5, <2>6, <2>7, <2>8, <2>9, <2>10 DEF Start
<1>3. CASE TakeSignal /\ UNCHANGED disk
  <2>1. signals' \in BoundedSeq({"HUP", "TERM"}, 3)
    BY <1>3, SignalsFit DEF TakeSignal
  <2> QED
    BY <1>3, <2>1 DEF TakeSignal
<1>4. CASE Stop /\ UNCHANGED disk
  <2>1. CASE DrainHTTP
    BY <1>4, <2>1 DEF DrainHTTP
  <2>2. CASE Close
    BY <1>4, <2>2 DEF Close
  <2>3. CASE StopFinishes
    BY <1>4, <2>3 DEF StopFinishes
  <2>4. CASE StopTimesOut
    BY <1>4, <2>4 DEF StopTimesOut
  <2> QED
    BY <1>4, <2>1, <2>2, <2>3, <2>4 DEF Stop
<1>5. CASE GenerateID
  <2>1. CASE ReadID
    BY <2>1 DEF ReadID
  <2>2. CASE CreateID
    <3>1. nextID' \in 0 .. MaxIDs
      BY <2>2, InputsAssumption DEF CreateID
    <3>2. idFile' \in Content /\ ranAs' \in Content
      BY <2>2, ContentIs, InputsAssumption DEF CreateID
    <3> QED
      BY <2>2, <3>1, <3>2 DEF CreateID
  <2>3. CASE WriteID
    <3>1. nextID' \in 0 .. MaxIDs /\ idFile' \in Content /\ ranAs' \in Content
      BY <2>3, ContentIs DEF WriteID
    <3> QED
      BY <2>3, <3>1 DEF WriteID
  <2> QED
    BY <1>5, <2>1, <2>2, <2>3 DEF GenerateID
<1>6. CASE Others /\ UNCHANGED disk
  <2>1. CASE WaiterLooks
    BY <1>6, <2>1 DEF WaiterLooks
  <2>2. CASE WaiterWakes
    BY <1>6, <2>2 DEF WaiterWakes
  <2>3. CASE Kill
    BY <1>6, <2>3 DEF Kill
  <2>4. CASE OpenRequest \/ CloseRequest
    <3>1. requests' \in 0 .. 1
      BY <2>4 DEF OpenRequest, CloseRequest
    <3>2. /\ UNCHANGED <<pc, status, config, retry, group, http, signals>>
          /\ UNCHANGED disk
      BY <1>6, <2>4 DEF OpenRequest, CloseRequest
    <3> QED
      BY <3>1, <3>2
  <2>5. ASSUME NEW sig \in {"HUP", "TERM"}, Notify(sig)
        PROVE  TypeOK'
    <3>1. signals' \in BoundedSeq({"HUP", "TERM"}, 3)
      BY <2>5, SignalsFit DEF Notify
    <3> QED
      BY <1>6, <2>5, <3>1 DEF Notify
  <2>6. ASSUME NEW w \in AllWorkers, Join(w) \/ Work(w) \/ Finish(w) \/ Leave(w)
        PROVE  TypeOK'
    <3>1. worker' \in [AllWorkers -> States]
      BY <2>6 DEF Join, Work, Finish, Leave, Becomes
    <3>2. /\ UNCHANGED <<config, retry, started, late, shutdown, server, signals>>
          /\ UNCHANGED disk
      BY <1>6, <2>6 DEF Join, Work, Finish, Leave, Becomes
    <3>3. /\ waiter' \in {waiter, "woken"}
          /\ UNCHANGED <<pc, status>> \/ (pc' = "end" /\ status' = "panic")
      BY <2>6 DEF Join, Work, Finish, Leave
    <3> QED
      BY <3>1, <3>2, <3>3
  <2> QED
    BY <1>6, <2>1, <2>2, <2>3, <2>4, <2>5, <2>6 DEF Others, Waiter
<1>7. CASE Restart
  <2>1. /\ started' \in 0 .. Len(Workers)
        /\ worker' \in [AllWorkers -> States]
        /\ signals' \in BoundedSeq({"HUP", "TERM"}, 3)
    BY <1>7, WorkersAssumption, NothingFits DEF Restart
  <2>2. /\ pc' = "files" /\ status' = "runs" /\ role' = "none" /\ last' = "nil"
        /\ tries' = 0 /\ elapsed' = 0 /\ pinged' = FALSE /\ deadline' = FALSE
        /\ waiter' = "none" /\ late' = {} /\ shutdown' = FALSE /\ http' = "off" /\ requests' = 0
        /\ UNCHANGED disk
    BY <1>7 DEF Restart
  <2>3. /\ tries' \in 0 .. 6 /\ elapsed' \in 0 .. 60 /\ requests' \in 0 .. 1
    BY <2>2
  <2>4. /\ pinged' \in BOOLEAN /\ deadline' \in BOOLEAN /\ shutdown' \in BOOLEAN
        /\ late' \subseteq AllWorkers
    BY <2>2, Zenon
  <2>5. nextID' \in 0 .. MaxIDs /\ idFile' \in Content /\ ranAs' \in Content
    BY <2>2
  <2> QED
    BY <2>1, <2>2, <2>3, <2>4, <2>5, Zenon
<1>8. CASE UNCHANGED vars
  BY <1>8 DEF vars, process
<1> QED
  BY <1>1, <1>2, <1>3, <1>4, <1>5, <1>6, <1>7, <1>8 DEF Next, Main

\* Every variable stays in its set: no more than three signals wait, and no more
\* than six attempts fail.
THEOREM TypeCorrect == Spec => []TypeOK
<1>1. Init => TypeOK
  <2> SUFFICES ASSUME Init PROVE TypeOK
    OBVIOUS
  <2>1. started \in 0 .. Len(Workers) /\ nextID \in 0 .. MaxIDs
    BY WorkersAssumption, InputsAssumption DEF Init
  <2>2. <<>> \in BoundedSeq({"HUP", "TERM"}, 3)
    BY NothingFits
  <2>3. worker \in [AllWorkers -> {"none", "spawned", "select", "busy", "done"}]
    BY DEF Init
  <2>4. idFile \in Content /\ ranAs \in Content
    BY ContentIs DEF Init
  <2>5. signals \in BoundedSeq({"HUP", "TERM"}, 3)
    BY <2>2 DEF Init
  <2>6. /\ tries \in 0 .. 6 /\ elapsed \in 0 .. 60 /\ requests \in 0 .. 1
    BY DEF Init
  <2>7. /\ pinged \in BOOLEAN /\ deadline \in BOOLEAN /\ shutdown \in BOOLEAN
        /\ late \subseteq AllWorkers
    BY Zenon DEF Init
  <2> QED
    BY <2>1, <2>3, <2>4, <2>5, <2>6, <2>7, Zenon DEF Init, TypeOK
<1>2. TypeOK /\ IInv /\ [Next]_vars => TypeOK'
  BY TypeStep
<1> QED
  BY <1>1, <1>2, Invariance, PTL DEF Spec

-----------------------------------------------------------------------------
(* The configuration.                                                      *)

\* An option of a merged block is that of the other block where it is set.
LEMMA OptionsAreOverridden ==
  ASSUME NEW block, NEW other, block # NoBlock, other # NoBlock
  PROVE  /\ DOMAIN MergeBlocks(block, other) = DOMAIN block
         /\ \A o \in DOMAIN block :
              MergeBlocks(block, other)[o] = IF other[o] # Unset THEN other[o] ELSE block[o]
BY DEF MergeBlocks, Override

\* What a flag says of an option, by its kind: a pointer, or a value with a zero.
Says(told, o) ==
  IF o \in Pointers THEN told[o] ELSE IF told[o] = Zero(o) THEN Unset ELSE told[o]

\* The conversion of each block takes from a flag what it says.
LEMMA FlagsAreConverted ==
  ASSUME NEW flags
  PROVE  LET fc == AgentConfigFromCommand(flags) IN
         \A block \in DOMAIN DefaultAgentConfig : \A o \in DOMAIN DefaultAgentConfig[block] :
           fc[block][o] = Says(flags[block], o)
<1> DEFINE fc == AgentConfigFromCommand(flags)
<1> USE DEF DefaultAgentConfig, Says, Pointers, Zero, String, Number, Bool, Pointer
<1>1. \A o \in DOMAIN DefaultClientConfig : fc.client[o] = Says(flags.client, o)
  <2>1. DOMAIN DefaultClientConfig = {"enabled", "dataDir", "disableIPMasq", "networkInterface"}
    BY DEF DefaultClientConfig
  <2>2. /\ fc.client.enabled = Says(flags.client, "enabled")
        /\ fc.client.dataDir = Says(flags.client, "dataDir")
        /\ fc.client.disableIPMasq = Says(flags.client, "disableIPMasq")
        /\ fc.client.networkInterface = Says(flags.client, "networkInterface")
    BY DEF AgentConfigFromCommand, ClientConfigFromCommand
  <2> QED
    BY ONLY <2>1, <2>2
<1>2. \A o \in DOMAIN DefaultHTTPConfig : fc.http[o] = Says(flags.http, o)
  <2>1. DOMAIN DefaultHTTPConfig = {"enabled", "debugEnabled", "address", "accessLogLevel", "port"}
    BY DEF DefaultHTTPConfig
  <2>2. /\ fc.http.enabled = Says(flags.http, "enabled")
        /\ fc.http.debugEnabled = Says(flags.http, "debugEnabled")
        /\ fc.http.address = Says(flags.http, "address")
        /\ fc.http.accessLogLevel = Says(flags.http, "accessLogLevel")
        /\ fc.http.port = Says(flags.http, "port")
    BY DEF AgentConfigFromCommand, HTTPConfigFromCommand
  <2> QED
    BY ONLY <2>1, <2>2
<1>3. \A o \in DOMAIN DefaultLogConfig : fc.log[o] = Says(flags.log, o)
  <2>1. DOMAIN DefaultLogConfig = {"level", "json", "includeLine", "enableStacktrace"}
    BY DEF DefaultLogConfig
  <2>2. /\ fc.log.level = Says(flags.log, "level")
        /\ fc.log.json = Says(flags.log, "json")
        /\ fc.log.includeLine = Says(flags.log, "includeLine")
        /\ fc.log.enableStacktrace = Says(flags.log, "enableStacktrace")
    BY DEF AgentConfigFromCommand, LogConfigFromCommand
  <2> QED
    BY ONLY <2>1, <2>2
<1>4. \A o \in DOMAIN DefaultNomadConfig : fc.nomad[o] = Says(flags.nomad, o)
  BY DEF AgentConfigFromCommand, DefaultNomadConfig, NomadConfigFromCommand
<1>5. \A o \in DOMAIN DefaultServerConfig : fc.server[o] = Says(flags.server, o)
  <2>1. DOMAIN DefaultServerConfig = {"enabled", "interval", "threshold"}
    BY DEF DefaultServerConfig
  <2>2. /\ fc.server.enabled = Says(flags.server, "enabled")
        /\ fc.server.interval = Says(flags.server, "interval")
        /\ fc.server.threshold = Says(flags.server, "threshold")
    BY DEF AgentConfigFromCommand, ServerConfigFromCommand
  <2> QED
    BY ONLY <2>1, <2>2
<1>6. \A o \in DOMAIN DefaultStoreConfig : fc.store[o] = Says(flags.store, o)
  <2>1. DOMAIN DefaultStoreConfig = {"backend", "path"}
    BY DEF DefaultStoreConfig
  <2>2. /\ fc.store.backend = Says(flags.store, "backend")
        /\ fc.store.path = Says(flags.store, "path")
    BY DEF AgentConfigFromCommand, StoreConfigFromCommand
  <2> QED
    BY ONLY <2>1, <2>2
<1> HIDE DEF fc, Says
<1> QED
  BY <1>1, <1>2, <1>3, <1>4, <1>5, <1>6 DEF fc

\* The flags over the defaults, option by option.
LEMMA FlagsAreMerged ==
  ASSUME NEW i \in Inputs
  PROVE  LET merged == AgentMerge(DefaultAgentConfig, AgentConfigFromCommand(i.flags))
             Told(block, o) == Says(i.flags[block], o)
         IN  /\ DOMAIN merged = DOMAIN DefaultAgentConfig
             /\ \A block \in DOMAIN merged :
                  /\ DOMAIN merged[block] = DOMAIN DefaultAgentConfig[block]
                  /\ \A o \in DOMAIN merged[block] :
                       merged[block][o] = IF Told(block, o) # Unset THEN Told(block, o)
                                          ELSE DefaultAgentConfig[block][o]
<1> DEFINE told == AgentConfigFromCommand(i.flags)
           merged == AgentMerge(DefaultAgentConfig, told)
           Blocks == {"client", "http", "log", "nomad", "server", "store"}
<1>1. /\ DefaultAgentConfig # NoBlock /\ told # NoBlock
      /\ \A block \in Blocks : DefaultAgentConfig[block] # NoBlock /\ told[block] # NoBlock
  BY NoBlockAssumption
<1>2. DOMAIN DefaultAgentConfig = Blocks
  BY DEF DefaultAgentConfig
<1> HIDE DEF told
<1>3. /\ DOMAIN merged = Blocks
      /\ \A block \in Blocks : merged[block] = MergeBlocks(DefaultAgentConfig[block], told[block])
  BY <1>1 DEF AgentMerge, ClientMerge, HTTPMerge, LogMerge, NomadMerge, ServerMerge, StoreMerge
<1> HIDE DEF merged
<1>4. \A block \in Blocks : \A o \in DOMAIN DefaultAgentConfig[block] :
        told[block][o] = Says(i.flags[block], o)
  BY <1>2, FlagsAreConverted DEF told
<1>5. ASSUME NEW block \in Blocks
      PROVE  /\ DOMAIN merged[block] = DOMAIN DefaultAgentConfig[block]
             /\ \A o \in DOMAIN merged[block] :
                  merged[block][o] = IF told[block][o] # Unset THEN told[block][o]
                                     ELSE DefaultAgentConfig[block][o]
  BY <1>1, <1>3, OptionsAreOverridden
<1>6. DOMAIN merged = DOMAIN DefaultAgentConfig
  BY <1>2, <1>3
<1>7. ASSUME NEW block \in DOMAIN merged, NEW o \in DOMAIN merged[block]
      PROVE  merged[block][o] = IF Says(i.flags[block], o) # Unset THEN Says(i.flags[block], o)
                                ELSE DefaultAgentConfig[block][o]
  BY <1>3, <1>4, <1>5, <1>7
<1>8. \A block \in DOMAIN merged : DOMAIN merged[block] = DOMAIN DefaultAgentConfig[block]
  BY <1>3, <1>5
<1> QED
  BY <1>6, <1>7, <1>8 DEF merged, told

\* No merge loses a flag or lets an option of one block into another.
THEOREM FlagsWin == Spec => []FlagsOverrideDefaults
<1>1. IInv => FlagsOverrideDefaults
  <2> SUFFICES ASSUME IInv, pc = "validate", NEW block \in DOMAIN cfg, NEW o \in DOMAIN cfg[block]
               PROVE  LET told == Given(block, o) # Unset
                                    /\ (o \in Pointers \/ Given(block, o) # Zero(o))
                      IN cfg[block][o] = IF told THEN Given(block, o)
                                         ELSE DefaultAgentConfig[block][o]
    BY DEF FlagsOverrideDefaults
  <2>1. /\ input \in Inputs
        /\ cfg = AgentMerge(DefaultAgentConfig, AgentConfigFromCommand(input.flags))
    BY DEF IInv, ConfigIsMerged
  <2> DEFINE said == Says(input.flags[block], o)
  <2>2. cfg[block][o] = IF said # Unset THEN said ELSE DefaultAgentConfig[block][o]
    BY <2>1, FlagsAreMerged
  <2> QED
    BY <2>2 DEF Says, Given
<1> QED
  BY <1>1, Invariance, PTL
================================================================================
