--------------------------------- MODULE Agent ---------------------------------
(***************************************************************************)
(* The life of an agent process: configuration, the check of the Nomad     *)
(* API, the start of its goroutines, signals, and the stop.                *)
(*                                                                         *)
(* A worker is a goroutine that a wait group counts: on a client a handler *)
(* of subnet updates for every network and a heartbeat for every subnet,   *)
(* on a server the reaper.  What a worker does while it is busy (calls to  *)
(* Nomad or the kernel, with retries) may take any time, or never end.     *)
(***************************************************************************)
EXTENDS AgentConfig, FiniteSets

CONSTANTS
  Inputs,       \* what the command line and the files may say: [flags, files]
  Workers,      \* <<...>>: the workers of a client in the order of their start
  Reaper,       \* the worker of a server
  AttemptTimes, \* seconds an attempt to reach Nomad may take
  Restarts,     \* those of the Inputs with which a client is started again
  MaxIDs,       \* bound: so many client IDs are generated
  NoInput       \* no configuration is in use

ASSUME WorkersAssumption == Workers \in Seq(ToSet(Workers)) /\ Reaper \notin ToSet(Workers)
ASSUME InputsAssumption == Restarts \subseteq Inputs /\ MaxIDs \in Nat
ASSUME AttemptTimesAssumption == AttemptTimes \subseteq Nat

\* A nil pointer is none of the blocks of defaults and flags.
ASSUME NoBlockAssumption ==
  \A i \in Inputs : \A c \in {DefaultAgentConfig, AgentConfigFromCommand(i.flags)} :
    NoBlock \notin {c, c.client, c.http, c.log, c.nomad, c.server, c.store}

VARIABLES
  pc,        \* where the main goroutine is
  status,    \* "runs", or how the process ended
  input,     \* the command line and the files
  cfg,       \* the configuration
  fileCfg,   \* what was read from the files
  role,      \* "client" or "server", once it is set up
  interval,  \* the reaper's
  tries, elapsed, last, \* Retry: attempts that failed, seconds, the last error
  pinged,    \* history: Nomad has answered
  deadline,  \* history: an attempt has run into a deadline
  started,   \* how many workers of the client have been started
  worker,    \* worker[w]: "none", "spawned", "select", "busy", "done"
  waiter,    \* the goroutine of Stop that waits for the wait group
  late,      \* history: workers that had not joined when Stop looked first
  shutdown,  \* shutdownCh is closed
  http,      \* the HTTP server
  requests,  \* its open requests
  signals,   \* signalCh
  idFile,    \* the file of the client's ID, which stays when the process ends
  nextID,    \* uuid.New
  ranAs      \* history: the ID the client last ran with

config  == <<input, cfg, fileCfg, role, interval>>
retry   == <<tries, elapsed, last, pinged, deadline>>
group   == <<started, worker, waiter, late, shutdown>>
server  == <<http, requests>>
disk    == <<idFile, nextID, ranAs>>
process == <<pc, status, config, retry, group, server, signals>>
vars == <<process, disk>>

\* What the file holds: nothing, a part of an ID or all of it.
Content == [id : 0 .. MaxIDs, is : {"absent", "empty", "part", "whole"}]
NoFile == [id |-> 0, is |-> "absent"]

AllWorkers == ToSet(Workers) \cup {Reaper}

TypeOK ==
  /\ pc \in {"files", "merge", "flags", "validate", "new", "ping", "setup", "id", "create", "write", "init",
             "spawn", "http", "signals", "drain", "close", "wait", "end"}
  /\ status \in {"runs", "invalid", "failed", "killed", "panic", "stopped", "timeout"}
  /\ role \in {"none", "client", "server"}
  /\ tries \in 0 .. 6 /\ elapsed \in 0 .. 60
  /\ last \in {"nil", "error"}
  /\ pinged \in BOOLEAN /\ deadline \in BOOLEAN
  /\ started \in 0 .. Len(Workers)
  /\ worker \in [AllWorkers -> {"none", "spawned", "select", "busy", "done"}]
  /\ waiter \in {"none", "started", "waiting", "woken", "finished"}
  /\ late \subseteq AllWorkers
  /\ shutdown \in BOOLEAN
  /\ http \in {"off", "enabled", "serving", "failed", "draining", "closed"}
  /\ requests \in 0 .. 1
  /\ signals \in BoundedSeq({"HUP", "TERM"}, 3)
  /\ idFile \in Content /\ ranAs \in Content
  /\ nextID \in 0 .. MaxIDs

Init ==
  /\ pc = "files" /\ status = "runs"
  /\ input \in Inputs
  /\ cfg = DefaultAgentConfig /\ fileCfg = NoBlock
  /\ role = "none" /\ interval = 0
  /\ tries = 0 /\ elapsed = 0 /\ last = "nil"
  /\ pinged = FALSE /\ deadline = FALSE
  /\ started = 0
  /\ worker = [w \in AllWorkers |-> "none"]
  /\ waiter = "none" /\ late = {} /\ shutdown = FALSE
  /\ http = "off" /\ requests = 0
  /\ signals = <<>>
  /\ idFile = NoFile /\ nextID = 0 /\ ranAs = NoFile

\* A client that has ended is started again.
Restart ==
  /\ pc = "end" /\ role = "client"
  /\ pc' = "files" /\ status' = "runs"
  /\ input' \in Restarts
  /\ cfg' = DefaultAgentConfig /\ fileCfg' = NoBlock
  /\ role' = "none" /\ interval' = 0
  /\ tries' = 0 /\ elapsed' = 0 /\ last' = "nil"
  /\ pinged' = FALSE /\ deadline' = FALSE
  /\ started' = 0
  /\ worker' = [w \in AllWorkers |-> "none"]
  /\ waiter' = "none" /\ late' = {} /\ shutdown' = FALSE
  /\ http' = "off" /\ requests' = 0
  /\ signals' = <<>>
  /\ UNCHANGED disk

Goto(label) == pc' = label /\ UNCHANGED status
Exit(how)   == pc' = "end" /\ status' = how

-----------------------------------------------------------------------------
(* runCommand: the configuration.                                          *)

LoadFiles ==
  /\ pc = "files"
  /\ fileCfg' = AgentConfigFromFiles(StringArgs(input.files))
  /\ IF fileCfg' = ParseError THEN Exit("failed") ELSE Goto("merge")
  /\ UNCHANGED <<input, cfg, role, interval, retry, group, server, signals>>

\* The result of this merge is dropped.  (ServerConfig.Merge and the path of
\* StoreConfig.Merge would write into the defaults; there is nothing to write.)
MergeFiles ==
  /\ pc = "merge"
  /\ Goto("flags")
  /\ UNCHANGED <<config, retry, group, server, signals>>

MergeFlags ==
  /\ pc = "flags"
  /\ cfg' = AgentMerge(cfg, AgentConfigFromCommand(input.flags))
  /\ Goto("validate")
  /\ UNCHANGED <<input, fileCfg, role, interval, retry, group, server, signals>>

Validate ==
  /\ pc = "validate"
  /\ IF AgentIsValid(cfg) THEN Goto("new") ELSE Exit("invalid")
  /\ UNCHANGED <<config, retry, group, server, signals>>

-----------------------------------------------------------------------------
(* New: what the process keeps of the configuration, and the ping.         *)

\* The address, or the certificates, may be of no use.
NomadClient == Goto("ping") \/ Exit("failed")

New ==
  /\ pc = "new"
  /\ role' = IF ClientIsEnabled(cfg.client) THEN "client" ELSE "server"
  /\ interval' = cfg.server.interval
  /\ http' = IF HTTPIsEnabled(cfg.http) THEN "enabled" ELSE "off"
  /\ input' = NoInput /\ cfg' = NoInput /\ fileCfg' = NoInput
  /\ NomadClient
  /\ UNCHANGED <<retry, group, requests, signals>>

PingAnswered ==
  /\ pc = "ping"
  /\ pinged' = TRUE
  /\ Goto("setup")
  /\ UNCHANGED <<config, tries, elapsed, last, deadline, group, server, signals>>

\* The wait doubles, beginning with a second; the sixty seconds may be over first.
Waits == <<1, 2, 4, 8, 16, 32>>
PingFails ==
  /\ pc = "ping"
  /\ last' = "error"
  /\ tries' = tries + 1
  /\ \E d \in AttemptTimes :
       LET next == elapsed + d + Waits[tries + 1] IN
         IF next < 60 THEN elapsed' = next /\ Goto("ping")
                      ELSE elapsed' = 60 /\ Exit("failed")
  /\ UNCHANGED <<config, pinged, deadline, group, server, signals>>

\* The error of a deadline ends the retries with the error before it, if any.
MutantReturned == "nil"
Returned == last
PingTimesOut ==
  /\ pc = "ping"
  /\ deadline' = TRUE
  /\ IF Returned = "nil" THEN Goto("setup") ELSE Exit("failed")
  /\ UNCHANGED <<config, tries, elapsed, last, pinged, group, server, signals>>

\* client.New looks for the host's interface; server.New cannot fail.
Setup ==
  /\ pc = "setup"
  /\ \/ role = "client" /\ (Goto("id") \/ Exit("failed"))
     \/ role = "server" /\ Goto("spawn")
  /\ UNCHANGED <<config, retry, group, server, signals>>

-----------------------------------------------------------------------------
(* Start.                                                                  *)

\* generateID: what the file says is the ID, unless it is empty.
ReadID ==
  /\ pc = "id"
  /\ \/ idFile.is \in {"part", "whole"} /\ ranAs' = idFile /\ Goto("init")
     \/ idFile.is \in {"absent", "empty"} /\ Goto("create") /\ UNCHANGED ranAs
     \/ Exit("failed") /\ UNCHANGED ranAs
  /\ UNCHANGED <<config, retry, group, server, signals, idFile, nextID>>

\* os.WriteFile opens, which empties the file or makes an empty one, ...
CreateID ==
  /\ pc = "create" /\ nextID < MaxIDs
  /\ nextID' = nextID + 1
  /\ \/ idFile' = [id |-> 0, is |-> "empty"] /\ Goto("write")
     \/ UNCHANGED idFile /\ Exit("failed")
  /\ UNCHANGED <<config, retry, group, server, signals, ranAs>>

\* ... and writes, all or, with an error, a part.
MutantWriteID ==
  /\ pc = "write"
  /\ ranAs' = [id |-> nextID, is |-> "whole"] /\ Goto("init")
  /\ UNCHANGED <<config, retry, group, server, signals, idFile, nextID>>
WriteID ==
  /\ pc = "write"
  /\ \/ /\ idFile' = [id |-> nextID, is |-> "whole"] /\ ranAs' = idFile'
        /\ Goto("init")
     \/ /\ idFile' \in {idFile, [id |-> nextID, is |-> "part"]} /\ UNCHANGED ranAs
        /\ Exit("failed")
  /\ UNCHANGED <<config, retry, group, server, signals, nextID>>

\* Init: module Leases.
InitClient ==
  /\ pc = "init"
  /\ Goto("spawn") \/ Exit("failed")
  /\ UNCHANGED <<config, retry, group, server, signals>>

Spawn ==
  /\ pc = "spawn" /\ role = "client" /\ started < Len(Workers)
  /\ started' = started + 1
  /\ worker' = [worker EXCEPT ![Workers[started + 1]] = "spawned"]
  /\ UNCHANGED <<pc, status, config, retry, waiter, late, shutdown, server, signals>>

SpawnReaper ==
  /\ pc = "spawn" /\ role = "server" /\ worker[Reaper] = "none"
  /\ worker' = [worker EXCEPT ![Reaper] = "spawned"]
  /\ UNCHANGED <<pc, status, config, retry, started, waiter, late, shutdown, server, signals>>

EndOfSpawn ==
  /\ pc = "spawn"
  /\ IF role = "client" THEN started = Len(Workers) ELSE worker[Reaper] # "none"
  /\ Goto("http")
  /\ UNCHANGED <<config, retry, group, server, signals>>

\* ListenAndServe runs in a goroutine of its own; its error is only logged.
StartHTTP ==
  /\ pc = "http"
  /\ http' \in IF http = "enabled" THEN {"serving", "failed"} ELSE {http}
  /\ Goto("signals")
  /\ UNCHANGED <<config, retry, group, requests, signals>>

OpenRequest ==
  /\ http = "serving" /\ requests = 0 /\ status = "runs"
  /\ requests' = 1
  /\ UNCHANGED <<pc, status, config, retry, group, http, signals>>

CloseRequest ==
  /\ requests = 1 /\ status = "runs"
  /\ requests' = 0
  /\ UNCHANGED <<pc, status, config, retry, group, http, signals>>

-----------------------------------------------------------------------------
(* The workers.                                                            *)

Running(w) == status = "runs" /\ worker[w] # "none"

Becomes(w, s) ==
  /\ worker' = [worker EXCEPT ![w] = s]
  /\ UNCHANGED <<config, retry, started, late, shutdown, server, signals>>

\* What the wait group counts: a goroutine adds itself once it runs.
MutantJoined == {w \in AllWorkers : worker[w] = "select"}
Joined == {w \in AllWorkers : worker[w] \in {"select", "busy"}}

\* The first thing the reaper does is a pass.
Join(w) ==
  /\ Running(w) /\ worker[w] = "spawned"
  /\ Becomes(w, IF w = Reaper THEN "busy" ELSE "select")
  /\ UNCHANGED <<pc, status, waiter>>

\* An update, an error or a tick, which select may prefer to the shutdown.
Work(w) ==
  /\ Running(w) /\ worker[w] = "select"
  /\ Becomes(w, "busy")
  /\ UNCHANGED <<pc, status, waiter>>

\* The ticker of the reaper does not take an interval that is not positive.
MutantFinish(w) ==
  /\ Running(w) /\ worker[w] = "busy"
  /\ Becomes(w, "spawned")
  /\ waiter' = IF waiter = "waiting" /\ Joined = {w} THEN "woken" ELSE waiter
  /\ IF w = Reaper /\ interval <= 0 THEN Exit("panic") ELSE UNCHANGED <<pc, status>>
Finish(w) ==
  /\ Running(w) /\ worker[w] = "busy"
  /\ Becomes(w, "select")
  /\ IF w = Reaper /\ interval <= 0 THEN Exit("panic") ELSE UNCHANGED <<pc, status>>
  /\ UNCHANGED waiter

\* The last to leave wakes the one that waits.
Leave(w) ==
  /\ Running(w) /\ worker[w] = "select" /\ shutdown
  /\ Becomes(w, "done")
  /\ waiter' = IF waiter = "waiting" /\ Joined = {w} THEN "woken" ELSE waiter
  /\ UNCHANGED <<pc, status>>

-----------------------------------------------------------------------------
(* Signals, and Stop.                                                      *)

\* Until WaitForSignal asks for them, signals end the process.
Kill ==
  /\ status = "runs" /\ pc \notin {"signals", "drain", "close", "wait"}
  /\ Exit("killed")
  /\ UNCHANGED <<config, retry, group, server, signals>>

\* A signal that finds the channel full is lost.
MutantNotify(sig) ==
  /\ pc \in {"signals", "drain", "close", "wait"} /\ Len(signals) < 4
  /\ signals' = Append(signals, sig)
  /\ UNCHANGED <<pc, status, config, retry, group, server>>
Notify(sig) ==
  /\ pc \in {"signals", "drain", "close", "wait"} /\ Len(signals) < 3
  /\ signals' = Append(signals, sig)
  /\ UNCHANGED <<pc, status, config, retry, group, server>>

TakeSignal ==
  /\ pc = "signals" /\ signals # <<>>
  /\ signals' = Tail(signals)
  /\ Goto(IF Head(signals) = "HUP" THEN "signals" ELSE "drain")
  /\ UNCHANGED <<config, retry, group, server>>

\* Shutdown of the HTTP server waits for open requests, without a limit.
DrainHTTP ==
  /\ pc = "drain"
  /\ \/ http \in {"serving", "failed"} /\ http' = "draining" /\ Goto("drain")
     \/ http = "draining" /\ requests = 0 /\ http' = "closed" /\ Goto("close")
     \/ http = "off" /\ UNCHANGED http /\ Goto("close")
  /\ UNCHANGED <<config, retry, group, requests, signals>>

Close ==
  /\ pc = "close"
  /\ shutdown' = TRUE
  /\ waiter' = "started"
  /\ Goto("wait")
  /\ UNCHANGED <<config, retry, started, worker, late, server, signals>>

\* Wait returns at once if the group is empty.
WaiterLooks ==
  /\ status = "runs" /\ waiter = "started"
  /\ waiter' = IF Joined = {} THEN "finished" ELSE "waiting"
  /\ late' = {w \in AllWorkers : worker[w] = "spawned"}
  /\ UNCHANGED <<pc, status, config, retry, started, worker, shutdown, server, signals>>

\* Wait looks again when it is woken, and panics if the group is in use.
WaiterWakes ==
  /\ status = "runs" /\ waiter = "woken"
  /\ IF Joined = {} THEN waiter' = "finished" /\ UNCHANGED <<pc, status>>
                    ELSE UNCHANGED waiter /\ Exit("panic")
  /\ UNCHANGED <<config, retry, started, worker, late, shutdown, server, signals>>

StopFinishes ==
  /\ pc = "wait" /\ waiter = "finished"
  /\ Exit("stopped")
  /\ UNCHANGED <<config, retry, group, server, signals>>

\* Ten seconds.  The error is logged; the agent stops all the same.
MutantStopTimesOut == FALSE /\ UNCHANGED process
StopTimesOut ==
  /\ pc = "wait"
  /\ Exit("timeout")
  /\ UNCHANGED <<config, retry, group, server, signals>>

-----------------------------------------------------------------------------

Configure == LoadFiles \/ MergeFiles \/ MergeFlags \/ Validate

Start ==
  \/ New \/ PingAnswered \/ PingFails \/ PingTimesOut \/ Setup
  \/ InitClient \/ Spawn \/ SpawnReaper \/ EndOfSpawn \/ StartHTTP

GenerateID == ReadID \/ CreateID \/ WriteID

Stop == DrainHTTP \/ Close \/ StopFinishes \/ StopTimesOut

Main ==
  \/ (Configure \/ Start \/ TakeSignal \/ Stop) /\ UNCHANGED disk
  \/ GenerateID

Waiter == WaiterLooks \/ WaiterWakes

Others ==
  \/ Waiter \/ Kill
  \/ OpenRequest \/ CloseRequest
  \/ \E sig \in {"HUP", "TERM"} : Notify(sig)
  \/ \E w \in AllWorkers : Join(w) \/ Work(w) \/ Finish(w) \/ Leave(w)

Next == Main \/ (Others /\ UNCHANGED disk) \/ Restart

Spec == Init /\ [][Next]_vars

\* The main goroutine goes on and requests end (the server has timeouts for
\* them).  Nothing is assumed of workers: a call may hang.
FairSpec == Spec /\ WF_vars(Main) /\ WF_vars(CloseRequest /\ UNCHANGED disk)

-----------------------------------------------------------------------------
(* What holds.                                                             *)

Given(block, o) == input.flags[block][o]

Pointers == {"enabled", "debugEnabled", "json", "includeLine", "enableStacktrace",
             "skipVerify"}
Zero(o) == IF o = "disableIPMasq" THEN FALSE
           ELSE IF o \in {"port", "interval", "threshold"} THEN 0 ELSE ""

\* Each option of the configuration a process validates is what its flag or
\* variable says, and the default if they say nothing; a zero says something
\* only where it can be told from nothing.  No merge on the way loses a flag
\* or lets an option of one block into another.
FlagsOverrideDefaults ==
  pc = "validate" =>
    \A block \in DOMAIN cfg : \A o \in DOMAIN cfg[block] :
      LET told == Given(block, o) # Unset /\ (o \in Pointers \/ Given(block, o) # Zero(o))
      IN cfg[block][o] = IF told THEN Given(block, o) ELSE DefaultAgentConfig[block][o]

\* A process that goes beyond the check of the Nomad API has had an answer, or
\* its very first failure was one of a deadline: no other failure is taken for
\* success, however many follow each other.
GoesOnUnansweredOnlyByDeadline ==
  role # "none" /\ pc \notin {"ping", "end"} => pinged \/ (deadline /\ tries = 0)

\* A stop that does not time out leaves no worker behind that had joined the
\* group when the stop began to wait.
CleanStopLeavesOnlyLateJoiners ==
  status = "stopped" => \A w \in AllWorkers : worker[w] \in {"none", "done"} \/ w \in late

\* The process panics for two reasons only: a reaper that was configured an
\* interval that is not positive, or a worker that joins the group while the
\* stop is being woken from its wait for it.
PanicIsExplained ==
  status = "panic" => (role = "server" /\ interval <= 0) \/ late # {}

\* The ID a client has run with once is the one it runs with ever after, however
\* often and wherever in its start it is stopped, and even if the first write of
\* the file failed half way.
IDIsStable == [][ranAs # NoFile => ranAs' = ranAs]_vars

\* A termination signal that is in the channel ends the process, whatever the
\* workers do.
SignalEndsAgent == (\E i \in DOMAIN signals : signals[i] = "TERM") ~> pc = "end"

-----------------------------------------------------------------------------
(* Why: the inductive invariant, in named parts (proved in AgentProofs).   *)

Configuring == pc \in {"files", "merge", "flags", "validate", "new"}

Shape ==
  /\ started \in Nat
  /\ worker \in [AllWorkers -> {"none", "spawned", "select", "busy", "done"}]
  /\ Configuring => role = "none"
  /\ pc # "end" => status = "runs"

\* Until there is an error, no attempt has failed; each took at least its wait,
\* and there are no more than fit into the sixty seconds.
ErrorsAreCounted ==
  /\ tries \in 0 .. 6 /\ elapsed \in 0 .. 60
  /\ last = "nil" => tries = 0
  /\ Configuring => tries = 0 /\ elapsed = 0
  /\ pc = "ping" => tries <= 5 /\ Waits[tries + 1] <= elapsed + 1 /\ elapsed < 60

\* The configuration is that of the defaults until the flags are put over it.
ConfigIsMerged ==
  /\ pc \in {"files", "merge", "flags", "validate"} => input \in Inputs
  /\ pc \in {"files", "merge", "flags"} => cfg = DefaultAgentConfig
  /\ pc = "validate" =>
       cfg = AgentMerge(DefaultAgentConfig, AgentConfigFromCommand(input.flags))

\* The reaper is a worker of a server.
ReaperIsServers ==
  /\ Configuring => worker[Reaper] = "none"
  /\ worker[Reaper] # "none" => role = "server"

\* The wait group is waited for at the end only, when no goroutine is started
\* any more, and from then on only those that are late join it.
GroupIsClosed ==
  /\ waiter # "none" => pc \in {"wait", "end"}
  /\ waiter \in {"waiting", "woken", "finished"} =>
       \A w \in AllWorkers : worker[w] = "spawned" => w \in late
  /\ waiter = "woken" => Joined = {} \/ late # {}
  /\ waiter = "finished" =>
       \A w \in AllWorkers : worker[w] \in {"none", "done"} \/ w \in late

\* No ID is made up once one has been used.
IDIsOnDisk ==
  ranAs # NoFile =>
    idFile = ranAs /\ ranAs.is \in {"part", "whole"} /\ pc \notin {"create", "write"}

IInv ==
  /\ Shape /\ ErrorsAreCounted /\ ConfigIsMerged /\ ReaperIsServers /\ GroupIsClosed /\ IDIsOnDisk
  /\ GoesOnUnansweredOnlyByDeadline /\ CleanStopLeavesOnlyLateJoiners
  /\ PanicIsExplained
================================================================================
