-------------------------------- MODULE MCAgent --------------------------------
(***************************************************************************)
(* Agent, for TLC: command lines with at most two flags, each with a value *)
(* the code accepts, one it refuses or a zero, and a few files.            *)
(***************************************************************************)
EXTENDS Agent, TLC

CONSTANTS Handler, Heartbeat

MCWorkers == <<Handler, Heartbeat>>

\* The values of the options that are told apart.
Values ==
  [client |-> [enabled |-> BOOLEAN, dataDir |-> {"/data", "data", ""},
               disableIPMasq |-> BOOLEAN, networkInterface |-> {"eth1", ""}],
   http   |-> [enabled |-> BOOLEAN, debugEnabled |-> BOOLEAN, address |-> {"0.0.0.0", ""},
               accessLogLevel |-> {"info", "loud"}, port |-> {0, 8080, 70000}],
   log    |-> [level |-> {"debug", "loud"}, json |-> BOOLEAN, includeLine |-> {TRUE},
               enableStacktrace |-> {TRUE}],
   nomad  |-> [address |-> {"https://nomad", ""}, token |-> {"t"}, caCert |-> {"f"},
               caPath |-> {"f"}, clientCert |-> {"f"}, clientKey |-> {"f"},
               tlsServerName |-> {"n"}, skipVerify |-> BOOLEAN],
   server |-> [enabled |-> BOOLEAN, interval |-> {-1, 0, 10}, threshold |-> {0, 10}],
   store  |-> [backend |-> {"nvar", "disk"}, path |-> {"other/", ""}]]

NoFlags == [block \in DOMAIN Values |-> [o \in DOMAIN Values[block] |-> Unset]]

With(flags) ==
  UNION {UNION {{[flags EXCEPT ![block][o] = v] : v \in Values[block][o]} :
                 o \in DOMAIN Values[block]} : block \in DOMAIN Values}

RunsClient == [NoFlags EXCEPT !.client.enabled = TRUE]
RunsServer == [NoFlags EXCEPT !.server.enabled = TRUE]

EmptyFile == [block \in DOMAIN Values |-> NoBlock]
ServerFile == [EmptyFile EXCEPT !.server = [NoFlags.server EXCEPT !.enabled = TRUE]]
HTTPFile == [EmptyFile EXCEPT !.http = [NoFlags.http EXCEPT !.port = 8080]]

MCInputs ==
  [flags : With(NoFlags) \cup With(RunsClient) \cup With(RunsServer) \cup {RunsClient}, files : {<<>>}]
    \cup [flags : {NoFlags, RunsClient}, files : {<<ServerFile>>, <<ServerFile, HTTPFile>>}]

MCRestarts == [flags : {RunsClient}, files : {<<>>}]
================================================================================
