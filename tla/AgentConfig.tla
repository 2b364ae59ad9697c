------------------------------ MODULE AgentConfig ------------------------------
(***************************************************************************)
(* The configuration of an agent: defaults, files, flags, and how they are *)
(* put on top of each other.                                               *)
(*                                                                         *)
(* A configuration is a record of blocks and a block a record of options.  *)
(* Unset is what the code takes for "not given": a nil pointer, an empty   *)
(* string, a zero and, for the one option that is a plain bool, false.     *)
(* Reaper and NVar, blocks within blocks, are spread out in theirs.        *)
(***************************************************************************)
EXTENDS Integers, Sequences, SequencesExt

CONSTANTS
  Unset,       \* the zero value of an option
  NoBlock,     \* a nil pointer to a block, or to a configuration
  ParseError,  \* a file that cannot be read
  RelativeDirs \* the values of data_dir that are not absolute paths

-----------------------------------------------------------------------------
(* Merge: what is set in the other block wins.                             *)

Override(block, other) ==
  [o \in DOMAIN block |-> IF other[o] # Unset THEN other[o] ELSE block[o]]

MergeBlocks(block, other) ==
  IF block = NoBlock THEN other
  ELSE IF other = NoBlock THEN block
  ELSE Override(block, other)

ClientMerge(block, other) == MergeBlocks(block, other)

\* The debug endpoints are the option that was added last.
MutantHTTPMerge(block, other) ==
  LET merged == MergeBlocks(block, other) IN
    IF NoBlock \in {block, other} THEN merged
    ELSE [merged EXCEPT !.debugEnabled = block.debugEnabled]
HTTPMerge(block, other)   == MergeBlocks(block, other)
LogMerge(block, other)    == MergeBlocks(block, other)
NomadMerge(block, other)  == MergeBlocks(block, other)
ServerMerge(block, other) == MergeBlocks(block, other)
StoreMerge(block, other)  == MergeBlocks(block, other)

AgentMerge(cfg, other) ==
  IF cfg = NoBlock THEN other
  ELSE IF other = NoBlock THEN cfg
  ELSE [client |-> ClientMerge(cfg.client, other.client),
        http   |-> HTTPMerge(cfg.http, other.http),
        log    |-> LogMerge(cfg.log, other.log),
        nomad  |-> NomadMerge(cfg.nomad, other.nomad),
        server |-> ServerMerge(cfg.server, other.server),
        store  |-> StoreMerge(cfg.store, other.store)]

-----------------------------------------------------------------------------
(* The defaults.  Times are in minutes.                                    *)

DefaultClientConfig ==
  [enabled |-> FALSE, dataDir |-> "/var/lib/smuggle/client",
   disableIPMasq |-> Unset, networkInterface |-> Unset]

DefaultHTTPConfig ==
  [enabled |-> TRUE, debugEnabled |-> FALSE, address |-> "localhost",
   accessLogLevel |-> "debug", port |-> 9090]

DefaultLogConfig ==
  [level |-> "info", json |-> FALSE, includeLine |-> FALSE, enableStacktrace |-> FALSE]

DefaultNomadConfig ==
  [address |-> "http://localhost:4646", token |-> Unset, caCert |-> Unset, caPath |-> Unset,
   clientCert |-> Unset, clientKey |-> Unset, tlsServerName |-> Unset, skipVerify |-> FALSE]

DefaultServerConfig == [enabled |-> FALSE, interval |-> 5, threshold |-> 5]

DefaultStoreConfig == [backend |-> "nvar", path |-> "smuggle/"]

DefaultAgentConfig ==
  [client |-> DefaultClientConfig, http |-> DefaultHTTPConfig, log |-> DefaultLogConfig,
   nomad |-> DefaultNomadConfig, server |-> DefaultServerConfig, store |-> DefaultStoreConfig]

-----------------------------------------------------------------------------
(* The command line.  flags has, for every option, the value of its flag   *)
(* or environment variable, or Unset if there is neither.                  *)

\* An option kept as a pointer is set by its flag, whatever the value; one
\* kept as a value is set by a flag with a value other than zero.
Pointer(flag) == flag
String(flag)  == IF flag = "" THEN Unset ELSE flag
Number(flag)  == IF flag = 0 THEN Unset ELSE flag
Bool(flag)    == IF flag = FALSE THEN Unset ELSE flag

ClientConfigFromCommand(flags) ==
  [enabled |-> Pointer(flags.enabled), dataDir |-> String(flags.dataDir),
   disableIPMasq |-> Bool(flags.disableIPMasq),
   networkInterface |-> String(flags.networkInterface)]

HTTPConfigFromCommand(flags) ==
  [enabled |-> Pointer(flags.enabled), debugEnabled |-> Pointer(flags.debugEnabled),
   address |-> String(flags.address), accessLogLevel |-> String(flags.accessLogLevel),
   port |-> Number(flags.port)]

LogConfigFromCommand(flags) ==
  [level |-> String(flags.level), json |-> Pointer(flags.json),
   includeLine |-> Pointer(flags.includeLine),
   enableStacktrace |-> Pointer(flags.enableStacktrace)]

NomadConfigFromCommand(flags) ==
  [o \in DOMAIN DefaultNomadConfig |->
     IF o = "skipVerify" THEN Pointer(flags[o]) ELSE String(flags[o])]

ServerConfigFromCommand(flags) ==
  [enabled |-> Pointer(flags.enabled), interval |-> Number(flags.interval),
   threshold |-> Number(flags.threshold)]

StoreConfigFromCommand(flags) ==
  [backend |-> String(flags.backend), path |-> String(flags.path)]

AgentConfigFromCommand(flags) ==
  [client |-> ClientConfigFromCommand(flags.client), http |-> HTTPConfigFromCommand(flags.http),
   log |-> LogConfigFromCommand(flags.log), nomad |-> NomadConfigFromCommand(flags.nomad),
   server |-> ServerConfigFromCommand(flags.server),
   store |-> StoreConfigFromCommand(flags.store)]

-----------------------------------------------------------------------------
(* The files, each a configuration that may lack blocks, or a ParseError.  *)

AgentConfigFromFiles(files) ==
  IF \E f \in ToSet(files) : f = ParseError THEN ParseError
  ELSE FoldLeft(AgentMerge, NoBlock, files)

\* StringArgs looks a name up among the positional arguments of a command.
\* The command has none; "config" is a flag.
StringArgs(configFlag) == <<>>

-----------------------------------------------------------------------------
(* Validation, on Linux.                                                   *)

ClientIsEnabled(block) == block # NoBlock /\ block.enabled = TRUE
ServerIsEnabled(block) == block # NoBlock /\ block.enabled = TRUE
HTTPIsEnabled(block)   == block # NoBlock /\ block.enabled = TRUE

\* Those zap knows.
Levels == {"debug", "info", "warn", "error", "dpanic", "panic", "fatal"}

ClientIsValid(block) ==
  ClientIsEnabled(block) => block.dataDir \notin RelativeDirs \cup {Unset}

HTTPIsValid(block) ==
  /\ block.debugEnabled = TRUE => HTTPIsEnabled(block)
  /\ block.accessLogLevel \in Levels
  /\ block.port \in 1 .. 65535

LogIsValid(block) == block.level \in Levels

StoreIsValid(block) == block.backend = "nvar" /\ block.path # Unset

\* Neither the Nomad block nor the intervals of the server are looked at.
AgentIsValid(cfg) ==
  /\ ClientIsEnabled(cfg.client) # ServerIsEnabled(cfg.server)
  /\ ClientIsValid(cfg.client)
  /\ HTTPIsValid(cfg.http)
  /\ LogIsValid(cfg.log)
  /\ StoreIsValid(cfg.store)

================================================================================
